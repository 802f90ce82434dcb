------------------------- MODULE TagStateProperties -------------------------
(***************************************************************************)
(* What the prior tags are worth: which versions they are the tags of, in   *)
(* runs in step with the manifest and in runs that scan again after a       *)
(* crash, and which events are found with them.                             *)
(***************************************************************************)
EXTENDS TagState

-----------------------------------------------------------------------------
(* The cache *)

\* A long value garbles what is read from the first object that has one on.
Garbled(o) == \E i \in DOMAIN history : history[i].object <= o /\ HoldsLong(history[i].tags)

\* What the scan knows of an object after the first n versions: nothing at the
\* import or once it is deleted, else its tags at the last event.
KnownAfter(o) ==
  LET Known[n \in imported..Len(history)] ==
        IF n = imported THEN NoTags
        ELSE LET v == history[n]
             IN  IF v.object # o \/ (v.visible /\ v.create) THEN Known[n - 1]
                 ELSE IF ~v.visible THEN NoTags
                 ELSE IF Classify(Known[n - 1], v.tags, v.order) = NoEvent THEN Known[n - 1]
                 ELSE Tracked(v.tags)
  IN  Known

\* Split over any number of runs, with crashes and compactions between them,
\* the scan compares with the same prior tags as one scan of all the diffs
\* would, as long as no run died between the sidecar and the manifest.
PriorsFollowTheStream ==
  (phase = "scan" /\ inStep) =>
    \A o \in Objects : Garbled(o) \/ Pre(o) = KnownAfter(o)[pos]

\* Also a run that scans diffs again, with a sidecar that is ahead of them,
\* compares with the tags of a version of the object, or with none.
PriorsAreTheObjects ==
  phase = "scan" =>
    \A o \in Objects :
      \/ Garbled(o)
      \/ Pre(o) = NoTags
      \/ \E i \in DOMAIN history : /\ history[i].object = o /\ history[i].visible
                                   /\ Pre(o) = Tracked(history[i].tags)

\* object_tag_state.hpp: the state "Holds the name-family tags of every object
\* that currently carries at least one language variant".
PriorTagsAreKnown ==
  (phase = "scan" /\ inStep) =>
    \A o \in Objects : Garbled(o) \/ Pre(o) = TagsAfter(o, pos)

\* API.md: "each modified object still visible afterwards is compared against
\* its prior tags", after a crash between the sidecar and the manifest too.
PriorsInEveryRun ==
  phase = "scan" => \A o \in Objects : Garbled(o) \/ Pre(o) = KnownAfter(o)[pos]

\* object_tag_state.hpp: the sidecar is the "overlay accumulated during a run":
\* what a later run reads from it is what the scans recorded, long values too.
OverlayAccumulates ==
  (phase = "scan" /\ inStep) => \A o \in Objects : Pre(o) = KnownAfter(o)[pos]

-----------------------------------------------------------------------------
(* The events *)

\* Every title belongs to one language.
TitlesAreOwn(tags) ==
  \A t, u \in {v \in tags : IsWikiLang(v)} : t.value = u.value => t.lang = u.lang

\* An object whose tracked tags did not change gives no event, unless two
\* languages share a title, the order of which then decides.
NoEventWithoutChange ==
  (last.event # NoEvent /\ TitlesAreOwn(last.new) /\ TitlesAreOwn(last.prior)) =>
    last.prior # Tracked(last.new)

\* suspect_lang.cpp: a swap is the "same value moved xx -> yy": a language the
\* version no longer has the title under gave it to one that has it now.
SwapMovesTitle ==
  last.event = "wikipedia_swap" =>
    \E t \in last.prior, u \in last.new :
      /\ IsWikiLang(t) /\ IsWikiLang(u)
      /\ t.value = u.value /\ t.lang # u.lang
      /\ t \notin last.new

Chars == UNION {{t.value[i] : i \in DOMAIN t.value} :
                t \in UNION {history[i].tags : i \in DOMAIN history}}
Without(s, i) == SubSeq(s, 1, i - 1) \o SubSeq(s, i + 1, Len(s))
With(s, i, c) == SubSeq(s, 1, i - 1) \o <<c>> \o SubSeq(s, i, Len(s))
OneEdit(s) ==
  {s} \cup {Without(s, i) : i \in DOMAIN s}
      \cup {With(s, i, c) : i \in 1..(Len(s) + 1), c \in Chars}
      \cup {[s EXCEPT ![i] = c] : i \in DOMAIN s, c \in Chars}
\* The reference: at most two characters inserted, removed or replaced.
TwoEdits(s) == UNION {OneEdit(r) : r \in OneEdit(s)}

\* The old name is gone from the new version, and by more than a typo.
IsRenamed(prev, new) ==
  \E old \in ValuesOf(prev, "name"), name \in ValuesOf(new, "name") :
    /\ HasNameLang(new) /\ name \notin TwoEdits(old)
    /\ ~\E t \in new : (IsNameLang(t) \/ t.family = "old_name") /\ t.value = old

\* A changed name is an event exactly if no tag of the new version keeps the
\* old one and it takes more than two edits, whatever else changed with it.
RenamesAreNoTypos ==
  last.object # 0 =>
    /\ last.event = NoEvent => ~IsRenamed(last.prior, last.new)
    /\ last.event = "name_changed" => IsRenamed(last.prior, last.new)
=============================================================================
