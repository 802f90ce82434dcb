--------------------------- MODULE TagStateProofs ---------------------------
(***************************************************************************)
(* What the scan compares a version with was the object's at some version,  *)
(* or is nothing: for every history, every way of cutting it into runs, and *)
(* any number of crashes between the sidecar and the manifest. In runs in   *)
(* step with the manifest it is what one scan of all versions would know.   *)
(* And tags that did not change are no event.                               *)
(***************************************************************************)
EXTENDS TagStateProperties, DataInduction

\* The tags one of an object's versions was worth keeping, or none.
WereTags(o, tags) ==
  \/ tags = NoTags
  \/ \E i \in DOMAIN history : /\ history[i].object = o /\ history[i].visible
                               /\ tags = Tracked(history[i].tags)

HistoryOK ==
  /\ \E s \in Streams : history = s.versions /\ imported = s.imported
  /\ history \in Seq(Versions)
  /\ imported \in Nat /\ manifest \in Nat /\ pos \in Nat

\* No file ever lies at the path the constructor tests, so no base is loaded.
NoBase ==
  /\ DOMAIN files = Names
  /\ files[BasePath] = Absent
  /\ base = Nothing

\* The overlay and the sidecar hold tags of versions.
OverlayOK == \A o \in DOMAIN overlay : WereTags(o, overlay[o].tags)
SidecarOK ==
  files[TypedDelta] # Absent =>
    \A o \in DOMAIN files[TypedDelta].live : WereTags(o, files[TypedDelta].live[o])

PriorsInv == HistoryOK /\ NoBase /\ OverlayOK /\ SidecarOK

\* The four paths differ.
LEMMA PathsDiffer ==
  /\ Names = {BasePath, DeltaPath, TypedBase, TypedDelta}
  /\ BasePath # DeltaPath /\ BasePath # TypedBase /\ BasePath # TypedDelta
  /\ DeltaPath # TypedBase /\ DeltaPath # TypedDelta /\ TypedBase # TypedDelta
BY DEF Names, BasePath, DeltaPath, TypedBase, TypedDelta

LEMMA PriorsInit == Init => PriorsInv
<1> SUFFICES ASSUME Init PROVE PriorsInv
  OBVIOUS
<1>1. HistoryOK
  BY StreamsAreHistories DEF Init, HistoryOK
<1>2. NoBase /\ SidecarOK
  BY PathsDiffer DEF Init, NoBase, SidecarOK
<1>3. OverlayOK
  BY DEF Init, OverlayOK, Nothing
<1>. QED BY <1>1, <1>2, <1>3 DEF PriorsInv

\* What an object's tags were stays true as long as the history does not change.
LEMMA WereTagsKept ==
  ASSUME history' = history, NEW o, NEW tags
  PROVE  WereTags(o, tags)' <=> WereTags(o, tags)
BY DEF WereTags, NoTags, Tracked

\* Only the scan of a version and the start of a run change the overlay, only
\* the sidecar's writer the sidecar.
LEMMA PriorsStep == ASSUME PriorsInv, [Next]_vars PROVE PriorsInv'
<1> USE DEF PriorsInv
<1>0. history' = history
  BY DEF Next, vars, Import, StartRun, ScanDeletion, ScanCreate, ScanModification, Scanned,
         Persist, CommitManifest, RewriteBase, DropSidecar, EndRun, Crash
<1>1. CASE UNCHANGED vars
  <2>1. HistoryOK' /\ NoBase' /\ UNCHANGED <<files, overlay>>
    BY <1>1 DEF vars, memory, HistoryOK, NoBase
  <2>. QED BY <1>0, <2>1, WereTagsKept DEF OverlayOK, SidecarOK
<1>2. CASE Import
  <2>1. HistoryOK' /\ UNCHANGED <<overlay, base>>
    BY <1>2 DEF Import, memory, HistoryOK
  <2>2. NoBase' /\ files'[TypedDelta] = Absent
    BY <1>2, <2>1, PathsDiffer DEF Import, NoBase
  <2>. QED BY <1>0, <2>1, <2>2, WereTagsKept DEF OverlayOK, SidecarOK
<1>3. CASE StartRun
  <2>1. HistoryOK' /\ UNCHANGED files
    BY <1>3 DEF StartRun, HistoryOK
  <2>2. NoBase'
    BY <1>3, <2>1 DEF StartRun, NoBase, BaseAt
  <2>3. SidecarOK'
    BY <1>0, <2>1, WereTagsKept DEF SidecarOK
  <2>4. ASSUME NEW o \in DOMAIN overlay' PROVE WereTags(o, overlay'[o].tags)
    <3>1. files[TypedDelta] # Absent /\ overlay' = ReadOverlay(files[TypedDelta])
      BY <1>3, <2>4 DEF StartRun, Nothing
    <3>2. o \in DOMAIN files[TypedDelta].live /\ overlay'[o].tags = files[TypedDelta].live[o]
      BY <3>1, <2>4 DEF ReadOverlay, Whole
    <3>. QED BY <3>1, <3>2 DEF SidecarOK
  <2>. QED BY <1>0, <2>1, <2>2, <2>3, <2>4, WereTagsKept DEF OverlayOK
<1>4. CASE ScanDeletion \/ ScanCreate \/ ScanModification
  <2>1. HistoryOK' /\ NoBase' /\ SidecarOK'
    <3>1. UNCHANGED <<imported, manifest, files, base>> /\ pos' = pos + 1
      BY <1>4 DEF ScanDeletion, ScanCreate, ScanModification, Scanned
    <3>. QED BY <1>0, <3>1, WereTagsKept DEF HistoryOK, NoBase, SidecarOK
  <2>2. pos + 1 \in DOMAIN history /\ Version = history[pos + 1]
    BY <1>4 DEF ScanDeletion, ScanCreate, ScanModification, More, HistoryOK, Version
  <2>3. ASSUME NEW o \in DOMAIN overlay' PROVE WereTags(o, overlay'[o].tags)
    <3>1. CASE ScanCreate \/ (ScanModification /\ UNCHANGED overlay)
      BY <3>1, <2>3 DEF ScanCreate, OverlayOK
    <3>2. CASE ScanDeletion
      <4>1. overlay' = Put(Version.object, [deleted |-> TRUE, tags |-> NoTags])
        BY <3>2 DEF ScanDeletion, RemoveTags
      <4>. QED BY <2>3, <4>1 DEF Put, OverlayOK, WereTags
    <3>3. CASE ScanModification /\ overlay' # overlay
      <4>1. /\ Version.visible
            /\ overlay' = Put(Version.object, [deleted |-> FALSE, tags |-> Tracked(Version.tags)])
        BY <3>3 DEF ScanModification, SetTags, Recorded
      <4>2. WereTags(Version.object, Tracked(Version.tags))
        BY <2>2, <4>1 DEF WereTags
      <4>. QED BY <2>3, <4>1, <4>2 DEF Put, OverlayOK
    <3>. QED BY <1>4, <3>1, <3>2, <3>3
  <2>. QED BY <1>0, <2>1, <2>3, WereTagsKept DEF OverlayOK
<1>5. CASE Persist
  <2>1. HistoryOK' /\ OverlayOK'
    BY <1>0, <1>5, WereTagsKept DEF Persist, memory, HistoryOK, OverlayOK
  <2>2. CASE UNCHANGED files
    BY <1>0, <1>5, <2>1, <2>2, WereTagsKept DEF Persist, memory, NoBase, SidecarOK
  <2>3. CASE files' = [files EXCEPT ![TypedDelta] = WriteDelta]
    <3>1. NoBase' /\ files'[TypedDelta] = WriteDelta
      BY <1>5, <2>3, PathsDiffer DEF Persist, memory, NoBase
    <3>2. \A o \in DOMAIN WriteDelta.live : WereTags(o, WriteDelta.live[o])
      BY DEF WriteDelta, OverlayOK, WereTags
    <3>. QED BY <1>0, <2>1, <3>1, <3>2, WereTagsKept DEF SidecarOK
  <2>. QED BY <1>5, <2>2, <2>3 DEF Persist
<1>6. CASE CommitManifest
  <2>1. HistoryOK' /\ NoBase' /\ UNCHANGED <<files, overlay>>
    BY <1>6 DEF CommitManifest, memory, HistoryOK, NoBase
  <2>. QED BY <1>0, <2>1, WereTagsKept DEF OverlayOK, SidecarOK
<1>7. CASE RewriteBase
  <2>1. HistoryOK' /\ NoBase' /\ UNCHANGED overlay /\ files'[TypedDelta] = files[TypedDelta]
    BY <1>7, PathsDiffer DEF RewriteBase, memory, HistoryOK, NoBase
  <2>. QED BY <1>0, <2>1, WereTagsKept DEF OverlayOK, SidecarOK
<1>8. CASE DropSidecar
  <2>1. HistoryOK' /\ NoBase' /\ overlay' = Nothing /\ files'[TypedDelta] = files[TypedDelta]
    BY <1>8, PathsDiffer DEF DropSidecar, HistoryOK, NoBase, BaseAt
  <2>. QED BY <1>0, <2>1, WereTagsKept DEF OverlayOK, SidecarOK, Nothing
<1>9. CASE EndRun \/ Crash
  <2>1. HistoryOK' /\ NoBase' /\ overlay' = Nothing /\ UNCHANGED files
    BY <1>9 DEF EndRun, Crash, HistoryOK, NoBase
  <2>. QED BY <1>0, <2>1, WereTagsKept DEF OverlayOK, SidecarOK, Nothing
<1>. QED BY <1>1, <1>2, <1>3, <1>4, <1>5, <1>6, <1>7, <1>8, <1>9 DEF Next

\* Also a run that scans diffs again, with a sidecar that is ahead of them,
\* compares with the tags of a version of the object, or with none.
THEOREM PriorsAreTheObjectsTheorem == Spec => []PriorsAreTheObjects
<1>1. PriorsInv => PriorsAreTheObjects
  <2> SUFFICES ASSUME PriorsInv, NEW o \in Objects
               PROVE  WereTags(o, Pre(o))
    BY DEF PriorsAreTheObjects, WereTags
  <2>1. o \notin DOMAIN base
    BY DEF PriorsInv, NoBase, Nothing
  <2>. QED BY <2>1 DEF Pre, PriorsInv, OverlayOK, WereTags
<1>. QED BY <1>1, PriorsInit, PriorsStep, PTL DEF Spec

-----------------------------------------------------------------------------
(* No event without a change.                                              *)

\* An event is what the classifier makes of the tags it is reported with.
EventsAreOfVersions ==
  last.event # NoEvent =>
    \E i \in DOMAIN history :
      /\ last.new = history[i].tags
      /\ last.event = Classify(last.prior, last.new, history[i].order)

\* Only the scan of a modified version compares.
LEMMA EventsStep ==
  ASSUME HistoryOK, EventsAreOfVersions, [Next]_vars PROVE EventsAreOfVersions'
<1>1. CASE ScanModification
  <2>1. /\ history' = history /\ pos + 1 \in DOMAIN history /\ Version = history[pos + 1]
        /\ last' = [object |-> Version.object, prior |-> Pre(Version.object),
                    new |-> Version.tags, event |-> Event]
    BY <1>1 DEF ScanModification, Scanned, More, Version, HistoryOK
  <2>2. last'.event = Classify(last'.prior, last'.new, Version.order) /\ last'.new = Version.tags
    BY <2>1 DEF Event
  <2>. QED BY <2>1, <2>2 DEF EventsAreOfVersions
<1>2. CASE ~ScanModification
  <2>1. history' = history /\ (last' = last \/ last' = NoComparison)
    BY <1>2 DEF Next, vars, Import, StartRun, ScanDeletion, ScanCreate, Scanned, Persist,
                CommitManifest, RewriteBase, DropSidecar, EndRun, Crash
  <2>. QED BY <2>1 DEF EventsAreOfVersions, NoComparison
<1>. QED BY <1>1, <1>2

\* A title that belongs to one language gives that one, whichever order is read.
LEMMA OneLanguage ==
  ASSUME NEW l, NEW order
  PROVE  (CHOOSE x \in {l} : \A m \in {l} : IF order = "up" THEN Rank[m] <= Rank[x] ELSE Rank[x] <= Rank[m])
       = (CHOOSE x \in {l} : \A m \in {l} : IF "up" = "up" THEN Rank[m] <= Rank[x] ELSE Rank[x] <= Rank[m])
OBVIOUS

LEMMA SameTagsSameLanguage ==
  ASSUME NEW new, NEW order, NEW title \in Titles(new), TitlesAreOwn(new)
  PROVE  LastLang(new, title, order) = LastLang(Tracked(new), title, "up")
<1> DEFINE Langs(tags) == {t.lang : t \in {u \in tags : IsWikiLang(u) /\ u.value = title}}
<1>1. PICK w \in new : IsWikiLang(w) /\ w.value = title
  BY DEF Titles
<1>2. Langs(new) = {w.lang}
  BY <1>1 DEF TitlesAreOwn
<1>3. {u \in Tracked(new) : IsWikiLang(u) /\ u.value = title}
        = {u \in new : IsWikiLang(u) /\ u.value = title}
  BY DEF Tracked
<1>4. Langs(Tracked(new)) = {w.lang}
  BY <1>2, <1>3
<1> HIDE DEF Langs
<1>5. LastLang(new, title, order)
        = CHOOSE x \in Langs(new) : \A m \in Langs(new) :
            IF order = "up" THEN Rank[m] <= Rank[x] ELSE Rank[x] <= Rank[m]
  BY DEF LastLang, Langs
<1>6. LastLang(Tracked(new), title, "up")
        = CHOOSE x \in Langs(Tracked(new)) : \A m \in Langs(Tracked(new)) :
            IF "up" = "up" THEN Rank[m] <= Rank[x] ELSE Rank[x] <= Rank[m]
  BY DEF LastLang, Langs
<1>. QED BY <1>2, <1>4, <1>5, <1>6, OneLanguage

\* Tags compared with what is tracked of themselves are no event.
LEMMA SameTagsNoEvent ==
  ASSUME NEW new, NEW order, TitlesAreOwn(new),
         \A t, u \in new : t.family = u.family /\ t.lang = u.lang => t = u
  PROVE  Classify(Tracked(new), new, order) = NoEvent
<1> DEFINE prev == Tracked(new)
<1>1. prev \subseteq new /\ \A t \in new : IsNameLang(t) \/ IsWikiLang(t) => t \in prev
  BY DEF Tracked
<1>2. Titles(prev) = Titles(new)
  BY <1>1 DEF Titles
<1>3. Swapped(prev, new, order) = {}
  BY <1>2, SameTagsSameLanguage DEF Swapped
<1>4. Removed(prev, new) = {}
  BY <1>1 DEF Removed, NameLangs
<1>5. ~NameLost(prev, new)
  <2> SUFFICES ASSUME NEW old \in ValuesOf(prev, "name"), NEW name \in NewName(new)
               PROVE  old = name
    BY DEF NameLost
  <2>. QED BY <1>1 DEF ValuesOf, NewName, IsBare
<1>6. Copied(prev, new) = {}
  BY <1>1 DEF Copied
<1>7. ~NameDeleted(prev, new)
  BY <1>1 DEF NameDeleted, ValuesOf
<1>. QED BY <1>3, <1>4, <1>5, <1>6, <1>7 DEF Classify

\* An object whose tracked tags did not change gives no event, however the history is
\* cut into runs and whatever crashes, if no title belongs to two languages.
THEOREM NoEventWithoutChangeTheorem == Spec => []NoEventWithoutChange
<1>1. Init => EventsAreOfVersions
  BY DEF Init, NoComparison, EventsAreOfVersions
<1>2. PriorsInv /\ EventsAreOfVersions => NoEventWithoutChange
  <2> SUFFICES ASSUME PriorsInv, EventsAreOfVersions, last.event # NoEvent,
                      TitlesAreOwn(last.new), last.prior = Tracked(last.new)
               PROVE  FALSE
    BY DEF NoEventWithoutChange
  <2>1. PICK i \in DOMAIN history :
          last.new = history[i].tags /\ last.event = Classify(last.prior, last.new, history[i].order)
    BY DEF EventsAreOfVersions
  <2>2. \A t, u \in last.new : t.family = u.family /\ t.lang = u.lang => t = u
    BY <2>1, OneValuePerKey DEF PriorsInv, HistoryOK
  <2>. QED BY <2>1, <2>2, SameTagsNoEvent
<1>3. PriorsInv /\ EventsAreOfVersions /\ [Next]_vars => EventsAreOfVersions'
  BY EventsStep DEF PriorsInv
<1>. QED BY <1>1, <1>2, <1>3, PriorsInit, PriorsStep, PTL DEF Spec

-----------------------------------------------------------------------------
(* Cutting the stream into runs does not show.                             *)

\* What one version makes of what is known of an object.
KnownNext(o, known, n) ==
  LET v == history[n]
  IN  IF v.object # o \/ (v.visible /\ v.create) THEN known
      ELSE IF ~v.visible THEN NoTags
      ELSE IF Classify(known, v.tags, v.order) = NoEvent THEN known
      ELSE Tracked(v.tags)

\* f is what is known of an object up to version m.
KnownUpTo(f, o, m) ==
  f = [n \in imported..m |-> IF n = imported THEN NoTags ELSE KnownNext(o, f[n - 1], n)]

LEMMA KnownExists ==
  ASSUME imported \in Nat, NEW o, NEW m \in Nat PROVE \E f : KnownUpTo(f, o, imported + m)
<1> DEFINE S == {k \in Nat : \E f : KnownUpTo(f, o, imported + k)}
<1>1. 0 \in S
  <2> DEFINE f == [n \in imported..imported |-> NoTags]
  <2>1. KnownUpTo(f, o, imported + 0)
    BY DEF KnownUpTo
  <2>. QED BY <2>1
<1>2. ASSUME NEW k \in S PROVE k + 1 \in S
  <2>1. PICK f : KnownUpTo(f, o, imported + k)
    OBVIOUS
  <2> k \in Nat
    OBVIOUS
  <2> DEFINE next(n, known) == IF n = imported THEN NoTags ELSE KnownNext(o, known, n)
             g == [n \in imported..(imported + (k + 1)) |-> next(n, f[n - 1])]
  <2> HIDE DEF next
  <2>2. f = [n \in imported..(imported + k) |-> next(n, f[n - 1])]
    BY <2>1 DEF KnownUpTo, next
  <2>3. \A n \in imported..(imported + k) : g[n] = f[n]
    BY <2>2
  <2>4. \A n \in imported..(imported + (k + 1)) : next(n, g[n - 1]) = next(n, f[n - 1])
    <3> SUFFICES ASSUME NEW n \in imported..(imported + (k + 1))
                 PROVE  next(n, g[n - 1]) = next(n, f[n - 1])
      OBVIOUS
    <3>1. CASE n = imported
      BY <3>1 DEF next
    <3>2. CASE n # imported
      <4>1. n - 1 \in imported..(imported + k)
        BY <3>2
      <4>. QED BY <2>3, <4>1
    <3>. QED BY <3>1, <3>2
  <2>5. g = [n \in imported..(imported + (k + 1)) |-> next(n, g[n - 1])]
    BY <2>4
  <2>6. KnownUpTo(g, o, imported + (k + 1))
    BY <2>5 DEF KnownUpTo, next
  <2>. QED BY <2>6
<1>. QED BY <1>1, <1>2, NaturalsBySteps

LEMMA KnownIsThat ==
  ASSUME NEW o, \E f : KnownUpTo(f, o, Len(history))
  PROVE  KnownUpTo(KnownAfter(o), o, Len(history))
<1>1. KnownAfter(o) = CHOOSE f : KnownUpTo(f, o, Len(history))
  BY DEF KnownUpTo, KnownAfter, KnownNext
<1>. QED BY <1>1

\* The reference begins with nothing and takes version after version.
LEMMA KnownSteps ==
  ASSUME HistoryOK, NEW o
  PROVE  /\ KnownAfter(o)[imported] = NoTags
         /\ \A n \in (imported + 1)..Len(history) :
              KnownAfter(o)[n] = KnownNext(o, KnownAfter(o)[n - 1], n)
<1>1. imported \in Nat /\ Len(history) \in Nat /\ imported <= Len(history)
  BY StreamsAreHistories DEF HistoryOK
<1>2. PICK m \in Nat : imported + m = Len(history)
  <2>1. Len(history) - imported \in Nat /\ imported + (Len(history) - imported) = Len(history)
    BY <1>1
  <2>. QED BY <2>1
<1>3. \E f : KnownUpTo(f, o, imported + m)
  BY <1>1, KnownExists
<1>4. \E f : KnownUpTo(f, o, Len(history))
  BY <1>2, <1>3
<1>5. KnownUpTo(KnownAfter(o), o, Len(history))
  BY <1>4, KnownIsThat
<1>. QED BY <1>1, <1>5 DEF KnownUpTo

LEMMA KnownStays ==
  ASSUME history' = history, imported' = imported, NEW o
  PROVE  KnownAfter(o)' = KnownAfter(o)
BY DEF KnownAfter, NoTags, Tracked, Classify

\* What a run that starts now would load for an object.
Loaded(o) ==
  IF files[TypedDelta] # Absent /\ o \in Whole(files[TypedDelta])
  THEN files[TypedDelta].live[o] ELSE NoTags

\* A deletion is an entry and a tombstone.
OverlayShape ==
  /\ DOMAIN overlay \subseteq Objects /\ IsFiniteSet(DOMAIN overlay)
  /\ deleted \subseteq DOMAIN overlay
  /\ \A o \in DOMAIN overlay : overlay[o].deleted => o \in deleted

SidecarShape ==
  files[TypedDelta] # Absent =>
    LET delta == files[TypedDelta]
    IN  DOMAIN delta.live \subseteq Objects /\ IsFiniteSet(DOMAIN delta.live)

PlacesOK ==
  phase # "none" =>
    /\ manifest \in imported..Len(history) /\ deltaAt \in imported..Len(history)
    /\ pos \in imported..Len(history)

\* A run never forgets an entry it loaded, so it never has nothing to write over a
\* sidecar that holds something.
OverlayKept ==
  phase = "scan" /\ files[TypedDelta] # Absent => Whole(files[TypedDelta]) \subseteq DOMAIN overlay

\* The sidecar is what is known after the version it was written at.
SidecarInStep ==
  inStep /\ phase # "none" =>
    \A o \in Objects : Garbled(o) \/ Loaded(o) = KnownAfter(o)[deltaAt]

StreamInv ==
  OverlayShape /\ SidecarShape /\ PlacesOK /\ OverlayKept /\ SidecarInStep /\ PriorsFollowTheStream

LEMMA StreamInit == Init => StreamInv
<1> SUFFICES ASSUME Init PROVE StreamInv
  OBVIOUS
<1>1. files[TypedDelta] = Absent
  BY PathsDiffer DEF Init
<1>2. OverlayShape
  BY FS_EmptySet DEF Init, OverlayShape, Nothing
<1>. QED BY <1>1, <1>2 DEF Init, StreamInv, SidecarShape, PlacesOK, OverlayKept, SidecarInStep,
       PriorsFollowTheStream

\* With no base, what the scan compares with is in the overlay.
LEMMA PreIsOverlay ==
  ASSUME NoBase, OverlayShape, NEW o
  PROVE  Pre(o) = IF o \in DOMAIN overlay /\ ~overlay[o].deleted THEN overlay[o].tags ELSE NoTags
BY DEF NoBase, OverlayShape, Pre, Nothing

\* What is written is read back, of objects before which no value is too long.
LEMMA WrittenIsLoaded ==
  ASSUME PriorsInv, OverlayShape, NEW o \in Objects, ~Garbled(o), files'[TypedDelta] = WriteDelta,
         WriteDelta # Absent
  PROVE  Loaded(o)' = Pre(o)
<1>1. ASSUME NEW p \in DOMAIN WriteDelta.live, p <= o PROVE ~HoldsLong(WriteDelta.live[p])
  <2> SUFFICES ASSUME HoldsLong(WriteDelta.live[p]) PROVE FALSE
    OBVIOUS
  <2>1. p \in DOMAIN overlay /\ WriteDelta.live[p] \in {NoTags, overlay[p].tags}
    BY DEF WriteDelta
  <2>2. WriteDelta.live[p] # NoTags
    BY DEF HoldsLong, NoTags
  <2>3. PICK i \in DOMAIN history : history[i].object = p /\ WriteDelta.live[p] = Tracked(history[i].tags)
    BY <2>1, <2>2 DEF PriorsInv, OverlayOK, WereTags
  <2>4. HoldsLong(history[i].tags)
    BY <2>3 DEF HoldsLong, Tracked
  <2>. QED BY <1>1, <2>3, <2>4 DEF Garbled
<1>2. o \in Whole(WriteDelta) <=> o \in DOMAIN overlay
  BY <1>1 DEF Whole, WriteDelta
<1>3. o \in DOMAIN overlay =>
        WriteDelta.live[o] = IF overlay[o].deleted THEN NoTags ELSE overlay[o].tags
  BY DEF WriteDelta
<1>4. Loaded(o)' = IF o \in Whole(WriteDelta) THEN WriteDelta.live[o] ELSE NoTags
  BY DEF Loaded, Whole, HoldsLong, IsLong, NoTags
<1>. QED BY <1>2, <1>3, <1>4, PreIsOverlay DEF PriorsInv

\* A sidecar is never taken for a missing one.
LEMMA WrittenIsAFile ==
  ASSUME PriorsInv, OverlayShape PROVE WriteDelta # Absent
<1>1. ASSUME NEW o \in DOMAIN overlay PROVE overlay[o].tags \in SUBSET Tags
  <2>1. ASSUME NEW i \in DOMAIN history PROVE history[i].tags \in SUBSET Tags
    <3>1. history[i] \in Versions
      BY DEF PriorsInv, HistoryOK
    <3>. QED BY <3>1 DEF Versions
  <2>. QED BY <2>1 DEF PriorsInv, OverlayOK, WereTags, NoTags, Tracked
<1>2. WriteDelta.live \in [DOMAIN overlay -> SUBSET Tags] /\ WriteDelta.dead \in SUBSET Objects
  BY <1>1 DEF WriteDelta, OverlayShape, NoTags
<1>3. WriteDelta \in Sidecars
  BY <1>2 DEF WriteDelta, Sidecars, OverlayShape
<1>. QED BY <1>3, AbsentIsNoFile

LEMMA NothingChanged ==
  ASSUME OverlayShape, ChangedCount = 0 PROVE DOMAIN overlay = {}
<1> DEFINE Live == {o \in DOMAIN overlay : ~overlay[o].deleted}
<1>1. IsFiniteSet(Live) /\ IsFiniteSet(deleted)
  BY FS_Subset DEF OverlayShape
<1>2. Cardinality(Live) \in Nat /\ Cardinality(deleted) \in Nat
  BY <1>1, FS_CardinalityType
<1> HIDE DEF Live
<1>3. Cardinality(Live) + Cardinality(deleted) = 0
  BY DEF ChangedCount, Live
<1>4. Live = {} /\ deleted = {}
  BY <1>1, <1>2, <1>3, FS_EmptySet
<1>. QED BY <1>4 DEF Live, OverlayShape

\* A version of another object, or a creation, leaves what is known; a deletion ends it;
\* a modification replaces it if it is an event.
LEMMA ScanFollows ==
  ASSUME PriorsInv, StreamInv, inStep, NEW o \in Objects, ~Garbled(o),
         ScanDeletion \/ ScanCreate \/ ScanModification
  PROVE  Pre(o)' = KnownAfter(o)[pos + 1]
<1> DEFINE known == KnownAfter(o)[pos]
           v == history[pos + 1]
<1>1. More /\ base' = base /\ NoBase /\ phase = "scan"
  BY DEF ScanDeletion, ScanCreate, ScanModification, Scanned, More, PriorsInv
<1>2. Pre(o) = known
  BY <1>1 DEF StreamInv, PriorsFollowTheStream
<1>3. pos + 1 \in (imported + 1)..Len(history) /\ (pos + 1) - 1 = pos
  <2>1. pos \in imported..Len(history) /\ pos < Len(history)
    BY <1>1 DEF StreamInv, PlacesOK, More
  <2>2. imported \in Nat /\ Len(history) \in Nat
    BY DEF PriorsInv, HistoryOK
  <2>. QED BY <2>1, <2>2
<1>4. KnownAfter(o)[pos + 1] = KnownNext(o, known, pos + 1)
  BY <1>3, KnownSteps DEF PriorsInv
<1>5. CASE ScanCreate
  <2>1. v.visible /\ v.create /\ UNCHANGED <<base, overlay, deleted>>
    BY <1>1, <1>5 DEF ScanCreate, Version
  <2>. QED BY <1>2, <1>4, <2>1 DEF KnownNext, Pre
<1>6. CASE ScanDeletion
  <2>1. ~v.visible /\ overlay' = Put(v.object, [deleted |-> TRUE, tags |-> NoTags])
                   /\ deleted' = deleted \cup {v.object}
    BY <1>6 DEF ScanDeletion, RemoveTags, Version
  <2>2. CASE v.object = o
    BY <1>4, <2>1, <2>2 DEF KnownNext, Pre, Put
  <2>3. CASE v.object # o
    BY <1>1, <1>2, <1>4, <2>1, <2>3 DEF KnownNext, Pre, Put
  <2>. QED BY <2>2, <2>3
<1>7. CASE ScanModification
  <2>1. v.visible /\ ~v.create
    BY <1>7 DEF ScanModification, Version
  <2>2. CASE Event = NoEvent
    <3>1. UNCHANGED <<base, overlay, deleted>>
      BY <1>1, <1>7, <2>2 DEF ScanModification
    <3>2. Pre(o)' = known
      BY <1>2, <3>1 DEF Pre
    <3>3. v.object = o => Classify(known, v.tags, v.order) = NoEvent
      BY <1>2, <2>2 DEF Event, Version
    <3>. QED BY <1>4, <2>1, <3>2, <3>3 DEF KnownNext
  <2>3. CASE Event # NoEvent
    <3>1. /\ overlay' = Put(v.object, [deleted |-> FALSE, tags |-> Tracked(v.tags)])
          /\ deleted' = deleted \ {v.object}
      BY <1>7, <2>3 DEF ScanModification, SetTags, Recorded, Version
    <3>2. CASE v.object = o
      <4>1. Pre(o)' = Tracked(v.tags)
        BY <3>1, <3>2 DEF Pre, Put
      <4>2. Classify(known, v.tags, v.order) # NoEvent
        BY <1>2, <2>3, <3>2 DEF Event, Version
      <4>. QED BY <1>4, <2>1, <3>2, <4>1, <4>2 DEF KnownNext
    <3>3. CASE v.object # o
      <4>1. Pre(o)' = Pre(o)
        BY <1>1, <3>1, <3>3 DEF Pre, Put
      <4>. QED BY <1>2, <1>4, <3>3, <4>1 DEF KnownNext
    <3>. QED BY <3>2, <3>3
  <2>. QED BY <2>2, <2>3
<1>. QED BY <1>5, <1>6, <1>7

\* The steps that leave the files, the overlay and the places alone.
LEMMA StreamKept ==
  ASSUME PriorsInv, StreamInv, UNCHANGED <<history, imported, inStep>>,
         UNCHANGED <<manifest, deltaAt, pos>> \/ (CommitManifest /\ phase # "none"),
         files'[TypedDelta] = files[TypedDelta],
         UNCHANGED <<overlay, deleted>> \/ (overlay' = Nothing /\ deleted' = {}),
         UNCHANGED <<phase, memory>> \/ phase' # "scan", phase = "none" => phase' = "none"
  PROVE  StreamInv'
<1> USE DEF StreamInv
<1>1. OverlayShape'
  BY FS_EmptySet DEF OverlayShape, Nothing
<1>2. SidecarShape'
  BY DEF SidecarShape
<1>3. PlacesOK'
  BY DEF PlacesOK, CommitManifest
<1>4. OverlayKept'
  BY DEF OverlayKept, memory, Whole, HoldsLong, IsLong
<1>5. SidecarInStep'
  <2>1. deltaAt' = deltaAt /\ \A o : Loaded(o)' = Loaded(o) /\ KnownAfter(o)' = KnownAfter(o)
    BY KnownStays DEF Loaded, Whole, HoldsLong, IsLong, NoTags, CommitManifest
  <2>. QED BY <2>1 DEF SidecarInStep, Garbled, HoldsLong, IsLong
<1>6. PriorsFollowTheStream'
  <2>1. CASE UNCHANGED <<phase, memory>>
    <3>1. pos' = pos /\ \A o : Pre(o)' = Pre(o) /\ KnownAfter(o)' = KnownAfter(o)
      BY <2>1, KnownStays DEF memory, Pre, NoTags, CommitManifest
    <3>. QED BY <2>1, <3>1 DEF PriorsFollowTheStream, Garbled, HoldsLong, IsLong
  <2>2. CASE phase' # "scan"
    BY <2>2 DEF PriorsFollowTheStream
  <2>. QED BY <2>1, <2>2
<1>. QED BY <1>1, <1>2, <1>3, <1>4, <1>5, <1>6

LEMMA StreamStep == ASSUME PriorsInv, StreamInv, [Next]_vars PROVE StreamInv'
<1> USE DEF StreamInv
<1>0. /\ \A o : KnownAfter(o)' = KnownAfter(o) /\ Garbled(o)' = Garbled(o)
      /\ Len(history) \in Nat /\ imported \in 0..Len(history) /\ UNCHANGED <<history, imported>>
  <2>1. UNCHANGED <<history, imported>>
    BY DEF Next, vars, Import, StartRun, ScanDeletion, ScanCreate, ScanModification, Scanned,
           Persist, CommitManifest, RewriteBase, DropSidecar, EndRun, Crash
  <2>2. Len(history) \in Nat /\ imported \in 0..Len(history)
    BY StreamsAreHistories DEF PriorsInv, HistoryOK
  <2>. QED BY <2>1, <2>2, KnownStays DEF Garbled, HoldsLong, IsLong
<1>1. CASE UNCHANGED vars
  <2>1. /\ UNCHANGED <<history, imported, inStep, manifest, deltaAt, pos, overlay, deleted, phase, memory>>
        /\ files' = files
    BY <1>1 DEF vars, memory
  <2>. QED BY <2>1, StreamKept
<1>2. CASE Import
  <2>1. /\ files'[TypedDelta] = Absent /\ UNCHANGED <<overlay, deleted>>
        /\ manifest' = imported /\ pos' = imported /\ deltaAt' = imported /\ phase' = "idle"
    BY <1>2, PathsDiffer DEF Import, memory, PriorsInv, NoBase
  <2>2. OverlayShape' /\ SidecarShape' /\ PlacesOK' /\ OverlayKept' /\ PriorsFollowTheStream'
    BY <1>0, <2>1 DEF OverlayShape, SidecarShape, PlacesOK, OverlayKept, PriorsFollowTheStream
  <2>3. \A o : Loaded(o)' = NoTags /\ KnownAfter(o)[imported] = NoTags
    BY <2>1, KnownSteps DEF Loaded, NoTags, PriorsInv
  <2>. QED BY <1>0, <2>1, <2>2, <2>3 DEF SidecarInStep
<1>3. CASE StartRun
  <2>1. /\ UNCHANGED <<files, manifest, deltaAt>> /\ pos' = manifest /\ phase' = "scan"
        /\ phase = "idle" /\ inStep' = (inStep /\ deltaAt = manifest)
    BY <1>3 DEF StartRun
  <2>2. /\ files[TypedDelta] = Absent => overlay' = Nothing /\ deleted' = {}
        /\ files[TypedDelta] # Absent => /\ overlay' = ReadOverlay(files[TypedDelta])
                                         /\ deleted' = ReadDeleted(files[TypedDelta])
    BY <1>3 DEF StartRun
  <2>3. OverlayShape'
    <3>1. CASE files[TypedDelta] = Absent
      BY <2>2, <3>1, FS_EmptySet DEF OverlayShape, Nothing
    <3>2. CASE files[TypedDelta] # Absent
      <4>1. Whole(files[TypedDelta]) \subseteq DOMAIN files[TypedDelta].live
        BY DEF Whole
      <4>2. IsFiniteSet(Whole(files[TypedDelta]))
        BY <3>2, <4>1, FS_Subset DEF SidecarShape
      <4>. QED BY <2>2, <3>2, <4>1, <4>2 DEF OverlayShape, SidecarShape, ReadOverlay, ReadDeleted
    <3>. QED BY <3>1, <3>2
  <2>4. SidecarShape' /\ PlacesOK'
    BY <1>0, <2>1 DEF SidecarShape, PlacesOK
  <2>5. OverlayKept'
    BY <2>1, <2>2 DEF OverlayKept, ReadOverlay, Whole, HoldsLong, IsLong
  <2>6. \A o : Loaded(o)' = Loaded(o)
    BY <2>1 DEF Loaded, Whole, HoldsLong, IsLong, NoTags
  <2>7. NoBase'
    BY PriorsStep DEF PriorsInv
  <2>8. \A o : Pre(o)' = Loaded(o)
    <3>1. CASE files[TypedDelta] = Absent
      BY <2>2, <2>7, <3>1 DEF Pre, Loaded, Nothing, NoBase, NoTags
    <3>2. CASE files[TypedDelta] # Absent
      BY <2>2, <2>7, <3>2 DEF Pre, Loaded, Nothing, NoBase, NoTags, ReadOverlay, ReadDeleted
    <3>. QED BY <3>1, <3>2
  <2>9. SidecarInStep' /\ PriorsFollowTheStream'
    BY <1>0, <2>1, <2>6, <2>8 DEF SidecarInStep, PriorsFollowTheStream
  <2>. QED BY <2>3, <2>4, <2>5, <2>9
<1>4. CASE ScanDeletion \/ ScanCreate \/ ScanModification
  <2>1. /\ UNCHANGED <<files, manifest, deltaAt, phase, inStep>> /\ pos' = pos + 1 /\ phase = "scan"
        /\ pos < Len(history) /\ Version = history[pos + 1]
    BY <1>4 DEF ScanDeletion, ScanCreate, ScanModification, Scanned, More, Version
  <2>2. PlacesOK' /\ Version.object \in Objects
    <3>1. pos \in imported..Len(history)
      BY <2>1 DEF PlacesOK
    <3>2. PlacesOK' /\ pos + 1 \in DOMAIN history
      BY <1>0, <2>1, <3>1 DEF PlacesOK, PriorsInv, HistoryOK
    <3>3. history[pos + 1] \in Versions
      BY <3>2 DEF PriorsInv, HistoryOK
    <3>. QED BY <2>1, <3>2, <3>3 DEF Versions
  <2>3. /\ DOMAIN overlay \subseteq DOMAIN overlay'
        /\ DOMAIN overlay' \subseteq DOMAIN overlay \cup {Version.object}
        /\ deleted' \subseteq DOMAIN overlay'
        /\ \A o \in DOMAIN overlay' : overlay'[o].deleted => o \in deleted'
    BY <1>4 DEF ScanDeletion, ScanCreate, ScanModification, RemoveTags, SetTags, Put, OverlayShape
  <2>4. OverlayShape'
    <3>1. IsFiniteSet(DOMAIN overlay \cup {Version.object})
      BY FS_AddElement DEF OverlayShape
    <3>. QED BY <2>2, <2>3, <3>1, FS_Subset DEF OverlayShape
  <2>5. SidecarShape' /\ OverlayKept'
    BY <2>1, <2>3 DEF SidecarShape, OverlayKept, Whole, HoldsLong, IsLong
  <2>6. SidecarInStep'
    BY <1>0, <2>1 DEF SidecarInStep, Loaded, Whole, HoldsLong, IsLong, NoTags
  <2>7. PriorsFollowTheStream'
    BY <1>0, <1>4, <2>1, ScanFollows DEF PriorsFollowTheStream
  <2>. QED BY <2>2, <2>4, <2>5, <2>6, <2>7
<1>5. CASE Persist
  <2>1. /\ UNCHANGED <<manifest, pos, overlay, deleted, base, inStep>> /\ deltaAt' = pos
        /\ phase = "scan" /\ phase' = "persisted"
    BY <1>5 DEF Persist, memory
  <2>2. OverlayShape' /\ PlacesOK' /\ OverlayKept' /\ PriorsFollowTheStream'
    BY <1>0, <2>1 DEF OverlayShape, PlacesOK, OverlayKept, PriorsFollowTheStream
  <2>3. ASSUME NEW o \in Objects, inStep, ~Garbled(o) PROVE Pre(o) = KnownAfter(o)[pos]
    BY <2>1, <2>3 DEF PriorsFollowTheStream
  <2>4. CASE ChangedCount = 0
    <3>1. files' = files
      BY <1>5, <2>4 DEF Persist
    <3>2. \A o : Pre(o) = NoTags
      BY <2>4, NothingChanged, PreIsOverlay DEF PriorsInv
    <3>3. \A o : Loaded(o)' = NoTags
      BY <2>1, <2>4, <3>1, NothingChanged DEF OverlayKept, Loaded, Whole, HoldsLong, IsLong, NoTags
    <3>. QED BY <1>0, <2>1, <2>2, <2>3, <3>1, <3>2, <3>3 DEF SidecarShape, SidecarInStep
  <2>5. CASE ChangedCount # 0
    <3>1. files'[TypedDelta] = WriteDelta /\ WriteDelta # Absent
      BY <1>5, <2>5, PathsDiffer, WrittenIsAFile DEF Persist, PriorsInv, NoBase
    <3>2. SidecarShape'
      BY <3>1 DEF SidecarShape, WriteDelta, OverlayShape
    <3>3. \A o \in Objects : ~Garbled(o) => Loaded(o)' = Pre(o)
      BY <3>1, WrittenIsLoaded
    <3>. QED BY <1>0, <2>1, <2>2, <2>3, <3>2, <3>3 DEF SidecarInStep
  <2>. QED BY <2>4, <2>5
<1>6. CASE CommitManifest
  <2>1. /\ UNCHANGED <<history, imported, inStep, files, overlay, deleted, memory>>
        /\ phase # "none" /\ phase' # "scan" /\ phase' # "none"
    BY <1>6 DEF CommitManifest, memory
  <2>. QED BY <1>6, <2>1, StreamKept
<1>7. CASE RewriteBase \/ DropSidecar \/ EndRun \/ Crash
  <2>1. /\ UNCHANGED <<history, imported, inStep, manifest, deltaAt, pos>>
        /\ phase # "none" /\ phase' # "scan" /\ phase' # "none"
        /\ UNCHANGED <<overlay, deleted>> \/ (overlay' = Nothing /\ deleted' = {})
    BY <1>7 DEF RewriteBase, DropSidecar, EndRun, Crash, memory
  <2>2. files'[TypedDelta] = files[TypedDelta]
    BY <1>7, PathsDiffer DEF RewriteBase, DropSidecar, EndRun, Crash, PriorsInv, NoBase
  <2>. QED BY <2>1, <2>2, StreamKept
<1>. QED BY <1>1, <1>2, <1>3, <1>4, <1>5, <1>6, <1>7 DEF Next

\* Runs, crashes and compactions do not show in what the scan compares with, as long as
\* every run began with a sidecar as old as the manifest.
THEOREM PriorsFollowTheStreamTheorem == Spec => []PriorsFollowTheStream
<1>1. StreamInv => PriorsFollowTheStream
  BY DEF StreamInv
<1>2. PriorsInv /\ StreamInv /\ [Next]_vars => StreamInv'
  BY StreamStep
<1>. QED BY <1>1, <1>2, StreamInit, PriorsInit, PriorsStep, PTL DEF Spec
=============================================================================
