------------------------------ MODULE NameTags ------------------------------
(***************************************************************************)
(* The name-language classifier: which tags of an object are tracked, and   *)
(* which event, if any, an edit of them is. A tag is [family, lang, value], *)
(* lang "" for a bare key; a value is a sequence of characters.             *)
(***************************************************************************)
EXTENDS Integers, Sequences, FiniteSets

CONSTANT NoEvent

NameFamilies == {"name", "alt_name", "old_name", "official_name", "short_name", "loc_name"}

IsNameLang(t) == t.family \in NameFamilies /\ t.lang # ""
IsWikiLang(t) == t.family = "wikipedia" /\ t.lang # ""
IsBare(t, family) == t.family = family /\ t.lang = ""

HasNameLang(tags) == \E t \in tags : IsNameLang(t)
HasWikiLang(tags) == \E t \in tags : IsWikiLang(t)

\* The tags worth keeping: every language variant, and the bare key of a
\* family that has one.
Tracked(tags) ==
  {t \in tags : \/ IsNameLang(t) \/ IsWikiLang(t)
                \/ IsBare(t, "name") /\ HasNameLang(tags)
                \/ IsBare(t, "wikipedia") /\ HasWikiLang(tags)}

NameLangs(tags) == {t.lang : t \in {u \in tags : IsNameLang(u)}}
ValuesOf(tags, family) == {t.value : t \in {u \in tags : IsBare(u, family)}}

-----------------------------------------------------------------------------
(* levenshtein_bounded *)

TypoLimit == 2
Least(a, b) == IF a < b THEN a ELSE b

\* One row of the distance table from the row above it.
NextRow(prev, a, b, i) ==
  LET Cell[j \in 0..Len(b)] ==
        IF j = 0 THEN i
        ELSE Least(Least(prev[j] + 1, Cell[j - 1] + 1),
                   prev[j - 1] + (IF a[i] = b[j] THEN 0 ELSE 1))
  IN  Cell

\* The last cell of the table: a row above the limit everywhere ends the loop.
TableDistance(long, short) ==
  LET Above == [j \in 0..Len(short) |-> TypoLimit + 1]
      Row[i \in 0..Len(long)] ==
        IF i = 0 THEN [j \in 0..Len(short) |-> j]
        ELSE LET row == NextRow(Row[i - 1], long, short, i)
             IN  IF \E j \in 0..Len(short) : row[j] <= TypoLimit THEN row ELSE Above
  IN  Row[Len(long)][Len(short)]

\* Mutant: lengths that differ by just the limit are pruned too.
DistancePrunedEarly(long, short) ==
  IF Len(long) - Len(short) >= TypoLimit THEN TypoLimit + 1 ELSE TableDistance(long, short)

\* Distance within the limit: no table for an empty string, nor for lengths
\* that differ by more than the limit.
Distance(long, short) ==
  IF short = <<>> THEN Least(Len(long), TypoLimit + 1)
  ELSE IF Len(long) - Len(short) > TypoLimit THEN TypoLimit + 1
  ELSE TableDistance(long, short)

IsTypoFix(a, b) ==
  IF Len(a) < Len(b) THEN Distance(b, a) <= TypoLimit ELSE Distance(a, b) <= TypoLimit

-----------------------------------------------------------------------------
(* classify_name_language. The tags found before are sorted; those of the new *)
(* version come in the order of the file, "up" or "down".                   *)

Rank == [xx |-> 1, yy |-> 2]
\* The language a map keyed by value holds for a title: the last one read.
LastLang(tags, title, order) ==
  LET langs == {t.lang : t \in {u \in tags : IsWikiLang(u) /\ u.value = title}}
  IN  CHOOSE l \in langs : \A m \in langs :
        IF order = "up" THEN Rank[m] <= Rank[l] ELSE Rank[l] <= Rank[m]
Titles(tags) == {t.value : t \in {u \in tags : IsWikiLang(u)}}

Swapped(prev, new, order) ==
  {LastLang(prev, title, "up") : title \in
     {x \in Titles(prev) \cap Titles(new) : LastLang(new, x, order) # LastLang(prev, x, "up")}}
Removed(prev, new) == NameLangs(prev) \ NameLangs(new)

NewName(new) == IF HasNameLang(new) THEN ValuesOf(new, "name") ELSE {}

\* The bare name changed, more than by a typo, and nothing keeps the old one.
NameLost(prev, new) ==
  \E old \in ValuesOf(prev, "name"), name \in NewName(new) :
    /\ old # name
    /\ ~\E t \in new : IsNameLang(t) /\ t.value = old
    /\ old \notin ValuesOf(new, "old_name")
    /\ ~IsTypoFix(old, name)

\* Mutant: copies that were there before count too.
CopiedAgain(prev, new) ==
  {t.lang : t \in {u \in new : IsNameLang(u) /\ u.value \in NewName(new)}}

\* Language variants that became copies of the bare name.
Copied(prev, new) ==
  {t.lang : t \in {u \in new : IsNameLang(u) /\ u.value \in NewName(new) /\ u \notin prev}}

NameDeleted(prev, new) == ValuesOf(prev, "name") # {} /\ ValuesOf(new, "name") = {}

\* The first that applies. The language it is counted under is left out.
Classify(prev, new, order) ==
  IF Swapped(prev, new, order) # {} THEN "wikipedia_swap"
  ELSE IF Removed(prev, new) # {} THEN "name_lang_removed"
  ELSE IF NameLost(prev, new) THEN "name_changed"
  ELSE IF Copied(prev, new) # {} THEN "name_lang_overwrite"
  ELSE IF NameDeleted(prev, new) /\ NameLangs(new) # {} THEN "name_deleted"
  ELSE NoEvent
=============================================================================
