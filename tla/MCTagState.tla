----------------------------- MODULE MCTagState -----------------------------
(***************************************************************************)
(* Two objects, the first of which goes through any three of the versions   *)
(* below: names copied, misspelt, shortened, moved to another key, removed; *)
(* articles that change language or share a title; a value too long for     *)
(* its length.                                                              *)
(***************************************************************************)
EXTENDS TagStateProperties

Tag(f, l, v) == [family |-> f, lang |-> l, value |-> v]
Name(v) == Tag("name", "", v)
In(l, v) == Tag("name", l, v)
Article(l, v) == Tag("wikipedia", l, v)

A == <<1, 1, 1>>
B == <<1, 1, 2>>
C == <<2, 2, 2, 2>>
Long == <<1, 1, 1, 1, 1>>
Short == <<1>>

MCTagSets == {
  {},
  {Name(A)},
  {In("xx", A)},
  {Name(A), In("xx", A)},
  {Name(B), In("xx", B)},
  {Name(C), In("xx", C)},
  {Name(Short), In("xx", Short)},
  {Name(C), In("xx", B), Tag("old_name", "", A)},
  {Name(A), In("xx", C), In("yy", B)},
  {Name(C), In("xx", Long)},
  {Article("xx", A), Article("", A)},
  {Article("yy", A)},
  {Article("xx", A), Article("yy", A)} }

MCTags == {Name(Long)} \cup UNION MCTagSets

Version_(o, c, v, t, r) == [object |-> o, create |-> c, visible |-> v, tags |-> t, order |-> r]
Created(o, t) == Version_(o, TRUE, TRUE, t, "up")
Modified(o, t, r) == Version_(o, FALSE, TRUE, t, r)
Removed_(o) == Version_(o, FALSE, FALSE, {}, "up")

MCFirst == {Modified(1, t, "up") : t \in MCTagSets}
             \cup {Modified(1, {Article("xx", A), Article("yy", A)}, "down"), Removed_(1)}
MCSecond == {Modified(2, {Name(A), In("xx", A)}, "up"), Removed_(2)}
MCStart == <<Created(1, {Name(A), In("xx", A)}), Created(2, {Name(C), In("xx", A)})>>
MCStreams ==
  {[imported |-> n, versions |-> MCStart \o v] :
     n \in 1..2, v \in [1..3 -> MCFirst] \cup (MCSecond \X MCFirst \X MCSecond)}
\* Single histories, of which the import has the first version.
MCOf(versions) == {[imported |-> 1, versions |-> <<Created(1, {Name(A), In("xx", A)})>> \o versions]}
MCCopied == MCOf(<<Modified(1, {Name(C), In("xx", C)}, "up")>>)
MCLong == MCOf(<<Modified(1, {Name(Long), In("xx", Long)}, "up"), Modified(1, {Name(A)}, "up")>>)
MCShared == MCOf(<<Modified(1, {Name(A), In("xx", A), Article("xx", A)}, "up"),
                   Modified(1, {Name(A), In("xx", A), Article("xx", A), Article("yy", A)}, "up")>>)
=============================================================================
