--------------------------- MODULE MCUserHistory ---------------------------
(***************************************************************************)
(* Two users, two or three batches, days of three minutes and windows of    *)
(* two: edits that share a minute, an hour or a day across the batches, for *)
(* every filter just enough and just not enough of them; and imports in     *)
(* which one user leads in every aspect.                                    *)
(***************************************************************************)
EXTENDS UserHistoryProperties

\* What a version can be: by a letter.
Kinds ==
  [A |-> [kind |-> "node", action |-> "modify", cells |-> {1}, tags |-> {1}, lang |-> NoLang, move |-> 1],
   B |-> [kind |-> "way", action |-> "modify", cells |-> {1, 2}, tags |-> {1, 2}, lang |-> 1, move |-> 0],
   C |-> [kind |-> "node", action |-> "modify", cells |-> {2}, tags |-> {}, lang |-> NoLang, move |-> 3],
   D |-> [kind |-> "node", action |-> "create", cells |-> {3}, tags |-> {1, 2}, lang |-> NoLang, move |-> 0],
   E |-> [kind |-> "relation", action |-> "delete", cells |-> {}, tags |-> {}, lang |-> NoLang, move |-> 0],
   F |-> [kind |-> "way", action |-> "create", cells |-> {1}, tags |-> {}, lang |-> NoLang, move |-> 0],
   G |-> [kind |-> "relation", action |-> "create", cells |-> {}, tags |-> {}, lang |-> NoLang, move |-> 0]]

V(k, u, m) == [uid |-> u, minute |-> m] @@ Kinds[k]

MCImported == {<<>>,
  <<V("D", 1, 0), V("F", 2, 0), V("A", 1, 1)>>,
  <<V("A", 1, 0), V("D", 2, 1), V("D", 2, 3)>>}

MCFirst == {<<>>,
  <<V("A", 1, 1), V("B", 1, 2)>>, <<V("A", 1, 1), V("A", 1, 1)>>, <<V("B", 1, 1), V("E", 2, 2)>>,
  <<V("C", 1, 1), V("F", 2, 2)>>, <<V("A", 2, 2), V("C", 1, 2)>>, <<V("D", 1, 1), V("E", 1, 2)>>,
  <<V("B", 2, 2), V("B", 1, 1)>>}

MCSecond == {<<V("A", 1, 2)>>, <<V("B", 1, 3)>>, <<V("C", 1, 2), V("A", 1, 3)>>,
  <<V("C", 1, 4), V("C", 1, 5)>>, <<V("E", 1, 3), V("A", 1, 3)>>, <<V("D", 2, 3), V("D", 1, 4)>>}

\* User 1 leads in every aspect, in some of them as the only contributor; in a
\* batch user 2 draws level in one.
MCLeads == <<V("D", 1, 0), V("D", 1, 0), V("F", 1, 0), V("G", 1, 1), V("D", 2, 1)>>
MCLevels == {<<V("G", 2, 2)>>, <<V("G", 1, 1), V("G", 2, 2)>>, <<V("A", 1, 2)>>}

MCThird == <<V("B", 1, 4), V("C", 1, 5), V("D", 2, 5)>>

MCStreams ==
  {[imported |-> i, batches |-> <<f, s>>] : i \in MCImported, f \in MCFirst, s \in MCSecond}
    \cup {[imported |-> <<V("D", 1, 0)>>, batches |-> <<f, s, MCThird>>] : f \in MCFirst, s \in MCSecond}
    \cup {[imported |-> MCLeads, batches |-> <<f, s>>] : f \in MCLevels, s \in MCSecond}

MCTopTags == {1}
MCCaps == <<20, 20, 12, 4>>
MCCountry == (1 :> "FR") @@ (2 :> "IT")

=============================================================================
