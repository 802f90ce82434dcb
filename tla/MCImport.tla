------------------------------ MODULE MCImport ------------------------------
(***************************************************************************)
(* Small imports: many files imported once, and one file imported again and *)
(* again, pass by pass, with crashes.                                       *)
(***************************************************************************)
EXTENDS ImportProperties

CONSTANTS a, b

MCDays == 1..3
MCYearOf == <<"y1", "y1", "y2">>

At(n, d, c) == [id |-> n, day |-> d, cell |-> c]
\* Two versions on a day; a node across two blocks of two records; a deletion
\* after a position and one without; a day that decreases.
MCNodeFiles == {
  <<At(1, 1, a), At(1, 1, b), At(1, 2, a), At(1, 3, b), At(2, 1, b), At(2, 3, NoCell)>>,
  <<At(1, 2, b), At(2, 1, NoCell), At(2, 1, a), At(2, 2, b), At(2, 3, a)>> }
MCUnsorted == <<At(1, 1, a), At(2, 2, b), At(2, 3, a), At(2, 1, a)>>

Visible(w, d, ns) == [id |-> w, day |-> d, visible |-> TRUE, nodes |-> ns]
Deleted(w, d) == [id |-> w, day |-> d, visible |-> FALSE, nodes |-> <<>>]
MCWays == {Visible(w, d, ns) : w \in 1..2, d \in MCDays, ns \in {<<1>>, <<2, 1, 2>>}}
            \cup {Deleted(w, d) : w \in 1..2, d \in MCDays}
            \cup {Visible(1, 2, <<>>)}
Follows(v, w) == v.id < w.id \/ (v.id = w.id /\ v.day <= w.day)
MCWayFiles == {s \in [1..3 -> MCWays] : Follows(s[1], s[2]) /\ Follows(s[2], s[3])}

MCFile(ns, ws, n, r, c) == [nodes |-> ns, ways |-> ws, batch |-> n, runs |-> r, crashes |-> c]
MCOnce == {MCFile(ns, ws, n, 1, 0) : ns \in MCNodeFiles, ws \in MCWayFiles, n \in {1, 2, 9}}
MCAgain == {MCFile(ns, <<Visible(1, 2, <<1, 2>>), Deleted(1, 3)>>, 1, 4, 2) :
              ns \in MCNodeFiles \cup {MCUnsorted, <<At(1, 1, a)>>}}
MCLater == {[nodes |-> <<At(2, 3, b)>>, ways |-> <<Visible(2, 3, <<2>>)>>]}
\* What the documents say and the code does not do, each in a few steps.
MCStray == {MCFile(<<At(1, 1, a)>>, <<Visible(1, 2, <<1>>), Deleted(2, 3)>>, 9, 1, 0)}
MCSmall(r, c) == {MCFile(<<At(1, 1, a)>>, <<Visible(1, 1, <<1>>)>>, 9, r, c)}
MCRemerge == MCSmall(2, 1)
MCFixUp == MCSmall(3, 0)
MCInputs == MCOnce \cup MCAgain
MCLookup == {MCFile(<<At(1, 1, a)>>, <<Visible(1, 2, <<1>>), Visible(1, 3, <<1>>)>>, 9, 1, 0)}
=============================================================================
