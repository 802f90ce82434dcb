---------------------------- MODULE MCNodeState ----------------------------
(***************************************************************************)
(* A small instance: three nodes and three diffs.  The history an import    *)
(* may read ends after the first diff or at the start; n1 is moved,         *)
(* deleted and created again, n2 is created and deleted, n3 only moved.    *)
(***************************************************************************)
EXTENDS NodeStateProperties

CONSTANTS n1, n2, n3, a, b, c

Edit(n, cell, fresh) == [node |-> n, cell |-> cell, fresh |-> fresh]

MCStream ==
  << Edit(n1, a, TRUE), Edit(n3, a, TRUE),
     Edit(n1, b, FALSE), Edit(n2, b, TRUE),
     Edit(n1, NoCell, FALSE), Edit(n3, c, FALSE),
     Edit(n2, NoCell, FALSE), Edit(n1, c, FALSE) >>

MCEnds == {0, 2, 4, 6, 8}
=============================================================================
