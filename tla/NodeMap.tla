------------------------------ MODULE NodeMap ------------------------------
(***************************************************************************)
(* What the node state promises an update: a map of last known positions    *)
(* that is ahead of the manifest only by a recorded run.  A run records the *)
(* diffs after the manifest's place as a whole, and then the manifest       *)
(* follows; a crash repeats a run over what it recorded.  Compactions and   *)
(* restarts are not visible.                                               *)
(***************************************************************************)
EXTENDS NodeEdits

VARIABLES view, committed

Init ==
  /\ committed \in Ends
  /\ view = Collapsed(committed)

\* A dataset built anew from a history, up to some place.
Import(place) ==
  /\ committed' = place
  /\ view' = Collapsed(place)

\* A run up to `end` makes the edits since the committed place durable.
Record(end) ==
  /\ committed < end
  /\ view' = Replay(view, committed, end)
  /\ UNCHANGED committed

\* The manifest advances over edits the map has.
Commit(end) ==
  /\ committed < end
  /\ Replay(view, committed, end) = view
  /\ committed' = end
  /\ UNCHANGED view

Next == \E end \in Ends : Import(end) \/ Record(end) \/ Commit(end)

Spec == Init /\ [][Next]_<<view, committed>>
=============================================================================
