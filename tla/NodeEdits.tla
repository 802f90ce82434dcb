----------------------------- MODULE NodeEdits -----------------------------
(***************************************************************************)
(* What a stream of node edits does to a map of positions, without the      *)
(* files: the meaning of a diff's nodes (update.cpp, NodeUpdateHandler) and *)
(* of the collapse of a history (main.cpp, run_step4_pass).                 *)
(*                                                                         *)
(* The edits of all diffs are one sequence, Stream; Ends are the places in  *)
(* it where a diff ends.  An edit has the cell of the node's new location,  *)
(* or NoCell for a deletion.                                               *)
(***************************************************************************)
EXTENDS Integers, Sequences

CONSTANTS
  Nodes,   \* node ids
  Cells,   \* H3 cells of valid locations
  NoCell,  \* the 0 that stands for "no position"
  Stream,  \* the node edits: [node, cell, fresh], fresh = version 1
  Ends     \* the places of Stream where a diff ends, 0 included

Cell0 == Cells \cup {NoCell}
Edits == [node : Nodes, cell : Cell0, fresh : BOOLEAN]
Last == Len(Stream)

ASSUME NoPosition == NoCell \notin Cells
ASSUME StreamOfEdits == Stream \in Seq(Edits)
ASSUME EndsOfDiffs == Ends \subseteq 0..Last /\ 0 \in Ends

-----------------------------------------------------------------------------
\* The edits of a node among those in (from, upto].
EditsOf(n, from, upto) == {i \in (from + 1)..upto : Stream[i].node = n}
Newest(I) == CHOOSE i \in I : \A j \in I : j <= i

\* Folding the edits in (from, upto] into a map of positions.
Replay(view, from, upto) ==
  [n \in Nodes |-> IF EditsOf(n, from, upto) = {} THEN view[n]
                   ELSE Stream[Newest(EditsOf(n, from, upto))].cell]

\* The history cache holds a record per located version, sorted by node and
\* day; collapsed, a node has its last one, even if it was deleted later.
Collapsed(place) ==
  [n \in Nodes |->
     LET located == {i \in EditsOf(n, 0, place) : Stream[i].cell # NoCell}
     IN  IF located = {} THEN NoCell ELSE Stream[Newest(located)].cell]
=============================================================================
