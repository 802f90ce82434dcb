----------------------------- MODULE DiffLedger -----------------------------
(***************************************************************************)
(* What the update pipeline promises, without saying how.  Every output    *)
(* absorbs diffs; the manifest's sequence is a promise that all outputs    *)
(* have absorbed every diff up to it.  With AtMostOnce no output absorbs a *)
(* diff twice; without it one may (a rerun after a crash), but still no    *)
(* committed diff is missing anywhere.                                     *)
(***************************************************************************)
EXTENDS Integers

CONSTANTS
  MaxSeq,
  Outputs,
  Needs,      \* Needs[o]: the diffs that have something for output o
  AtMostOnce

VARIABLES
  content,    \* content[o]: the diffs summed into o
  repeated,   \* repeated[o]: those of them summed more than once
  committed   \* the sequence in the manifest

vars == <<content, repeated, committed>>

Init ==
  /\ content = [o \in Outputs |-> {}]
  /\ repeated = [o \in Outputs |-> {}]
  /\ committed = 0

\* Some outputs absorb diffs they need; what they held is never dropped.
Absorb ==
  /\ \A o \in Outputs :
       /\ content[o] \subseteq content'[o]
       /\ content'[o] \subseteq content[o] \union Needs[o]
       /\ repeated[o] \subseteq repeated'[o]
       /\ repeated'[o] \subseteq content'[o]
       /\ AtMostOnce => repeated'[o] = {}
  /\ UNCHANGED committed

\* The manifest moves forward to n once every output holds its diffs up to n.
Commit ==
  \E n \in committed..MaxSeq :
    /\ \A o \in Outputs : Needs[o] \intersect (1..n) \subseteq content[o]
    /\ committed' = n
    /\ UNCHANGED <<content, repeated>>

Next == Absorb \/ Commit

Spec == Init /\ [][Next]_vars
=============================================================================
