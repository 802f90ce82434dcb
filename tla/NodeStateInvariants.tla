------------------------ MODULE NodeStateInvariants ------------------------
(***************************************************************************)
(* What is true between the steps of the node state, and makes its          *)
(* properties inductive.                                                   *)
(***************************************************************************)
EXTENDS NodeStateProperties

Updating == pc \in {"nodes", "ways", "batch", "manifest", "rebuild", "drop"}

\* The map that the run's changes make of the base.
MemoryView == ViewOf(base, Changes)
Touched(n) == EditsOf(n, committed, at) # {}

\* Where a verb is, and how far it and the files are.
PhaseOK ==
  /\ history \in {snapshot, NoHistory}
  /\ Updating => history = NoHistory
  /\ pc = "history" => history = snapshot
  /\ pc = "sidecar" => history = NoHistory
  /\ pc \in {"history", "sidecar"} => base = Collapsed(snapshot)
  /\ (history # NoHistory \/ pc = "sidecar") => committed = snapshot /\ high = snapshot
  /\ snapshot <= committed /\ committed <= high
  /\ pc \in {"nodes", "ways", "batch", "manifest"} =>
       batch.last \in Ends /\ committed < batch.last /\ committed <= at /\ at <= batch.last
  /\ pc \in {"ways", "batch", "manifest"} => at = batch.last
  /\ pc = "manifest" => at <= high

\* Outside an update nothing is in memory.
IdleMemory == ~Updating => memo = NoMemo

\* A run never forgets that a node changed.
ChangesKept ==
  pc \in {"nodes", "ways", "batch"} =>
    \A n \in Nodes : delta.modified[n] # NoCell \/ n \in delta.deleted
                       => overlay[n] # NoCell \/ n \in deleted

\* What is in memory is the map on disk with the run's edits folded in; once it
\* is persisted, that is what is on disk, in a rebuilt base as well.
MemoryIsReplay ==
  /\ pc \in {"nodes", "ways", "batch"} => MemoryView = Replay(DiskView, committed, at)
  /\ pc = "manifest" => Replay(DiskView, committed, at) = DiskView
  /\ pc \in {"manifest", "rebuild", "drop"} => delta = Changes
  /\ pc = "drop" => base = ViewOf(base, delta)

\* A node the run has edited is where the stream puts it.
TouchedIsCurrent ==
  pc \in {"nodes", "ways", "batch", "manifest"} =>
    \A n \in Nodes : Touched(n) => MemoryView[n] = AsOf(at)[n]

FilesInv == TypeOK /\ SidecarIsUnambiguous /\ MemoIsOfBase /\ PhaseOK
            /\ IdleMemory /\ ChangesKept
ViewInv == MemoryIsReplay /\ TouchedIsCurrent /\ CacheHoldsCommitted
=============================================================================
