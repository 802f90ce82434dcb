------------------------------ MODULE NodeState ------------------------------
(***************************************************************************)
(* The node positions an update runs on (update.hpp, node_delta.hpp): the   *)
(* incremental cache as a base file, the changes since it was written as a  *)
(* sidecar, and what a run holds of both in memory, across runs, crashes,   *)
(* compactions and re-imports.                                             *)
(***************************************************************************)
EXTENDS NodeEdits, FiniteSets

CONSTANTS
  Unread,         \* a node whose base cell is not memoized
  CompactShare,   \* compaction is due at 1/CompactShare of the base (10)
  MaxImports,     \* bound: re-imports
  PrepareCrashes  \* may prepare-update crash before it removed the sidecar

NoHistory == -1

ASSUME NodesAreFinite == IsFiniteSet(Nodes)
ASSUME UnreadIsNoCell == Unread \notin Cell0
ASSUME ShareIsPositive == CompactShare \in Nat \ {0}
ASSUME SwitchesAndBounds == MaxImports \in Nat /\ PrepareCrashes \in BOOLEAN

VARIABLES
  committed,  \* manifest.json: the place in Stream the dataset is at
  history,    \* node_positions.cache: the place it was imported at, or NoHistory
  base,       \* the .last file: a cell per recorded node
  delta,      \* the .last.delta file; an absent one is empty
  overlay,    \* NodeState::overlay_
  deleted,    \* NodeState::deleted_
  memo,       \* NodeState::base_memo_
  pc,         \* where the running verb is
  at,         \* the edits the run has folded in
  batch,      \* where the batch being applied begins and ends
  counted,    \* the prior cell the last edit was counted or compared at
  snapshot,   \* the place of the last import
  high,       \* the furthest place a sidecar was written for since then
  imports     \* re-imports so far

disk == <<base, delta, history, committed>>
memory == <<overlay, deleted, memo, at, batch, counted>>
vars == <<disk, memory, pc, snapshot, high, imports>>

-----------------------------------------------------------------------------
\* Nothing is known of any node.
NoCells == [n \in Nodes |-> NoCell]
NoChanges == [modified |-> NoCells, deleted |-> {}]
NoMemo == [n \in Nodes |-> Unread]

\* What a base and a sidecar say of each node together.
ViewOf(b, d) ==
  [n \in Nodes |-> IF d.modified[n] # NoCell THEN d.modified[n]
                   ELSE IF n \in d.deleted THEN NoCell ELSE b[n]]

-----------------------------------------------------------------------------
\* base_cell(node), and the memo it leaves.
BaseCell(n) == IF memo[n] # Unread THEN memo[n] ELSE base[n]

\* Mutant: the memo takes the cell pre() answered.
RememberPre(ns) ==
  [n \in Nodes |-> IF n \in ns /\ memo[n] = Unread
                   THEN IF overlay[n] # NoCell THEN overlay[n] ELSE base[n]
                   ELSE memo[n]]

\* The memo after base_cell was asked for some of these nodes.
Remember(ns) ==
  [n \in Nodes |-> IF n \in ns /\ overlay[n] = NoCell /\ memo[n] = Unread
                   THEN base[n] ELSE memo[n]]

\* The cell before the batch's deletions, and the one after the batch.
Pre(n) == IF overlay[n] # NoCell THEN overlay[n] ELSE BaseCell(n)
Post(n) == IF overlay[n] # NoCell THEN overlay[n]
           ELSE IF n \in deleted THEN NoCell ELSE BaseCell(n)

\* Mutant: the rebuilt base keeps the records of deleted nodes.
RebuiltWithDeleted ==
  [n \in Nodes |->
     IF base[n] # NoCell
     THEN IF overlay[n] # NoCell THEN overlay[n] ELSE base[n]
     ELSE IF BaseCell(n) = NoCell THEN overlay[n] ELSE NoCell]

\* rebuild(): base records with the overlay's cells, without the deleted;
\* overlay nodes the base has no cell for are interleaved.
Rebuilt ==
  [n \in Nodes |->
     IF base[n] # NoCell
     THEN IF n \in deleted THEN NoCell
          ELSE IF overlay[n] # NoCell THEN overlay[n] ELSE base[n]
     ELSE IF BaseCell(n) = NoCell THEN overlay[n] ELSE NoCell]

\* What delta::write puts into the sidecar.
Changes == [modified |-> overlay, deleted |-> deleted]

Changed == Cardinality({n \in Nodes : overlay[n] # NoCell}) + Cardinality(deleted)
BaseRecords == Cardinality({n \in Nodes : base[n] # NoCell})
CompactLimit == LET share == BaseRecords \div CompactShare
                IN  IF share > 1 THEN share ELSE 1

Forget ==
  /\ overlay' = NoCells /\ deleted' = {} /\ memo' = NoMemo
  /\ at' = 0 /\ batch' = [first |-> 0, last |-> 0] /\ counted' = NoCell

-----------------------------------------------------------------------------
\* A dataset just imported: no incremental cache yet.
Init ==
  /\ snapshot \in Ends
  /\ history = snapshot /\ committed = snapshot /\ high = snapshot
  /\ base = NoCells /\ delta = NoChanges
  /\ overlay = NoCells /\ deleted = {} /\ memo = NoMemo
  /\ at = 0 /\ batch = [first |-> 0, last |-> 0] /\ counted = NoCell
  /\ pc = "idle" /\ imports = 0

\* import: a new history cache and manifest; base and sidecar stay.
Import(place) ==
  /\ pc = "idle" /\ imports < MaxImports
  /\ history' = place /\ committed' = place
  /\ snapshot' = place /\ high' = place
  /\ imports' = imports + 1
  /\ UNCHANGED <<base, delta, memory, pc>>

\* prepare-update: the base is collapsed from the history cache ...
Collapse ==
  /\ pc = "idle" /\ history # NoHistory
  /\ base' = Collapsed(history)
  /\ pc' = "history"
  /\ UNCHANGED <<delta, history, committed, memory, snapshot, high, imports>>

\* ... which is then removed, and after it the old sidecar.
RemoveHistory ==
  /\ pc = "history"
  /\ history' = NoHistory
  /\ pc' = "sidecar"
  /\ UNCHANGED <<base, delta, committed, memory, snapshot, high, imports>>

RemoveSidecar ==
  /\ pc = "sidecar"
  /\ delta' = NoChanges
  /\ pc' = "idle"
  /\ UNCHANGED <<base, history, committed, memory, snapshot, high, imports>>

-----------------------------------------------------------------------------
\* Mutant: the deletions of the sidecar are not loaded.
StartWithoutDeletions(end) ==
  /\ pc = "idle" /\ history = NoHistory
  /\ committed < end
  /\ overlay' = delta.modified /\ deleted' = {}
  /\ memo' = NoMemo /\ counted' = NoCell
  /\ at' = committed /\ batch' = [first |-> committed, last |-> end]
  /\ pc' = "nodes"
  /\ UNCHANGED <<disk, snapshot, high, imports>>

\* update: the constructor loads the sidecar, and the first batch begins.
\* The operator runs it after prepare-update, which leaves no history cache.
Start(end) ==
  /\ pc = "idle" /\ history = NoHistory
  /\ committed < end
  /\ overlay' = delta.modified /\ deleted' = delta.deleted
  /\ memo' = NoMemo /\ counted' = NoCell
  /\ at' = committed /\ batch' = [first |-> committed, last |-> end]
  /\ pc' = "nodes"
  /\ UNCHANGED <<disk, snapshot, high, imports>>

\* Mutant: a new position does not undo the deletion.
SetPositionOfDeleted ==
  LET e == Stream[at + 1] IN
  /\ pc = "nodes" /\ at < batch.last
  /\ e.cell # NoCell
  /\ counted' = IF e.fresh THEN NoCell ELSE Pre(e.node)
  /\ memo' = IF e.fresh THEN memo ELSE Remember({e.node})
  /\ overlay' = [overlay EXCEPT ![e.node] = e.cell]
  /\ at' = at + 1
  /\ UNCHANGED <<disk, deleted, batch, pc, snapshot, high, imports>>

\* NodeUpdateHandler::node on a located version: a modification is compared
\* with the prior cell before set_position.
SetPosition ==
  LET e == Stream[at + 1] IN
  /\ pc = "nodes" /\ at < batch.last
  /\ e.cell # NoCell
  /\ counted' = IF e.fresh THEN NoCell ELSE Pre(e.node)
  /\ memo' = IF e.fresh THEN memo ELSE Remember({e.node})
  /\ overlay' = [overlay EXCEPT ![e.node] = e.cell]
  /\ deleted' = deleted \ {e.node}
  /\ at' = at + 1
  /\ UNCHANGED <<disk, batch, pc, snapshot, high, imports>>

\* Mutant: a deletion is counted at the base cell.
RemoveNodeAtBase ==
  LET e == Stream[at + 1] IN
  /\ pc = "nodes" /\ at < batch.last
  /\ e.cell = NoCell
  /\ counted' = BaseCell(e.node)
  /\ memo' = Remember({e.node})
  /\ overlay' = [overlay EXCEPT ![e.node] = NoCell]
  /\ deleted' = deleted \cup {e.node}
  /\ at' = at + 1
  /\ UNCHANGED <<disk, batch, pc, snapshot, high, imports>>

\* ... and on a deletion, counted at the last known cell.
RemoveNode ==
  LET e == Stream[at + 1] IN
  /\ pc = "nodes" /\ at < batch.last
  /\ e.cell = NoCell
  /\ counted' = Pre(e.node)
  /\ memo' = Remember({e.node})
  /\ overlay' = [overlay EXCEPT ![e.node] = NoCell]
  /\ deleted' = deleted \cup {e.node}
  /\ at' = at + 1
  /\ UNCHANGED <<disk, batch, pc, snapshot, high, imports>>

NodePassDone ==
  /\ pc = "nodes" /\ at = batch.last
  /\ pc' = "ways"
  /\ UNCHANGED <<disk, memory, snapshot, high, imports>>

\* The way pass and the cell scan resolve the refs of the batch's ways.
ResolveWays(refs) ==
  /\ pc = "ways"
  /\ memo' = Remember(refs)
  /\ pc' = "batch"
  /\ UNCHANGED <<disk, overlay, deleted, at, batch, counted, snapshot, high, imports>>

NextBatch(end) ==
  /\ pc = "batch" /\ at < end
  /\ batch' = [first |-> at, last |-> end]
  /\ pc' = "nodes"
  /\ UNCHANGED <<disk, overlay, deleted, memo, at, counted, snapshot, high, imports>>

-----------------------------------------------------------------------------
\* Mutant: nothing is written while compaction is due anyway.
PersistOnlyBelowLimit ==
  /\ pc = "batch"
  /\ delta' = IF Changed = 0 \/ Changed >= CompactLimit THEN delta ELSE Changes
  /\ high' = IF at > high THEN at ELSE high
  /\ pc' = "manifest"
  /\ UNCHANGED <<base, history, committed, memory, snapshot, imports>>

\* persist_delta: the sidecar, unless nothing ever changed.
PersistDelta ==
  /\ pc = "batch"
  /\ delta' = IF Changed = 0 THEN delta ELSE Changes
  /\ high' = IF at > high THEN at ELSE high
  /\ pc' = "manifest"
  /\ UNCHANGED <<base, history, committed, memory, snapshot, imports>>

\* Mutant: the manifest counts one edit too many.
WriteManifestPast ==
  /\ pc = "manifest"
  /\ committed' = at + 1
  /\ IF Changed # 0 /\ Changed >= CompactLimit
     THEN pc' = "rebuild" /\ UNCHANGED memory
     ELSE pc' = "idle" /\ Forget
  /\ UNCHANGED <<base, delta, history, snapshot, high, imports>>

\* write_manifest_output; the run ends here unless a rebuild is due.
WriteManifest ==
  /\ pc = "manifest"
  /\ committed' = at
  /\ IF Changed # 0 /\ Changed >= CompactLimit
     THEN pc' = "rebuild" /\ UNCHANGED memory
     ELSE pc' = "idle" /\ Forget
  /\ UNCHANGED <<base, delta, history, snapshot, high, imports>>

\* compact(): the rebuilt base is renamed into place, then the sidecar goes.
RenameBase ==
  /\ pc = "rebuild"
  /\ base' = Rebuilt
  /\ pc' = "drop"
  /\ UNCHANGED <<delta, history, committed, memory, snapshot, high, imports>>

DropDelta ==
  /\ pc = "drop"
  /\ delta' = NoChanges
  /\ pc' = "idle" /\ Forget
  /\ UNCHANGED <<base, history, committed, snapshot, high, imports>>

\* The process ends anywhere, and with it what it holds in memory.
Crash ==
  /\ pc # "idle"
  /\ pc = "sidecar" => PrepareCrashes
  /\ pc' = "idle" /\ Forget
  /\ UNCHANGED <<disk, snapshot, high, imports>>

Next ==
  \/ \E place \in Ends : Import(place)
  \/ Collapse \/ RemoveHistory \/ RemoveSidecar
  \/ \E end \in Ends : Start(end) \/ NextBatch(end)
  \/ SetPosition \/ RemoveNode \/ NodePassDone
  \/ \E refs \in SUBSET Nodes : ResolveWays(refs)
  \/ PersistDelta \/ WriteManifest \/ RenameBase \/ DropDelta
  \/ Crash

Spec == Init /\ [][Next]_vars
=============================================================================
