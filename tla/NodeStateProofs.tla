-------------------------- MODULE NodeStateProofs ---------------------------
(***************************************************************************)
(* The node state implements a map of positions that is never behind the   *)
(* manifest, for every stream of edits and every way of cutting it into    *)
(* batches and runs, and the views of a run are the stream's, if           *)
(* prepare-update is not interrupted between its last two removals.        *)
(***************************************************************************)
EXTENDS NodeStateInvariants, DataInduction

\* A nonempty set of places has a newest one.
LEMMA NewestExists ==
  ASSUME NEW L \in Nat, NEW I \in SUBSET (1..L), I # {}
  PROVE  /\ Newest(I) \in I
         /\ \A j \in I : j <= Newest(I)
<1>1. IsFiniteSet(1..L)
  BY FS_Interval, 1 \in Int, L \in Int
<1>2. IsFiniteSet(I) /\ I \subseteq Int
  <2>1. IsFiniteSet(I)
    BY <1>1, FS_Subset
  <2>. QED BY <2>1
<1>. QED BY <1>2, GreatestExists DEF Newest

\* An edit of the stream.
LEMMA StreamEdits ==
  /\ Last \in Nat
  /\ \A i \in 1..Last : /\ Stream[i] \in Edits
                        /\ Stream[i].node \in Nodes
                        /\ Stream[i].cell \in Cell0
<1>1. Last \in Nat /\ \A i \in 1..Last : Stream[i] \in Edits
  BY StreamOfEdits DEF Last
<1>. QED BY <1>1 DEF Edits

\* Folding in one more edit.
LEMMA ReplayStep ==
  ASSUME NEW view, NEW from \in Nat, NEW k \in Nat, from <= k, NEW n \in Nodes
  PROVE  Replay(view, from, k + 1)[n] =
           IF Stream[k + 1].node = n THEN Stream[k + 1].cell ELSE Replay(view, from, k)[n]
<1>1. CASE Stream[k + 1].node = n
  <2>1. k + 1 \in EditsOf(n, from, k + 1)
    BY <1>1 DEF EditsOf
  <2>2. \A j \in EditsOf(n, from, k + 1) : j \in Int /\ j <= k + 1
    BY DEF EditsOf
  <2>3. \A i \in EditsOf(n, from, k + 1) :
          (\A j \in EditsOf(n, from, k + 1) : j <= i) => i = k + 1
    BY <2>1, <2>2
  <2>4. Newest(EditsOf(n, from, k + 1)) = k + 1
    BY <2>1, <2>2, <2>3 DEF Newest
  <2>. QED BY <1>1, <2>1, <2>4 DEF Replay
<1>2. CASE Stream[k + 1].node # n
  <2>1. EditsOf(n, from, k + 1) = EditsOf(n, from, k)
    BY <1>2 DEF EditsOf
  <2>. QED BY <1>2, <2>1 DEF Replay
<1>. QED BY <1>1, <1>2

\* Folding in no edit.
LEMMA ReplayNothing ==
  ASSUME NEW view \in [Nodes -> Cell0], NEW from \in Nat
  PROVE  Replay(view, from, from) = view
<1>1. \A n \in Nodes : EditsOf(n, from, from) = {}
  BY DEF EditsOf
<1>. QED BY <1>1 DEF Replay

\* Edits of other nodes do not move a node.
LEMMA Untouched ==
  ASSUME NEW view, NEW from \in Nat, NEW mid \in Nat, NEW upto \in Nat,
         from <= mid, mid <= upto, NEW n \in Nodes, EditsOf(n, mid, upto) = {}
  PROVE  Replay(view, from, upto)[n] = Replay(view, from, mid)[n]
<1>1. EditsOf(n, from, upto) = EditsOf(n, from, mid)
  BY DEF EditsOf
<1>. QED BY <1>1 DEF Replay

\* Positions are cells.
LEMMA PositionsAreCells ==
  ASSUME NEW from \in 0..Last, NEW upto \in 0..Last
  PROVE  /\ Collapsed(upto) \in [Nodes -> Cell0]
         /\ \A view \in [Nodes -> Cell0] : Replay(view, from, upto) \in [Nodes -> Cell0]
<1>1. ASSUME NEW I \in SUBSET (1..Last), I # {}
      PROVE  Stream[Newest(I)].cell \in Cell0
  BY <1>1, NewestExists, StreamEdits
<1>2. \A n \in Nodes : EditsOf(n, from, upto) \in SUBSET (1..Last)
  BY StreamEdits DEF EditsOf
<1>3. \A n \in Nodes : {i \in EditsOf(n, 0, upto) : Stream[i].cell # NoCell}
                         \in SUBSET (1..Last)
  BY StreamEdits DEF EditsOf
<1>4. Collapsed(upto) \in [Nodes -> Cell0]
  BY <1>1, <1>3 DEF Collapsed, Cell0
<1>5. \A view \in [Nodes -> Cell0] : Replay(view, from, upto) \in [Nodes -> Cell0]
  BY <1>1, <1>2 DEF Replay
<1>. QED BY <1>4, <1>5

-----------------------------------------------------------------------------
\* The ends of diffs are places in the stream.
LEMMA EndsArePlaces == Ends \subseteq Nat /\ 0 \in Ends /\ \A e \in Ends : e \in 0..Last
BY EndsOfDiffs, StreamEdits

\* What the memo answers is what the base holds.
LEMMA BaseCellIsBase ==
  ASSUME TypeOK, MemoIsOfBase, pc # "drop", NEW n \in Nodes
  PROVE  BaseCell(n) = base[n] /\ BaseCell(n) \in Cell0
BY UnreadIsNoCell DEF TypeOK, MemoIsOfBase, BaseCell

LEMMA NoCellIsACell == NoCell \in Cell0 /\ NoCells \in [Nodes -> Cell0]
BY DEF Cell0, NoCells

\* The empty memory.
LEMMA ForgetTypes ==
  ASSUME Forget
  PROVE  /\ overlay' \in [Nodes -> Cell0] /\ deleted' \in SUBSET Nodes
         /\ memo' \in [Nodes -> Cell0 \cup {Unread}]
         /\ at' \in 0..Last
         /\ batch' \in [first : 0..Last, last : Ends \cup {0}]
         /\ counted' \in Cell0
BY NoCellIsACell, StreamEdits DEF Forget, NoMemo

\* The memo after a lookup.
LEMMA RememberTypes ==
  ASSUME TypeOK, NEW ns
  PROVE  Remember(ns) \in [Nodes -> Cell0 \cup {Unread}]
BY DEF Remember, TypeOK

\* The initial state.
LEMMA FilesInvInit == Init => FilesInv
<1> SUFFICES ASSUME Init PROVE FilesInv
  OBVIOUS
<1>1. TypeOK
  BY NoCellIsACell, EndsArePlaces, StreamEdits, SwitchesAndBounds
     DEF Init, TypeOK, NoChanges, NoMemo
<1>2. SidecarIsUnambiguous
  BY DEF Init, SidecarIsUnambiguous, NoChanges, NoCells
<1>3. MemoIsOfBase
  BY DEF Init, MemoIsOfBase, NoMemo
<1>4. PhaseOK
  BY EndsArePlaces DEF Init, PhaseOK, Updating
<1>5. ChangesKept /\ IdleMemory
  BY DEF Init, ChangesKept, IdleMemory
<1>. QED BY <1>1, <1>2, <1>3, <1>4, <1>5 DEF FilesInv

\* The edit the node pass is at.
LEMMA EditIsInStream ==
  ASSUME FilesInv, SetPosition \/ RemoveNode
  PROVE  at + 1 \in 1..Last /\ at \in Nat
<1>1. pc = "nodes" /\ at < batch.last
  BY DEF SetPosition, RemoveNode
<1>2. batch.last \in Ends /\ at \in 0..Last
  BY <1>1 DEF FilesInv, PhaseOK, TypeOK
<1>3. batch.last \in 0..Last
  BY <1>2, EndsArePlaces
<1>. QED BY <1>1, <1>2, <1>3, StreamEdits

\* Every step keeps the types.
LEMMA TypeStep == ASSUME FilesInv, [Next]_vars PROVE TypeOK'
<1> USE DEF FilesInv
<1>1. CASE UNCHANGED vars
  BY <1>1 DEF vars, disk, memory, TypeOK
<1>2. CASE \E place \in Ends : Import(place)
  BY <1>2, SwitchesAndBounds DEF Import, memory, TypeOK
<1>3. CASE Collapse
  <2>1. history \in Ends
    BY <1>3 DEF Collapse, TypeOK
  <2>2. Collapsed(history) \in [Nodes -> Cell0]
    BY <2>1, EndsArePlaces, PositionsAreCells
  <2>. QED BY <1>3, <2>2 DEF Collapse, memory, TypeOK
<1>4. CASE RemoveHistory \/ RemoveSidecar
  BY <1>4, NoCellIsACell DEF RemoveHistory, RemoveSidecar, memory, TypeOK, NoChanges
<1>5. CASE \E end \in Ends : Start(end)
  BY <1>5, NoCellIsACell, EndsArePlaces DEF Start, disk, TypeOK, NoMemo
<1>6. CASE \E end \in Ends : NextBatch(end)
  BY <1>6, EndsArePlaces DEF NextBatch, disk, TypeOK
<1>7. CASE SetPosition \/ RemoveNode
  <2> DEFINE e == Stream[at + 1]
  <2>1. at + 1 \in 1..Last
    BY <1>7, EditIsInStream
  <2>2. e.node \in Nodes /\ e.cell \in Cell0
    BY <2>1, StreamEdits
  <2>3. pc # "drop"
    BY <1>7 DEF SetPosition, RemoveNode
  <2>4. Pre(e.node) \in Cell0
    BY <2>2, <2>3, BaseCellIsBase DEF Pre, TypeOK
  <2>5. counted' \in Cell0
    BY <1>7, <2>4, NoCellIsACell DEF SetPosition, RemoveNode
  <2>6. overlay' \in [Nodes -> Cell0] /\ deleted' \in SUBSET Nodes
    BY <1>7, <2>2, NoCellIsACell DEF SetPosition, RemoveNode, TypeOK
  <2>7. memo' \in [Nodes -> Cell0 \cup {Unread}]
    BY <1>7, RememberTypes DEF SetPosition, RemoveNode, TypeOK
  <2>8. at' \in 0..Last
    BY <1>7, <2>1, StreamEdits DEF SetPosition, RemoveNode
  <2>9. UNCHANGED <<disk, batch, pc, snapshot, high, imports>>
    BY <1>7 DEF SetPosition, RemoveNode
  <2>. QED BY <2>5, <2>6, <2>7, <2>8, <2>9 DEF disk, TypeOK
<1>8. CASE NodePassDone
  BY <1>8 DEF NodePassDone, disk, memory, TypeOK
<1>9. CASE \E refs \in SUBSET Nodes : ResolveWays(refs)
  BY <1>9, RememberTypes DEF ResolveWays, disk, TypeOK
<1>10. CASE PersistDelta
  <2>1. at \in Ends
    BY <1>10 DEF PersistDelta, PhaseOK
  <2>. QED BY <1>10, <2>1 DEF PersistDelta, Changes, memory, TypeOK
<1>11. CASE WriteManifest
  <2>1. at \in Ends
    BY <1>11 DEF WriteManifest, PhaseOK
  <2>2. CASE UNCHANGED memory
    BY <1>11, <2>1, <2>2 DEF WriteManifest, memory, TypeOK
  <2>3. CASE Forget
    BY <1>11, <2>1, <2>3, ForgetTypes DEF WriteManifest, TypeOK
  <2>. QED BY <1>11, <2>2, <2>3 DEF WriteManifest
<1>12. CASE RenameBase
  <2>1. Rebuilt \in [Nodes -> Cell0]
    BY NoCellIsACell DEF Rebuilt, TypeOK
  <2>. QED BY <1>12, <2>1 DEF RenameBase, memory, TypeOK
<1>13. CASE DropDelta
  BY <1>13, ForgetTypes, NoCellIsACell DEF DropDelta, TypeOK, NoChanges
<1>14. CASE Crash
  BY <1>14, ForgetTypes DEF Crash, disk, TypeOK
<1>. QED BY <1>1, <1>2, <1>3, <1>4, <1>5, <1>6, <1>7, <1>8, <1>9, <1>10, <1>11, <1>12,
         <1>13, <1>14 DEF Next

\* Every step keeps the sidecar and the overlay free of nodes both placed and
\* deleted.
LEMMA UnambiguousStep == ASSUME FilesInv, [Next]_vars PROVE SidecarIsUnambiguous'
<1> USE DEF FilesInv, SidecarIsUnambiguous
<1>1. CASE UNCHANGED vars
  BY <1>1 DEF vars, disk, memory
<1>2. CASE \/ \E place \in Ends : Import(place)
           \/ Collapse \/ RemoveHistory \/ NodePassDone \/ RenameBase
  BY <1>2 DEF Import, Collapse, RemoveHistory, NodePassDone, RenameBase, disk, memory
<1>3. CASE \/ \E end \in Ends : Start(end) \/ NextBatch(end)
           \/ \E refs \in SUBSET Nodes : ResolveWays(refs)
  BY <1>3 DEF Start, NextBatch, ResolveWays, disk
<1>4. CASE RemoveSidecar
  BY <1>4 DEF RemoveSidecar, NoChanges, memory
<1>5. CASE SetPosition \/ RemoveNode
  BY <1>5 DEF SetPosition, RemoveNode, disk, TypeOK
<1>6. CASE PersistDelta
  BY <1>6 DEF PersistDelta, Changes, memory
<1>7. CASE WriteManifest
  BY <1>7 DEF WriteManifest, Forget, memory
<1>8. CASE DropDelta
  BY <1>8 DEF DropDelta, Forget, NoChanges
<1>9. CASE Crash
  BY <1>9 DEF Crash, Forget, disk
<1>. QED BY <1>1, <1>2, <1>3, <1>4, <1>5, <1>6, <1>7, <1>8, <1>9 DEF Next

\* Every step keeps the memo a part of the base.
LEMMA MemoStep == ASSUME FilesInv, [Next]_vars PROVE MemoIsOfBase'
<1> USE DEF FilesInv, MemoIsOfBase
<1>1. CASE UNCHANGED vars
  BY <1>1 DEF vars, disk, memory
<1>2. CASE Forget /\ pc' = "idle"
  BY <1>2 DEF Forget, NoMemo
<1>3. CASE \/ \E place \in Ends : Import(place)
           \/ RemoveHistory \/ RemoveSidecar \/ NodePassDone \/ PersistDelta
           \/ \E end \in Ends : NextBatch(end)
  BY <1>3 DEF Import, RemoveHistory, RemoveSidecar, NodePassDone, PersistDelta, NextBatch,
     disk, memory
<1>4. CASE Collapse
  BY <1>4 DEF Collapse, memory, IdleMemory, Updating, NoMemo
<1>5. CASE \E end \in Ends : Start(end)
  BY <1>5 DEF Start, NoMemo
<1>6. CASE \/ SetPosition \/ RemoveNode
           \/ \E refs \in SUBSET Nodes : ResolveWays(refs)
  BY <1>6 DEF SetPosition, RemoveNode, ResolveWays, Remember, disk
<1>7. CASE WriteManifest
  BY <1>7, <1>2 DEF WriteManifest, memory
<1>8. CASE RenameBase
  BY <1>8 DEF RenameBase
<1>9. CASE DropDelta \/ Crash
  BY <1>9, <1>2 DEF DropDelta, Crash
<1>. QED BY <1>1, <1>3, <1>4, <1>5, <1>6, <1>7, <1>8, <1>9 DEF Next
\* Every step keeps the places of the files and the run in order.
LEMMA PhaseStep == ASSUME FilesInv, [Next]_vars PROVE PhaseOK'
<1> USE DEF FilesInv, PhaseOK, Updating
<1>0. /\ committed \in Ends /\ snapshot \in Ends /\ high \in Ends
      /\ committed \in Int /\ snapshot \in Int /\ high \in Int /\ at \in Int
      /\ Ends \subseteq Nat
  BY EndsArePlaces DEF TypeOK
<1>1. CASE UNCHANGED vars
  BY <1>1 DEF vars, disk, memory
<1>2. CASE \E place \in Ends : Import(place)
  BY <1>0, <1>2 DEF Import, memory
<1>3. CASE Collapse \/ RemoveHistory \/ RemoveSidecar
  BY <1>0, <1>3 DEF Collapse, RemoveHistory, RemoveSidecar, memory, TypeOK, NoHistory
<1>4. CASE \E end \in Ends : Start(end)
  BY <1>0, <1>4 DEF Start, disk
<1>5. CASE \E end \in Ends : NextBatch(end)
  BY <1>0, <1>5 DEF NextBatch, disk
<1>6. CASE SetPosition \/ RemoveNode
  <2>1. /\ pc = "nodes" /\ at < batch.last /\ at' = at + 1
        /\ UNCHANGED <<disk, batch, pc, snapshot, high, imports>>
    BY <1>6 DEF SetPosition, RemoveNode
  <2>2. batch.last \in Ends /\ committed <= at
    BY <2>1
  <2>3. batch.last \in 0..Last
    BY <2>2, EndsArePlaces
  <2>4. at + 1 <= batch.last /\ committed <= at + 1
    BY <2>1, <2>2, <2>3, <1>0, StreamEdits
  <2>. QED BY <1>0, <2>1, <2>3, <2>4 DEF disk
<1>7. CASE NodePassDone \/ \E refs \in SUBSET Nodes : ResolveWays(refs)
  BY <1>0, <1>7 DEF NodePassDone, ResolveWays, disk, memory
<1>8. CASE PersistDelta
  BY <1>0, <1>8 DEF PersistDelta, memory
<1>9. CASE WriteManifest
  BY <1>0, <1>9 DEF WriteManifest
<1>10. CASE RenameBase \/ DropDelta
  BY <1>0, <1>10 DEF RenameBase, DropDelta
<1>11. CASE Crash
  BY <1>0, <1>11 DEF Crash, disk
<1>. QED BY <1>1, <1>2, <1>3, <1>4, <1>5, <1>6, <1>7, <1>8, <1>9, <1>10, <1>11 DEF Next

\* Every step keeps the memory of an idle process empty.
LEMMA IdleStep == ASSUME FilesInv, [Next]_vars PROVE IdleMemory'
<1> USE DEF FilesInv, IdleMemory, Updating
<1>1. CASE UNCHANGED vars
  BY <1>1 DEF vars, memory
<1>2. CASE \/ \E place \in Ends : Import(place)
           \/ Collapse \/ RemoveHistory \/ RemoveSidecar
  BY <1>2 DEF Import, Collapse, RemoveHistory, RemoveSidecar, memory
<1>3. CASE \/ \E end \in Ends : Start(end) \/ NextBatch(end)
           \/ SetPosition \/ RemoveNode \/ NodePassDone
           \/ \E refs \in SUBSET Nodes : ResolveWays(refs)
           \/ PersistDelta \/ RenameBase
  BY <1>3 DEF Start, NextBatch, SetPosition, RemoveNode, NodePassDone, ResolveWays,
     PersistDelta, RenameBase
<1>4. CASE WriteManifest \/ DropDelta \/ Crash
  BY <1>4 DEF WriteManifest, DropDelta, Crash, Forget
<1>. QED BY <1>1, <1>2, <1>3, <1>4 DEF Next

\* Every step keeps the changes a run has loaded or made.
LEMMA ChangesStep == ASSUME FilesInv, [Next]_vars PROVE ChangesKept'
<1> USE DEF FilesInv, ChangesKept
<1>1. CASE UNCHANGED vars
  BY <1>1 DEF vars, disk, memory
<1>2. CASE \E end \in Ends : Start(end)
  BY <1>2 DEF Start, disk
<1>3. CASE SetPosition \/ RemoveNode
  BY <1>3 DEF SetPosition, RemoveNode, disk, TypeOK
<1>4. CASE \/ \E end \in Ends : NextBatch(end)
           \/ NodePassDone \/ \E refs \in SUBSET Nodes : ResolveWays(refs)
  BY <1>4 DEF NextBatch, NodePassDone, ResolveWays, disk, memory
<1>5. CASE pc' \notin {"nodes", "ways", "batch"}
  BY <1>5
<1>6. CASE \/ \E place \in Ends : Import(place)
           \/ Collapse \/ RemoveHistory \/ RemoveSidecar
           \/ PersistDelta \/ WriteManifest \/ RenameBase \/ DropDelta \/ Crash
  <2>1. pc' \notin {"nodes", "ways", "batch"}
    BY <1>6 DEF Import, Collapse, RemoveHistory, RemoveSidecar, PersistDelta, WriteManifest,
       RenameBase, DropDelta, Crash
  <2>. QED BY <1>5, <2>1
<1>. QED BY <1>1, <1>2, <1>3, <1>4, <1>6 DEF Next

LEMMA FilesInvHolds == Spec => []FilesInv
<1>1. FilesInv /\ [Next]_vars => FilesInv'
  BY TypeStep, UnambiguousStep, MemoStep, PhaseStep, IdleStep, ChangesStep DEF FilesInv
<1>. QED BY <1>1, FilesInvInit, PTL DEF Spec

\* Every variable of the node state keeps its type.
THEOREM NodeStateTypes == Spec => []TypeOK
BY FilesInvHolds, PTL DEF FilesInv

\* The keys of the overlay and of the deletions stay disjoint, in memory and in
\* the sidecar (node_delta.hpp: "keys must be disjoint").
THEOREM SidecarIsUnambiguousTheorem == Spec => []SidecarIsUnambiguous
BY FilesInvHolds, PTL DEF FilesInv

\* A memoized base cell is the one in the base, through every change of the
\* overlay and the deletions.
THEOREM MemoIsOfBaseTheorem == Spec => []MemoIsOfBase
BY FilesInvHolds, PTL DEF FilesInv
-----------------------------------------------------------------------------
\* The views are maps of positions.
LEMMA ViewsAreMaps ==
  ASSUME FilesInv
  PROVE  /\ DiskView \in [Nodes -> Cell0] /\ MemoryView \in [Nodes -> Cell0]
         /\ Collapsed(snapshot) \in [Nodes -> Cell0]
         /\ ViewOf(base, NoChanges) = base
<1> USE DEF FilesInv
<1>1. Collapsed(snapshot) \in [Nodes -> Cell0]
  BY EndsArePlaces, PositionsAreCells DEF TypeOK
<1>2. ViewOf(base, delta) \in [Nodes -> Cell0] /\ MemoryView \in [Nodes -> Cell0]
  BY NoCellIsACell DEF TypeOK, ViewOf, MemoryView, Changes
<1>3. ViewOf(base, NoChanges) = base
  BY DEF TypeOK, ViewOf, NoChanges, NoCells
<1>. QED BY <1>1, <1>2, <1>3 DEF DiskView

\* The numbers of a state.
LEMMA Places ==
  ASSUME FilesInv
  PROVE  /\ committed \in Nat /\ snapshot \in Nat /\ high \in Nat /\ at \in Nat
         /\ snapshot <= committed /\ committed <= high
         /\ snapshot # NoHistory
<1>1. committed \in Ends /\ snapshot \in Ends /\ high \in Ends /\ at \in 0..Last
  BY DEF FilesInv, TypeOK
<1>2. committed \in 0..Last /\ snapshot \in 0..Last /\ high \in 0..Last
  BY <1>1, EndsArePlaces
<1>. QED BY <1>1, <1>2, StreamEdits DEF FilesInv, PhaseOK, NoHistory

\* Rebuilding the base writes the map the run has in memory, and a sidecar left
\* beside the new base changes nothing in it.
LEMMA RebuiltIsView ==
  ASSUME FilesInv, pc # "drop"
  PROVE  Rebuilt = MemoryView /\ ViewOf(Rebuilt, Changes) = MemoryView
<1>1. \A n \in Nodes : BaseCell(n) = base[n]
  BY BaseCellIsBase DEF FilesInv
<1>2. \A n \in Nodes : n \in deleted => overlay[n] = NoCell
  BY DEF FilesInv, SidecarIsUnambiguous
<1>3. ASSUME NEW n \in Nodes PROVE Rebuilt[n] = MemoryView[n]
  BY <1>1, <1>2 DEF Rebuilt, MemoryView, ViewOf, Changes
<1>4. Rebuilt = MemoryView
  BY <1>3 DEF Rebuilt, MemoryView, ViewOf
<1>5. ASSUME NEW n \in Nodes PROVE ViewOf(Rebuilt, Changes)[n] = MemoryView[n]
  BY <1>4 DEF MemoryView, ViewOf, Changes
<1>. QED BY <1>4, <1>5 DEF MemoryView, ViewOf

\* An edit moves one node of the map in memory.
LEMMA EditMoves ==
  ASSUME FilesInv, SetPosition \/ RemoveNode, NEW n \in Nodes
  PROVE  MemoryView'[n] = IF Stream[at + 1].node = n THEN Stream[at + 1].cell
                          ELSE MemoryView[n]
<1>1. Stream[at + 1].node \in Nodes
  BY EditIsInStream, StreamEdits
<1>2. CASE SetPosition
  BY <1>1, <1>2 DEF SetPosition, disk, MemoryView, ViewOf, Changes, FilesInv, TypeOK
<1>3. CASE RemoveNode
  BY <1>1, <1>3 DEF RemoveNode, disk, MemoryView, ViewOf, Changes, FilesInv, TypeOK
<1>. QED BY <1>2, <1>3

\* A sidecar that was not written because nothing changed is the empty one.
LEMMA PersistWrites ==
  ASSUME FilesInv, PersistDelta
  PROVE  delta' = Changes
<1>1. CASE Changed # 0
  BY <1>1 DEF PersistDelta, Changes
<1>2. CASE Changed = 0
  <2> DEFINE placed == {n \in Nodes : overlay[n] # NoCell}
  <2>1. IsFiniteSet(placed) /\ IsFiniteSet(deleted)
    BY NodesAreFinite, FS_Subset DEF FilesInv, TypeOK
  <2>2. Cardinality(placed) \in Nat /\ Cardinality(deleted) \in Nat
    BY <2>1, FS_CardinalityType
  <2>3. Cardinality(placed) = 0 /\ Cardinality(deleted) = 0
    BY <1>2, <2>2 DEF Changed
  <2>4. placed = {} /\ deleted = {}
    BY <2>1, <2>3, FS_EmptySet
  <2>5. \A n \in Nodes : delta.modified[n] = NoCell /\ n \notin delta.deleted
    BY <2>4 DEF PersistDelta, FilesInv, ChangesKept
  <2>6. delta.modified = overlay /\ delta.deleted = deleted
    BY <2>4, <2>5 DEF FilesInv, TypeOK
  <2>7. delta = [modified |-> delta.modified, deleted |-> delta.deleted]
    BY DEF FilesInv, TypeOK
  <2>. QED BY <1>2, <2>6, <2>7 DEF PersistDelta, Changes
<1>. QED BY <1>1, <1>2

-----------------------------------------------------------------------------
(* The map of positions.                                                   *)

\* Only an import and a persist change the positions on disk.
LEMMA DiskKept ==
  ASSUME FilesInv, MemoryIsReplay, ~PrepareCrashes, [Next]_vars,
         ~ \E place \in Ends : Import(place), ~PersistDelta
  PROVE  DiskView' = DiskView
<1>0. /\ ViewOf(base, NoChanges) = base
      /\ snapshot # NoHistory
      /\ history \in {snapshot, NoHistory}
      /\ pc = "sidecar" => history = NoHistory
      /\ Updating => history = NoHistory
  BY ViewsAreMaps, Places DEF FilesInv, PhaseOK
<1>1. CASE UNCHANGED vars
  BY <1>1 DEF vars, disk, DiskView, Prepared
<1>2. CASE Collapse
  BY <1>2 DEF Collapse, DiskView, Prepared
<1>3. CASE RemoveHistory
  <2>1. history = snapshot
    BY <1>3 DEF RemoveHistory, FilesInv, PhaseOK
  <2>. QED BY <1>0, <1>3, <2>1 DEF RemoveHistory, DiskView, Prepared
<1>4. CASE RemoveSidecar
  <2>1. base = Collapsed(snapshot)
    BY <1>4 DEF RemoveSidecar, FilesInv, PhaseOK
  <2>2. DiskView = base
    BY <1>4, <2>1 DEF RemoveSidecar, DiskView, Prepared
  <2>3. DiskView' = ViewOf(base, NoChanges)
    BY <1>0, <1>4 DEF RemoveSidecar, DiskView, Prepared
  <2>. QED BY <1>0, <2>2, <2>3
<1>5. CASE \/ \E end \in Ends : Start(end) \/ NextBatch(end)
           \/ SetPosition \/ RemoveNode \/ NodePassDone
           \/ \E refs \in SUBSET Nodes : ResolveWays(refs)
  <2>1. UNCHANGED disk /\ UNCHANGED snapshot /\ pc # "sidecar" /\ pc' # "sidecar"
    BY <1>5 DEF Start, NextBatch, SetPosition, RemoveNode, NodePassDone, ResolveWays
  <2>. QED BY <2>1 DEF disk, DiskView, Prepared
<1>6. CASE WriteManifest
  BY <1>6 DEF WriteManifest, DiskView, Prepared
<1>7. CASE RenameBase
  <2>1. pc = "rebuild" /\ delta = Changes /\ base' = Rebuilt /\ delta' = delta
        /\ history' = history /\ history = NoHistory /\ pc' = "drop"
    BY <1>0, <1>7 DEF RenameBase, MemoryIsReplay, Updating
  <2>2. DiskView = MemoryView
    BY <2>1 DEF DiskView, Prepared, MemoryView
  <2>3. DiskView' = ViewOf(Rebuilt, Changes)
    BY <2>1 DEF DiskView, Prepared
  <2>. QED BY <2>1, <2>2, <2>3, RebuiltIsView
<1>8. CASE DropDelta
  <2>1. pc = "drop" /\ base' = base /\ delta' = NoChanges /\ pc' = "idle"
        /\ history' = history /\ history = NoHistory
    BY <1>0, <1>8 DEF DropDelta, Updating
  <2>2. DiskView = base
    BY <2>1 DEF DiskView, Prepared, MemoryIsReplay
  <2>3. DiskView' = ViewOf(base, NoChanges)
    BY <2>1 DEF DiskView, Prepared
  <2>. QED BY <1>0, <2>2, <2>3
<1>9. CASE Crash
  <2>1. UNCHANGED disk /\ UNCHANGED snapshot /\ pc # "sidecar" /\ pc' = "idle"
    BY <1>9 DEF Crash
  <2>. QED BY <2>1 DEF disk, DiskView, Prepared
<1>. QED BY <1>1, <1>2, <1>3, <1>4, <1>5, <1>6, <1>7, <1>8, <1>9 DEF Next

\* A persist makes the map in memory the one on disk.
LEMMA PersistShows ==
  ASSUME FilesInv, PersistDelta
  PROVE  /\ DiskView' = MemoryView /\ MemoryView' = MemoryView
         /\ pc' = "manifest" /\ delta' = Changes'
<1>1. history = NoHistory
  BY DEF PersistDelta, FilesInv, PhaseOK, Updating
<1>2. delta' = Changes
  BY PersistWrites
<1>. QED BY <1>1, <1>2 DEF PersistDelta, memory, DiskView, Prepared, MemoryView, Changes

\* Every step keeps the map in memory the replayed one.
LEMMA ReplayKept ==
  ASSUME FilesInv, MemoryIsReplay, ~PrepareCrashes, [Next]_vars
  PROVE  MemoryIsReplay'
<1>1. CASE UNCHANGED vars
  BY <1>1 DEF vars, disk, memory, MemoryIsReplay, MemoryView, Changes, DiskView, Prepared
<1>2. CASE \E end \in Ends : Start(end)
  <2>1. /\ pc = "idle" /\ history = NoHistory /\ UNCHANGED disk /\ at' = committed
        /\ pc' = "nodes" /\ overlay' = delta.modified /\ deleted' = delta.deleted
    BY <1>2 DEF Start
  <2>2. MemoryView' = ViewOf(base, delta)
    BY <2>1 DEF MemoryView, Changes, disk, ViewOf
  <2>3. DiskView' = ViewOf(base, delta) /\ DiskView = ViewOf(base, delta)
    BY <2>1 DEF DiskView, Prepared, disk
  <2>4. Replay(DiskView, committed, committed) = DiskView
    BY ViewsAreMaps, Places, ReplayNothing
  <2>5. MemoryView' = Replay(DiskView', committed', at')
    BY <2>1, <2>2, <2>3, <2>4 DEF disk
  <2>. QED BY <2>1, <2>5 DEF MemoryIsReplay
<1>3. CASE SetPosition \/ RemoveNode
  <2>1. /\ pc = "nodes" /\ pc' = "nodes" /\ at' = at + 1 /\ committed' = committed
        /\ ~PersistDelta /\ ~ \E place \in Ends : Import(place)
    BY <1>3 DEF SetPosition, RemoveNode, disk, PersistDelta, Import
  <2>2. DiskView' = DiskView
    BY <2>1, DiskKept
  <2>3. committed <= at
    BY <2>1 DEF FilesInv, PhaseOK
  <2>4. MemoryView = Replay(DiskView, committed, at)
    BY <2>1 DEF MemoryIsReplay
  <2>5. ASSUME NEW n \in Nodes
        PROVE  MemoryView'[n] = Replay(DiskView, committed, at + 1)[n]
    BY <1>3, <2>3, <2>4, EditMoves, Places, ReplayStep
  <2>6. MemoryView' = Replay(DiskView, committed, at + 1)
    BY <2>5 DEF MemoryView, ViewOf, Replay
  <2>. QED BY <2>1, <2>2, <2>6 DEF MemoryIsReplay
<1>4. CASE \/ NodePassDone \/ \E end \in Ends : NextBatch(end)
           \/ \E refs \in SUBSET Nodes : ResolveWays(refs)
  <2>1. /\ pc \in {"nodes", "ways", "batch"} /\ pc' \in {"nodes", "ways", "batch"}
        /\ UNCHANGED <<disk, overlay, deleted, at, snapshot>>
    BY <1>4 DEF NodePassDone, NextBatch, ResolveWays, memory
  <2>2. MemoryView' = MemoryView /\ DiskView' = DiskView
    BY <2>1 DEF MemoryView, Changes, disk, DiskView, Prepared
  <2>. QED BY <2>1, <2>2 DEF MemoryIsReplay, disk
<1>5. CASE PersistDelta
  <2>1. MemoryView = Replay(DiskView, committed, at) /\ committed' = committed /\ at' = at
    BY <1>5 DEF PersistDelta, MemoryIsReplay, memory
  <2>2. Replay(MemoryView, committed, at) = MemoryView
    <3>1. ASSUME NEW n \in Nodes
          PROVE  Replay(MemoryView, committed, at)[n] = MemoryView[n]
      BY <2>1 DEF Replay
    <3>. QED BY <3>1 DEF Replay, MemoryView, ViewOf
  <2>. QED BY <1>5, <2>1, <2>2, PersistShows DEF MemoryIsReplay
<1>6. CASE WriteManifest
  <2>1. pc = "manifest" /\ delta' = delta
        /\ ((pc' = "rebuild" /\ UNCHANGED memory) \/ pc' = "idle")
    BY <1>6 DEF WriteManifest
  <2>. QED BY <2>1 DEF MemoryIsReplay, memory, Changes
<1>7. CASE RenameBase
  <2>1. pc = "rebuild" /\ pc' = "drop" /\ delta = Changes /\ delta' = delta
        /\ base' = Rebuilt /\ UNCHANGED memory
    BY <1>7 DEF RenameBase, MemoryIsReplay
  <2>2. base' = ViewOf(base', delta')
    BY <2>1, RebuiltIsView
  <2>3. delta' = Changes'
    BY <2>1 DEF memory, Changes
  <2>. QED BY <2>1, <2>2, <2>3 DEF MemoryIsReplay
<1>8. CASE \/ \E place \in Ends : Import(place)
           \/ Collapse \/ RemoveHistory \/ RemoveSidecar \/ DropDelta \/ Crash
  <2>1. pc' \in {"idle", "history", "sidecar"}
    BY <1>8 DEF Import, Collapse, RemoveHistory, RemoveSidecar, DropDelta, Crash
  <2>. QED BY <2>1 DEF MemoryIsReplay
<1>. QED BY <1>1, <1>2, <1>3, <1>4, <1>5, <1>6, <1>7, <1>8 DEF Next

\* Every step keeps an edited node where the stream puts it.
LEMMA TouchedKept ==
  ASSUME FilesInv, TouchedIsCurrent, [Next]_vars PROVE TouchedIsCurrent'
<1>1. CASE UNCHANGED vars
  BY <1>1 DEF vars, disk, memory, TouchedIsCurrent, Touched, MemoryView, Changes, AsOf
<1>2. CASE \E end \in Ends : Start(end)
  <2>1. at' = committed /\ committed' = committed
    BY <1>2 DEF Start, disk
  <2>2. \A n \in Nodes : EditsOf(n, committed, committed) = {}
    BY Places DEF EditsOf
  <2>. QED BY <2>1, <2>2 DEF TouchedIsCurrent, Touched
<1>3. CASE SetPosition \/ RemoveNode
  <2>1. /\ pc = "nodes" /\ at' = at + 1 /\ committed' = committed /\ snapshot' = snapshot
        /\ committed <= at
    BY <1>3 DEF SetPosition, RemoveNode, disk, FilesInv, PhaseOK
  <2>2. ASSUME NEW n \in Nodes, Touched(n)' PROVE MemoryView'[n] = AsOf(at + 1)[n]
    <3>1. AsOf(at + 1)[n] = IF Stream[at + 1].node = n THEN Stream[at + 1].cell
                            ELSE AsOf(at)[n]
      BY <2>1, Places, ReplayStep DEF AsOf
    <3>2. CASE Stream[at + 1].node = n
      BY <1>3, <3>1, <3>2, EditMoves
    <3>3. CASE Stream[at + 1].node # n
      <4>1. EditsOf(n, committed, at + 1) = EditsOf(n, committed, at)
        BY <3>3, <2>1, Places DEF EditsOf
      <4>2. Touched(n)
        BY <2>1, <2>2, <4>1 DEF Touched
      <4>3. MemoryView[n] = AsOf(at)[n]
        BY <2>1, <4>2 DEF TouchedIsCurrent
      <4>. QED BY <1>3, <3>1, <3>3, <4>3, EditMoves
    <3>. QED BY <3>2, <3>3
  <2>. QED BY <2>1, <2>2 DEF TouchedIsCurrent, AsOf
<1>4. CASE \/ NodePassDone \/ PersistDelta \/ \E end \in Ends : NextBatch(end)
           \/ \E refs \in SUBSET Nodes : ResolveWays(refs)
  <2>1. /\ pc \in {"nodes", "ways", "batch"}
        /\ UNCHANGED <<base, committed, overlay, deleted, at, snapshot>>
    BY <1>4 DEF NodePassDone, PersistDelta, NextBatch, ResolveWays, disk, memory
  <2>2. /\ MemoryView' = MemoryView
        /\ \A n \in Nodes : /\ Touched(n)' = Touched(n)
                            /\ AsOf(at)'[n] = AsOf(at)[n]
    BY <2>1 DEF MemoryView, Changes, Touched, AsOf
  <2>. QED BY <2>1, <2>2 DEF TouchedIsCurrent
<1>5. CASE \/ \E place \in Ends : Import(place)
           \/ Collapse \/ RemoveHistory \/ RemoveSidecar
           \/ WriteManifest \/ RenameBase \/ DropDelta \/ Crash
  <2>1. pc' \in {"idle", "history", "sidecar", "rebuild", "drop"}
    BY <1>5 DEF Import, Collapse, RemoveHistory, RemoveSidecar, WriteManifest, RenameBase,
       DropDelta, Crash
  <2>. QED BY <2>1 DEF TouchedIsCurrent
<1>. QED BY <1>1, <1>2, <1>3, <1>4, <1>5 DEF Next
-----------------------------------------------------------------------------
\* A node without edits in a part of the stream is in the same place before
\* and after it.
LEMMA UntouchedStays ==
  ASSUME FilesInv, NEW n \in Nodes, NEW from \in Nat, NEW upto \in Nat,
         snapshot <= from, from <= upto, EditsOf(n, from, upto) = {}
  PROVE  AsOf(upto)[n] = AsOf(from)[n]
BY Places, Untouched DEF AsOf

\* Every step keeps the cache at or ahead of the manifest.
LEMMA CacheKept ==
  ASSUME FilesInv, ViewInv, ~PrepareCrashes, [Next]_vars PROVE CacheHoldsCommitted'
<1>0. /\ committed \in Nat /\ snapshot \in Nat /\ high \in Nat /\ at \in Nat
      /\ snapshot <= committed /\ committed <= high
  BY Places
<1>1. CASE \E place \in Ends : Import(place)
  <2>1. PICK place \in Ends : Import(place)
    BY <1>1
  <2>2. /\ history' = place /\ committed' = place /\ snapshot' = place /\ high' = place
        /\ place \in Nat /\ place # NoHistory
    BY <2>1, EndsArePlaces DEF Import, NoHistory
  <2>3. DiskView' = Collapsed(place)
    BY <2>2 DEF DiskView, Prepared
  <2>4. Collapsed(place) \in [Nodes -> Cell0]
    BY <2>1, EndsArePlaces, PositionsAreCells
  <2>5. AsOf(place)' = Collapsed(place)
    BY <2>2, <2>4, ReplayNothing DEF AsOf
  <2>6. place \in committed'..high'
    BY <2>2
  <2>7. \A n \in Nodes : DiskView'[n] = AsOf(place)'[n]
    BY <2>3, <2>5
  <2>. QED BY <2>2, <2>6, <2>7 DEF CacheHoldsCommitted, AsOf
<1>2. CASE PersistDelta
  <2>1. /\ pc = "batch" /\ committed' = committed /\ snapshot' = snapshot
        /\ high' = (IF at > high THEN at ELSE high)
    BY <1>2 DEF PersistDelta
  <2>2. /\ DiskView' = MemoryView /\ committed <= at
        /\ MemoryView = Replay(DiskView, committed, at)
    BY <1>2, <2>1, PersistShows DEF ViewInv, MemoryIsReplay, FilesInv, PhaseOK
  <2>3. ASSUME NEW n \in Nodes
        PROVE  \E place \in committed..high' : DiskView'[n] = AsOf(place)[n]
    <3>1. CASE Touched(n)
      <4>1. DiskView'[n] = AsOf(at)[n]
        BY <2>1, <2>2, <3>1 DEF ViewInv, TouchedIsCurrent
      <4>2. at \in committed..high'
        BY <1>0, <2>1, <2>2
      <4>. QED BY <4>1, <4>2
    <3>2. CASE ~Touched(n)
      <4>1. DiskView'[n] = DiskView[n]
        BY <2>2, <3>2 DEF Touched, Replay
      <4>2. PICK place \in committed..high : DiskView[n] = AsOf(place)[n]
        BY DEF ViewInv, CacheHoldsCommitted
      <4>3. place \in committed..high'
        BY <1>0, <2>1, <4>2
      <4>. QED BY <4>1, <4>2, <4>3
    <3>. QED BY <3>1, <3>2
  <2>. QED BY <2>1, <2>3 DEF CacheHoldsCommitted, AsOf
<1>3. CASE WriteManifest
  <2>1. /\ pc = "manifest" /\ committed' = at /\ snapshot' = snapshot /\ high' = high
        /\ base' = base /\ delta' = delta /\ ~PersistDelta
        /\ ~ \E place \in Ends : Import(place)
    BY <1>3 DEF WriteManifest, PersistDelta, Import
  <2>2. committed <= at /\ at <= high /\ delta = Changes /\ history = NoHistory
    BY <2>1 DEF FilesInv, PhaseOK, Updating, ViewInv, MemoryIsReplay
  <2>3. DiskView' = DiskView
    BY <2>1, DiskKept DEF ViewInv
  <2>4. DiskView = MemoryView
    BY <2>1, <2>2 DEF DiskView, Prepared, MemoryView
  <2>5. ASSUME NEW n \in Nodes
        PROVE  \E place \in at..high : DiskView[n] = AsOf(place)[n]
    <3>1. CASE Touched(n)
      <4>1. DiskView[n] = AsOf(at)[n]
        BY <2>1, <2>4, <3>1 DEF ViewInv, TouchedIsCurrent
      <4>. QED BY <1>0, <2>2, <4>1
    <3>2. CASE ~Touched(n)
      <4>1. PICK place \in committed..high : DiskView[n] = AsOf(place)[n]
        BY DEF ViewInv, CacheHoldsCommitted
      <4>2. place \in Nat /\ committed <= place /\ place <= high
        BY <1>0, <4>1
      <4>3. CASE at <= place
        BY <1>0, <4>1, <4>2, <4>3
      <4>4. CASE place < at
        <5>1. EditsOf(n, place, at) = {}
          BY <1>0, <3>2, <4>2 DEF Touched, EditsOf
        <5>2. AsOf(at)[n] = AsOf(place)[n]
          BY <1>0, <4>2, <4>4, <5>1, UntouchedStays
        <5>. QED BY <1>0, <2>2, <4>1, <5>2
      <4>. QED BY <1>0, <4>2, <4>3, <4>4
    <3>. QED BY <3>1, <3>2
  <2>. QED BY <2>1, <2>3, <2>5 DEF CacheHoldsCommitted, AsOf
<1>4. CASE /\ ~PersistDelta /\ ~WriteManifest
           /\ ~ \E place \in Ends : Import(place)
  <2>1. UNCHANGED <<committed, high, snapshot>>
    BY <1>4 DEF Next, vars, disk, memory, Collapse, RemoveHistory, RemoveSidecar, Start,
       NextBatch, SetPosition, RemoveNode, NodePassDone, ResolveWays, RenameBase, DropDelta,
       Crash
  <2>2. DiskView' = DiskView
    BY <1>4, DiskKept DEF ViewInv
  <2>. QED BY <2>1, <2>2 DEF ViewInv, CacheHoldsCommitted, AsOf
<1>. QED BY <1>1, <1>2, <1>3, <1>4

LEMMA ViewInvInit == ASSUME Init, FilesInv PROVE ViewInv
<1>1. pc = "idle" /\ history = snapshot /\ committed = snapshot /\ high = snapshot
  BY DEF Init
<1>2. MemoryIsReplay /\ TouchedIsCurrent
  BY <1>1 DEF MemoryIsReplay, TouchedIsCurrent
<1>3. DiskView = Collapsed(snapshot)
  BY <1>1, Places DEF DiskView, Prepared
<1>4. AsOf(snapshot) = Collapsed(snapshot)
  BY Places, ViewsAreMaps, ReplayNothing DEF AsOf
<1>5. snapshot \in committed..high
  BY <1>1, Places
<1>. QED BY <1>2, <1>3, <1>4, <1>5 DEF ViewInv, CacheHoldsCommitted

LEMMA ViewInvHolds == ASSUME ~PrepareCrashes PROVE Spec => [](FilesInv /\ ViewInv)
<1>1. Init => FilesInv /\ ViewInv
  BY FilesInvInit, ViewInvInit
<1>2. FilesInv /\ ViewInv /\ [Next]_vars => ViewInv'
  <2> SUFFICES ASSUME FilesInv, ViewInv, [Next]_vars PROVE ViewInv'
    OBVIOUS
  <2>1. MemoryIsReplay'
    BY ReplayKept DEF ViewInv
  <2>2. TouchedIsCurrent'
    BY TouchedKept DEF ViewInv
  <2>3. CacheHoldsCommitted'
    BY CacheKept
  <2>. QED BY <2>1, <2>2, <2>3 DEF ViewInv
<1>. QED BY <1>1, <1>2, FilesInvHolds, PTL DEF Spec

\* Whatever was interrupted, the positions on disk are at or ahead of the
\* manifest's place, node by node, and at it exactly when no run is ahead.
THEOREM CacheHoldsCommittedTheorem ==
  ASSUME ~PrepareCrashes PROVE Spec => []CacheHoldsCommitted
<1>1. ViewInv => CacheHoldsCommitted
  BY DEF ViewInv
<1>. QED BY <1>1, ViewInvHolds, PTL
-----------------------------------------------------------------------------
\* What a run in step with the manifest has in memory is the stream's.
LEMMA MemoryIsStream ==
  ASSUME FilesInv, ViewInv, Running, InStep, NEW n \in Nodes
  PROVE  MemoryView[n] = AsOf(at)[n]
<1>1. CASE Touched(n)
  BY <1>1 DEF ViewInv, TouchedIsCurrent, Running
<1>2. CASE ~Touched(n)
  <2>1. MemoryView[n] = DiskView[n]
    BY <1>2 DEF ViewInv, MemoryIsReplay, Running, Touched, Replay
  <2>2. /\ committed \in Nat /\ at \in Nat /\ snapshot <= committed /\ committed <= at
    BY Places DEF FilesInv, PhaseOK, Running
  <2>3. \A place \in committed..high : place = committed
    BY <2>2 DEF InStep
  <2>4. DiskView[n] = AsOf(committed)[n]
    BY <2>3 DEF ViewInv, CacheHoldsCommitted
  <2>5. AsOf(at)[n] = AsOf(committed)[n]
    BY <1>2, <2>2, UntouchedStays DEF Touched
  <2>. QED BY <2>1, <2>4, <2>5
<1>. QED BY <1>1, <1>2

\* post() reads the map in memory, and pre() differs from it at deleted nodes.
LEMMA PostReadsMemory ==
  ASSUME FilesInv, Running, NEW n \in Nodes
  PROVE  /\ Post(n) = MemoryView[n]
         /\ MemoryView[n] # NoCell => Pre(n) = MemoryView[n]
<1>1. BaseCell(n) = base[n]
  BY BaseCellIsBase DEF FilesInv, Running
<1>2. MemoryView[n] = IF overlay[n] # NoCell THEN overlay[n]
                      ELSE IF n \in deleted THEN NoCell ELSE base[n]
  BY DEF MemoryView, Changes, ViewOf
<1>. QED BY <1>1, <1>2 DEF Post, Pre

\* A visible way of a run in step with the manifest is counted where the stream
\* puts its nodes, in whatever batches and runs their edits came.
THEOREM PostIsTheStreamTheorem ==
  ASSUME ~PrepareCrashes PROVE Spec => []PostIsTheStream
<1>1. FilesInv /\ ViewInv => PostIsTheStream
  BY MemoryIsStream, PostReadsMemory DEF PostIsTheStream
<1>. QED BY <1>1, ViewInvHolds, PTL

\* An edit is compared with, or counted at, the node's last known position.
THEOREM PriorCellIsLastKnownTheorem ==
  ASSUME ~PrepareCrashes PROVE Spec => PriorCellIsLastKnown
<1> DEFINE A == \A n \in Nodes :
       /\ InStep
       /\ SetPosition \/ RemoveNode
       /\ Stream[at + 1].node = n
       /\ ~Stream[at + 1].fresh
       /\ AsOf(at)[n] # NoCell
       => counted' = AsOf(at)[n]
<1>1. FilesInv /\ ViewInv /\ [Next]_vars => [A]_vars
  <2> SUFFICES ASSUME FilesInv, ViewInv, NEW n \in Nodes, InStep, SetPosition \/ RemoveNode,
                      Stream[at + 1].node = n, ~Stream[at + 1].fresh, AsOf(at)[n] # NoCell
               PROVE  counted' = AsOf(at)[n]
    OBVIOUS
  <2>1. Running
    BY DEF SetPosition, RemoveNode, Running
  <2>2. Pre(n) = AsOf(at)[n]
    BY <2>1, MemoryIsStream, PostReadsMemory
  <2>. QED BY <2>2 DEF SetPosition, RemoveNode
<1>. QED BY <1>1, ViewInvHolds, PTL DEF Spec, PriorCellIsLastKnown
-----------------------------------------------------------------------------
\* The map of NodeMap is the one of this module.
LEMMA MapOperators ==
  /\ \A place : Map!Collapsed(place) = Collapsed(place)
  /\ \A v, from, upto : Map!Replay(v, from, upto) = Replay(v, from, upto)
BY DEF Map!Collapsed, Map!Replay, Map!EditsOf, Map!Newest, Collapsed, Replay, EditsOf, Newest

\* The map starts as imported.
LEMMA MapInit == Init => Map!Init
<1> SUFFICES ASSUME Init PROVE Map!Init
  OBVIOUS
<1>1. committed \in Ends /\ history = committed /\ snapshot = committed
  BY DEF Init
<1>2. DiskView = Collapsed(committed)
  BY <1>1, EndsArePlaces DEF DiskView, Prepared, NoHistory
<1>. QED BY <1>1, <1>2, MapOperators DEF Map!Init

\* Every step is one of the map's, or does not show.
LEMMA MapStep ==
  ASSUME FilesInv, ViewInv, ~PrepareCrashes, [Next]_vars
  PROVE  [Map!Next]_<<DiskView, committed>>
<1>1. CASE \E place \in Ends : Import(place)
  <2>1. PICK place \in Ends : Import(place)
    BY <1>1
  <2>2. committed' = place /\ DiskView' = Collapsed(place)
    BY <2>1, EndsArePlaces DEF Import, DiskView, Prepared, NoHistory
  <2>3. Map!Import(place)
    BY <2>2, MapOperators DEF Map!Import
  <2>. QED BY <2>3 DEF Map!Next
<1>2. CASE PersistDelta
  <2>1. /\ pc = "batch" /\ committed' = committed /\ at \in Ends /\ committed < at
    BY <1>2 DEF PersistDelta, FilesInv, PhaseOK
  <2>2. DiskView' = Replay(DiskView, committed, at)
    BY <1>2, <2>1, PersistShows DEF ViewInv, MemoryIsReplay
  <2>3. Map!Record(at)
    BY <2>1, <2>2, MapOperators DEF Map!Record
  <2>. QED BY <2>1, <2>3 DEF Map!Next
<1>3. CASE WriteManifest
  <2>1. /\ pc = "manifest" /\ committed' = at /\ at \in Ends /\ committed < at
        /\ ~PersistDelta /\ ~ \E place \in Ends : Import(place)
    BY <1>3 DEF WriteManifest, PersistDelta, Import, FilesInv, PhaseOK
  <2>2. DiskView' = DiskView /\ Replay(DiskView, committed, at) = DiskView
    BY <2>1, DiskKept DEF ViewInv, MemoryIsReplay
  <2>3. Map!Commit(at)
    BY <2>1, <2>2, MapOperators DEF Map!Commit
  <2>. QED BY <2>1, <2>3 DEF Map!Next
<1>4. CASE /\ ~PersistDelta /\ ~WriteManifest
           /\ ~ \E place \in Ends : Import(place)
  <2>1. committed' = committed
    BY <1>4 DEF Next, vars, disk, memory, Collapse, RemoveHistory, RemoveSidecar, Start,
       NextBatch, SetPosition, RemoveNode, NodePassDone, ResolveWays, RenameBase, DropDelta,
       Crash
  <2>2. DiskView' = DiskView
    BY <1>4, DiskKept DEF ViewInv
  <2>. QED BY <2>1, <2>2
<1>. QED BY <1>1, <1>2, <1>3, <1>4

\* The base file, the sidecar, the manifest and what a run holds in memory
\* implement one map of positions, through crashes and compactions.
THEOREM ImplementsNodeMapTheorem ==
  ASSUME ~PrepareCrashes PROVE Spec => ImplementsNodeMap
<1>1. FilesInv /\ ViewInv /\ [Next]_vars => [Map!Next]_<<DiskView, committed>>
  BY MapStep
<1>. QED BY <1>1, MapInit, ViewInvHolds, PTL DEF Spec, ImplementsNodeMap, Map!Spec
=============================================================================
