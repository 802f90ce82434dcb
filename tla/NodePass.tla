------------------------------ MODULE NodePass ------------------------------
(***************************************************************************)
(* Pass 1 of the import: every node version of the full-history file is     *)
(* counted at its cell (a deletion at the node's last known one), and the   *)
(* history cache keeps one record per node and day, written block by block  *)
(* with a directory of first nodes at the end of the file.                  *)
(***************************************************************************)
EXTENDS Integers, Sequences, FiniteSets

CONSTANTS
  Cells,
  Days,       \* days since the epoch
  NoCell,     \* a version without a valid location (a deletion)
  BlockSize   \* records per block (kRecordsPerBlock)

ASSUME DaysAreNumbers == Days \subseteq Nat
ASSUME BlocksHoldRecords == BlockSize \in Nat \ {0}
ASSUME NoCellIsNoCell == NoCell \notin Cells

VARIABLES
  nodeFile,   \* the node versions of the input: [id, day, cell]
  nodePos,    \* versions read
  lastCell,   \* last known cell of the node being read
  blocks,     \* blocks written to the cache file
  buffer,     \* the block being filled
  pending,    \* <<>> or <<the record later versions of its day replace>>
  nodeCounts  \* what the pass counted, by cell and day

\* A finished file's blocks.
CacheRecords == [node : Int, day : Days, cell : Cells]
CacheFiles == Seq(Seq(CacheRecords))

cacheVars == <<blocks, buffer, pending>>
nodeVars == <<nodePos, lastCell, blocks, buffer, pending, nodeCounts>>

Keys == Cells \X Days
NoCounts == [k \in Keys |-> 0]
\* A full-history file is sorted: what matters of it is that a deletion comes
\* among the versions of its own node. A located version out of order throws.
NodeVersions == [id : Int, day : Days, cell : Cells \cup {NoCell}]
IsNodeFile(file) ==
  /\ file \in Seq(NodeVersions)
  /\ \A i, j \in DOMAIN file :
       (i < j /\ file[i].id = file[j].id /\ file[j].cell = NoCell) =>
         \A l \in i..j : file[l].id = file[j].id

Plus(c1, c2) == [k \in Keys |-> c1[k] + c2[k]]
Counted(counts, k) == [counts EXCEPT ![k] = @ + 1]

NodePassStart ==
  /\ nodePos' = 0 /\ lastCell' = NoCell
  /\ blocks' = <<>> /\ buffer' = <<>> /\ pending' = <<>>
  /\ nodeCounts' = NoCounts

-----------------------------------------------------------------------------
(* node_cache::Writer *)

\* The pending record enters the buffer, a full buffer becomes a block.
Filled == buffer \o pending
FlushPending ==
  IF Len(Filled) = BlockSize
  THEN blocks' = Append(blocks, Filled) /\ buffer' = <<>>
  ELSE buffer' = Filled /\ UNCHANGED blocks

\* add() refuses a node, or a day of the node, that comes before the last.
Unsorted(r) ==
  /\ pending # <<>>
  /\ \/ pending[1].node > r.node
     \/ pending[1].node = r.node /\ pending[1].day > r.day

SameDay(r) == pending # <<>> /\ pending[1].node = r.node /\ pending[1].day = r.day

\* Mutant: the first version of a day wins.
AddFirstWins(r) ==
  IF SameDay(r)
  THEN UNCHANGED cacheVars
  ELSE FlushPending /\ pending' = <<r>>

Add(r) ==
  IF SameDay(r)
  THEN pending' = <<r>> /\ UNCHANGED <<blocks, buffer>>
  ELSE FlushPending /\ pending' = <<r>>

\* finish(): the pending record and the last, partial block.
Finished == IF Filled = <<>> THEN blocks ELSE Append(blocks, Filled)

-----------------------------------------------------------------------------
(* node_cache::Reader, over the blocks of a finished file *)

Records(file) ==
  IF file = <<>> THEN 0 ELSE (Len(file) - 1) * BlockSize + Len(file[Len(file)])
Record(file, i) == file[(i \div BlockSize) + 1][(i % BlockSize) + 1]

\* Mutant: the last block whose first record is not above the node.
SweepStartAt(file, node) ==
  LET below == {b \in DOMAIN file : file[b][1].node <= node}
  IN  IF below = {} THEN 0 ELSE (Cardinality(below) - 1) * BlockSize

\* First record of the last block whose first record is below the node.
SweepStart(file, node) ==
  LET below == {b \in DOMAIN file : file[b][1].node < node}
  IN  IF below = {} THEN 0 ELSE (Cardinality(below) - 1) * BlockSize

-----------------------------------------------------------------------------
(* node_pass::NodeCacheHandler *)

MoreNodes == nodePos < Len(nodeFile)
Version == nodeFile[nodePos + 1]

\* Mutant: the last cell survives the change of node.
KnownCellOfAny == lastCell

\* The last known cell of the version's node: forgotten when the id changes.
KnownCell ==
  IF nodePos > 0 /\ nodeFile[nodePos].id = Version.id THEN lastCell ELSE NoCell

RecordOf(v) == [node |-> v.id, day |-> v.day, cell |-> v.cell]

ReadLocated ==
  /\ MoreNodes /\ Version.cell # NoCell
  /\ ~Unsorted(RecordOf(Version))
  /\ Add(RecordOf(Version))
  /\ lastCell' = Version.cell
  /\ nodeCounts' = Counted(nodeCounts, <<Version.cell, Version.day>>)
  /\ nodePos' = nodePos + 1

ReadDeleted ==
  /\ MoreNodes /\ Version.cell = NoCell
  /\ lastCell' = KnownCell
  /\ nodeCounts' = IF KnownCell = NoCell THEN nodeCounts
                   ELSE Counted(nodeCounts, <<KnownCell, Version.day>>)
  /\ nodePos' = nodePos + 1
  /\ UNCHANGED cacheVars

ReadNode == ReadLocated \/ ReadDeleted

\* The writer's exception ends the pass.
NodePassThrows == MoreNodes /\ Version.cell # NoCell /\ Unsorted(RecordOf(Version))
=============================================================================
