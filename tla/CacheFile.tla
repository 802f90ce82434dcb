----------------------------- MODULE CacheFile -----------------------------
(***************************************************************************)
(* The two loops of NodeState that walk the incremental cache's base file   *)
(* record by record, where a step is an iteration:                         *)
(*                                                                         *)
(*  - prefetch_base: the refs of a batch are resolved by one forward sweep  *)
(*    that starts at the block the directory gives for the smallest ref;    *)
(*  - rebuild: the base streams through in order, without the deleted nodes *)
(*    and with the overlay's cells, and the overlay nodes the base does not *)
(*    have are interleaved.                                                *)
(*                                                                         *)
(* The base's records are ascending, one per node, with the node's own cell: *)
(* a sweep's answer is whether it met the node, and a written record is told *)
(* from the base's by whether its cell is the overlay's.                   *)
(***************************************************************************)
EXTENDS Integers, Sequences, FiniteSets

CONSTANTS
  Ids,       \* node ids
  BlockSize  \* records per block (kRecordsPerBlock)

ASSUME IdsAreNumbers == Ids \subseteq Int /\ IsFiniteSet(Ids)
ASSUME BlocksHoldRecords == BlockSize \in Nat \ {0}

VARIABLES
  job,       \* "sweep" or "rebuild"
  base,      \* node ids of the base's records, in order
  rec,       \* the loop's place in the base (from 0, as in the code)
  pending,   \* the refs to resolve, in order
  p,         \* the sweep's place in them
  known,     \* the refs memoized with a cell
  absent,    \* the refs memoized as absent
  overlay,   \* nodes with a new cell
  deleted,   \* deleted nodes
  b,         \* the rebuild's place in the overlay nodes without a record
  written,   \* the new base's records: [node, new], new = the overlay's cell
  threw      \* the writer refused a record that was not ascending

memo == <<known, absent>>
output == <<b, written, threw>>
inputs == <<job, base, pending, overlay, deleted>>
vars == <<inputs, rec, p, memo, output>>

\* The elements of a set of ids in ascending order.
Ascending(S) ==
  CHOOSE s \in [1..Cardinality(S) -> S] :
    \A i, j \in DOMAIN s : i < j => s[i] < s[j]
Elements(s) == {s[i] : i \in DOMAIN s}

-----------------------------------------------------------------------------
\* The block directory: one entry per BlockSize records.
Blocks == (Len(base) + BlockSize - 1) \div BlockSize
FirstNode(block) == base[block * BlockSize + 1]

\* A round of the bisection for an id, over [lo, hi).
Halved(i, id) ==
  LET mid == i.lo + (i.hi - i.lo) \div 2
  IN  IF i.lo >= i.hi THEN i
      ELSE IF FirstNode(mid) < id THEN [lo |-> mid + 1, hi |-> i.hi]
      ELSE [lo |-> i.lo, hi |-> mid]

\* Its result: how many blocks begin below an id. There are no more rounds than
\* blocks.
BlocksBelow(id) ==
  LET Interval[n \in 0..Blocks] ==
        IF n = 0 THEN [lo |-> 0, hi |-> Blocks] ELSE Halved(Interval[n - 1], id)
  IN  Interval[Blocks].lo

\* Mutant: the sweep starts at the block after the last that begins below.
SweepStartAfter(id) == BlocksBelow(id) * BlockSize

\* First record of the last block whose first record is < id.
SweepStart(id) == IF BlocksBelow(id) > 0 THEN (BlocksBelow(id) - 1) * BlockSize ELSE 0

Init ==
  /\ base \in {Ascending(S) : S \in SUBSET Ids}
  /\ \/ /\ job = "sweep"
        /\ pending \in {Ascending(S) : S \in (SUBSET Ids) \ {{}}}
        /\ overlay = {} /\ deleted = {}
        /\ rec = SweepStart(pending[1])
     \/ /\ job = "rebuild"
        /\ pending = <<>>
        /\ overlay \in SUBSET Ids /\ deleted \in SUBSET (Ids \ overlay)
        /\ rec = 0
  /\ p = 0 /\ known = {} /\ absent = {}
  /\ b = 0 /\ written = <<>> /\ threw = FALSE

\* The record a loop is at.
InBase == rec < Len(base)
Node == base[rec + 1]

-----------------------------------------------------------------------------
(* prefetch_base *)

Resolving == job = "sweep" /\ p < Len(pending)
Want == pending[p + 1]

Advance ==
  /\ Resolving /\ InBase /\ Node < Want
  /\ rec' = rec + 1
  /\ UNCHANGED <<inputs, p, memo, output>>

Meet ==
  /\ Resolving /\ InBase /\ Node = Want
  /\ known' = known \cup {Want}
  /\ rec' = rec + 1 /\ p' = p + 1
  /\ UNCHANGED <<inputs, absent, output>>

\* Past the ref: it is absent, and the record is the next ref's to look at.
Pass ==
  /\ Resolving /\ InBase /\ Node > Want
  /\ absent' = absent \cup {Want}
  /\ p' = p + 1
  /\ UNCHANGED <<inputs, rec, known, output>>

\* Past the last record: whatever is left is absent.
RunOut ==
  /\ Resolving /\ ~InBase
  /\ absent' = absent \cup {Want}
  /\ p' = p + 1
  /\ UNCHANGED <<inputs, rec, known, output>>

-----------------------------------------------------------------------------
(* rebuild *)

Rebuilding == job = "rebuild" /\ ~threw

\* Overlay nodes without a base cell.
Extra == Ascending(overlay \ Elements(base))

\* Writer::add: ascending ids only, and the last of equal ones is kept.
Add(node, new) ==
  LET n == Len(written)
      r == [node |-> node, new |-> new]
      below == n > 0 /\ written[n].node > node
      again == n > 0 /\ written[n].node = node
  IN  /\ threw' = below
      /\ written' = IF below THEN written
                    ELSE IF again THEN [written EXCEPT ![n] = r]
                    ELSE Append(written, r)

\* A deleted node's record is not copied.
SkipDeleted ==
  /\ Rebuilding /\ InBase /\ Node \in deleted
  /\ rec' = rec + 1
  /\ UNCHANGED <<inputs, p, memo, output>>

\* Extra nodes before the record go first; after the last record, the rest.
AddExtra ==
  /\ Rebuilding /\ b < Len(Extra)
  /\ InBase => Node \notin deleted /\ Extra[b + 1] < Node
  /\ Add(Extra[b + 1], TRUE)
  /\ b' = b + 1
  /\ UNCHANGED <<inputs, rec, p, memo>>

\* Mutant: a record keeps the base's cell.
AddRecordOldCell ==
  /\ Rebuilding /\ InBase /\ Node \notin deleted
  /\ b < Len(Extra) => Extra[b + 1] >= Node
  /\ Add(Node, FALSE)
  /\ rec' = rec + 1
  /\ UNCHANGED <<inputs, p, memo, b>>

\* A base record, with the overlay's cell if there is one.
AddRecord ==
  /\ Rebuilding /\ InBase /\ Node \notin deleted
  /\ b < Len(Extra) => Extra[b + 1] >= Node
  /\ Add(Node, Node \in overlay)
  /\ rec' = rec + 1
  /\ UNCHANGED <<inputs, p, memo, b>>

-----------------------------------------------------------------------------
Next ==
  \/ Advance \/ Meet \/ Pass \/ RunOut
  \/ SkipDeleted \/ AddExtra \/ AddRecord

Spec == Init /\ [][Next]_vars

-----------------------------------------------------------------------------
\* Each ref the sweep has gone past is memoized as a lookup of its own would
\* answer it: the sweep starts early enough for the first ref, never runs past
\* a later one, and leaves none out (update.hpp).
SweepAnswersLookup ==
  LET passed == {pending[i] : i \in 1..p}
  IN  /\ known = passed \cap Elements(base)
      /\ absent = passed \ Elements(base)

\* The records reach the writer in ascending order, which throws otherwise, and
\* the new base is what post() answered: the overlay's cells, the base's for
\* the others, nothing for the deleted, and each node once.
RebuildIsThePostView ==
  /\ ~threw
  /\ (job = "rebuild" /\ ~InBase /\ b = Len(Extra)) =>
       /\ Elements(written) =
            {[node |-> n, new |-> TRUE] : n \in overlay} \cup
            {[node |-> n, new |-> FALSE] : n \in Elements(base) \ (overlay \cup deleted)}
       /\ Len(written) = Cardinality(Elements(written))
=============================================================================
