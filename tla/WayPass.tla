------------------------------ MODULE WayPass ------------------------------
(***************************************************************************)
(* Pass 2 of the import: a way version is counted once in each cell its     *)
(* nodes were in on the version's day, a deletion on the geometry of the    *)
(* version before it. Refs are collected into batches that end between two  *)
(* ways and are resolved by one forward sweep over the history cache.       *)
(***************************************************************************)
EXTENDS NodePass

VARIABLES
  cache,      \* blocks of the history cache file the pass reads
  wayFile,    \* the way versions of the input: [id, day, visible, nodes]
  batchRefs,  \* refs that fill a batch (--way-batch-mb)
  wayPos,     \* versions read
  refs,       \* the batch's refs: [node, day, slot]
  slots,      \* per version of the batch: its day and the deletions after it
  carry,      \* {} or {cells of the last version rendered in earlier batches}
  wayCounts   \* what the pass counted

WayVersions == [id : Int, day : Days, visible : BOOLEAN, nodes : Seq(Int)]

wayVars == <<wayPos, refs, slots, carry, wayCounts>>

WayPassStart ==
  /\ wayPos' = 0 /\ refs' = <<>> /\ slots' = <<>>
  /\ carry' = {} /\ wayCounts' = NoCounts

-----------------------------------------------------------------------------
(* flush_batch *)

KeyBefore(r, s) ==
  \/ r.node < s.node
  \/ r.node = s.node /\ r.day < s.day
  \/ r.node = s.node /\ r.day = s.day /\ r.slot < s.slot

\* A batch's refs by node, day and slot: each where its rank puts it.
Rank(batch, i) ==
  Cardinality({j \in DOMAIN batch : \/ KeyBefore(batch[j], batch[i])
                                    \/ batch[j] = batch[i] /\ j <= i})
Sorted(batch) ==
  [n \in DOMAIN batch |-> batch[CHOOSE i \in DOMAIN batch : Rank(batch, i) = n]]

\* Where the sweep stops for a ref: at the first record past it.
Beyond(r, from) ==
  CHOOSE i \in from..Records(cache) :
    /\ \/ i = Records(cache)
       \/ Record(cache, i).node > r.node
       \/ Record(cache, i).node = r.node /\ Record(cache, i).day > r.day
    /\ \A j \in from..(i - 1) :
         \/ Record(cache, j).node < r.node
         \/ Record(cache, j).node = r.node /\ Record(cache, j).day <= r.day

\* The sweep: record reached and cell found, ref by ref. Equal keys share the
\* answer; otherwise only records not yet passed are looked at.
Resolved(r, last) ==
  LET stop == Beyond(r, last.rec)
      met == stop > last.rec /\ Record(cache, stop - 1).node = r.node
  IN  [rec |-> stop, cell |-> IF met THEN Record(cache, stop - 1).cell ELSE NoCell]
SameKey(r, s) == r.node = s.node /\ r.day = s.day
Sweep(order) ==
  LET Answer[i \in 0..Len(order)] ==
        IF i = 0 THEN [rec |-> SweepStart(cache, order[1].node), cell |-> NoCell]
        ELSE IF i > 1 /\ SameKey(order[i], order[i - 1]) THEN Answer[i - 1]
        ELSE Resolved(order[i], Answer[i - 1])
  IN  Answer

\* Distinct cells of a slot's resolved refs.
Rendered(batch, ways) ==
  LET order == Sorted(batch)
      answer == Sweep(order)
  IN  [s \in DOMAIN ways |->
        {answer[i].cell : i \in {j \in DOMAIN batch : order[j].slot = s}} \ {NoCell}]

\* Mutant: everything the batch rendered.
BatchGeometry(rendered) == {UNION {rendered[s] : s \in DOMAIN rendered}}

\* The geometry deletions in the next batches count on.
LastGeometry(rendered) == {rendered[Len(rendered)]}

\* What the versions of a batch and the deletions after them count.
BatchCounts(ways, rendered) ==
  [k \in Keys |->
     LET here == {s \in DOMAIN ways : k[1] \in rendered[s]}
     IN  Cardinality({s \in here : ways[s].day = k[2]})
           + Cardinality({d \in here \X (1..Len(wayFile)) :
                            /\ d[2] \in DOMAIN ways[d[1]].deletions
                            /\ ways[d[1]].deletions[d[2]] = k[2]})]

Flush ==
  /\ slots # <<>>
  /\ LET rendered == Rendered(refs, slots)
     IN  /\ wayCounts' = Plus(wayCounts, BatchCounts(slots, rendered))
         /\ carry' = LastGeometry(rendered)
  /\ refs' = <<>> /\ slots' = <<>>

-----------------------------------------------------------------------------
(* WayProcessor::way *)

MoreWays == wayPos < Len(wayFile)
Way == wayFile[wayPos + 1]
BatchIsFull == Len(refs) >= batchRefs

ReadVisible ==
  /\ MoreWays /\ ~BatchIsFull /\ Way.visible
  /\ IF Way.nodes = <<>> THEN UNCHANGED <<slots, refs>>
     ELSE /\ slots' = Append(slots, [day |-> Way.day, deletions |-> <<>>])
          /\ refs' = refs \o [i \in DOMAIN Way.nodes |->
                        [node |-> Way.nodes[i], day |-> Way.day, slot |-> Len(slots) + 1]]
  /\ wayPos' = wayPos + 1
  /\ UNCHANGED <<carry, wayCounts>>

\* In the batch of the version it deletes.
ReadDeletionInBatch ==
  /\ MoreWays /\ ~BatchIsFull /\ ~Way.visible /\ slots # <<>>
  /\ slots' = [slots EXCEPT ![Len(slots)].deletions = Append(@, Way.day)]
  /\ wayPos' = wayPos + 1
  /\ UNCHANGED <<refs, carry, wayCounts>>

\* In a later batch: on the carried geometry, if there is one.
ReadDeletionAfterBatch ==
  /\ MoreWays /\ ~BatchIsFull /\ ~Way.visible /\ slots = <<>>
  /\ wayCounts' = [k \in Keys |->
        wayCounts[k] + (IF k[2] = Way.day /\ k[1] \in UNION carry THEN 1 ELSE 0)]
  /\ wayPos' = wayPos + 1
  /\ UNCHANGED <<refs, slots, carry>>

\* A batch ends with the way that fills it, and with the file.
EndBatch == (BatchIsFull \/ ~MoreWays) /\ Flush /\ UNCHANGED wayPos

ReadWay == ReadVisible \/ ReadDeletionInBatch \/ ReadDeletionAfterBatch \/ EndBatch

WayPassDone == ~MoreWays /\ slots = <<>>
=============================================================================
