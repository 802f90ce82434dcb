------------------------ MODULE UpdateRunProperties ------------------------
(***************************************************************************)
(* The properties of the update pipeline of UpdateRun.                     *)
(***************************************************************************)
EXTENDS UpdateRun

Committed == 1..source.seq

\* The suspect stores that run_update_mode does fold (see LangsAreFolded).
FoldedStores == Stores \ {"langs"}

\* The diffs with rows for an output that is a sum.
Rows(s) == {d \in Seqs : (IF s \in Stores THEN s ELSE "history") \in Feeds[d]}

-----------------------------------------------------------------------------
(* Properties that survive crashes at any step.                            *)

\* The manifest is written last: whatever sequence it records, the year
\* partitions, the suspect stores, the ranking and the history hold every diff
\* up to it, and so do both caches the next run starts from.
CommittedIsDurable ==
  \A d \in Committed :
    /\ \A p \in Touches[d] : d \in merged[p]
    /\ \A s \in Sums \ {"langs"} : d \in Rows(s) => d \in folded[s]
    /\ d \in nodeCache
    /\ d \in tagCache

\* A store "always holds a prefix of the replication stream" (fold_minute_counts):
\* the stamp of a suspect store or of a year's data.parquet tells exactly which
\* diffs it holds, whatever crashed run wrote it and whatever staging it found.
StampsDelimitContent ==
  /\ \A y \in Years : \A k \in Kinds :
       merged[<<y, k>>] = {d \in 1..yearStamp[y] : <<y, k>> \in Touches[d]}
  /\ \A s \in FoldedStores :
       folded[s] = {d \in 1..storeStamp[s] : s \in Feeds[d]}

\* The move flags are derived from positions before the diff, which the node
\* cache forgets when it absorbs the diff.  They are written before it does, so
\* no far move is ever lost (persist_delta comes after run_update_finalize).
FarMovesSurvive ==
  \A d \in nodeCache : "moves" \in Feeds[d] => d \in flagged \intersect suspects

\* After the merge no staging file is left under changes/, not even one a crashed
\* run staged under a sequence this run never reaches.
MergeConsumesStaging ==
  (pc \in CommitSteps \ {"tagcache", "merge"} /\ applied # base) => staging = {}

-----------------------------------------------------------------------------
(* Properties of runs that are not interrupted.                            *)

\* Between runs the dataset is exactly the diffs up to the recorded sequence, each
\* counted once, however the runs were capped, batched or cut short by a failed
\* download.
AtRestIsExactPrefix ==
  pc = "idle" =>
    /\ \A p \in Parts : /\ merged[p] = {d \in Committed : p \in Touches[d]}
                        /\ remerged[p] = {}
    /\ \A s \in Sums \ {"langs"} : /\ folded[s] = Rows(s) \intersect Committed
                                   /\ refolded[s] = {}
    /\ nodeCache = Committed
    /\ tagCache = Committed
    /\ staging = {}

\* The recorded timestamp is never before an edit of the recorded diffs, so no
\* reader takes the dataset to end before it does, be the run capped, cut short
\* in any batch or complete.
TimestampCoversDiffs ==
  source.ok => \A d \in Committed : \A t \in Times[d] : t <= source.ts

-----------------------------------------------------------------------------
(* Counting once in spite of crashes, and what breaks it.                  *)

\* merge_update_partitions never sums a diff into data.parquet twice
\* (HOW_IT_WORKS.md: "a crash after the merge rename ... is a no-op").
MergeAppliesOnce == \A p \in Parts : remerged[p] = {}

\* fold_minute_counts, fold_cell_counts and fold_tag_counts never sum a diff
\* twice ("a rerun advancing past the stamp re-merges only the newly staged
\* sequences").
StoresFoldOnce == \A s \in Stores : refolded[s] = {}

\* run_update_finalize never adds a diff to the ranking totals or to the daily
\* history twice.
HistoryFoldsOnce == refolded["ranking"] = {} /\ refolded["history"] = {}

\* "The manifest's source block is updated to reflect the highest applied sequence
\* ... once per run" (HOW_IT_WORKS.md): between runs none of which crashed, the
\* dataset has absorbed no diff past the recorded sequence.
RecordedIsHighestApplied == pc = "idle" => nodeCache \subseteq Committed

\* The name-language store holds every committed diff.
LangsAreFolded == \A d \in Committed : "langs" \in Feeds[d] => d \in folded["langs"]

-----------------------------------------------------------------------------
(* Progress.                                                               *)

\* Every published diff is eventually committed for good, in spite of a bounded
\* number of crashes and of failed downloads: only a file that a crash left
\* without its end, a staging file or the manifest, can stop the runs for ever.
HalfWritten == ~source.ok \/ \E f \in staging : f.torn
CatchesUp == \A n \in Seqs : <>[](published >= n => source.seq >= n \/ HalfWritten)

-----------------------------------------------------------------------------
(* The pipeline implements the ledger.                                     *)

LedgerOutputs == ({"part"} \X Parts) \union ({"sum"} \X (Sums \ {"langs"}))

LedgerNeeds == [o \in LedgerOutputs |->
  IF o[1] = "sum" THEN Rows(o[2]) ELSE {d \in Seqs : o[2] \in Touches[d]}]

LedgerContent == [o \in LedgerOutputs |->
  IF o[1] = "sum" THEN folded[o[2]] ELSE merged[o[2]]]

LedgerRepeated == [o \in LedgerOutputs |->
  IF o[1] = "sum" THEN refolded[o[2]] ELSE remerged[o[2]]]

AtLeastOnce == INSTANCE DiffLedger WITH
  Outputs <- LedgerOutputs, Needs <- LedgerNeeds, AtMostOnce <- FALSE,
  content <- LedgerContent, repeated <- LedgerRepeated, committed <- source.seq

ExactlyOnce == INSTANCE DiffLedger WITH
  Outputs <- LedgerOutputs, Needs <- LedgerNeeds, AtMostOnce <- TRUE,
  content <- LedgerContent, repeated <- LedgerRepeated, committed <- source.seq

\* In spite of crashes the runs implement the ledger that may count a diff twice
\* but commits no sequence before every output has absorbed the diffs up to it.
ImplementsAtLeastOnce == AtLeastOnce!Spec

\* Without crashes they implement the ledger that counts every diff once.
ImplementsExactlyOnce == ExactlyOnce!Spec
=============================================================================
