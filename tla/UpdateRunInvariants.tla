------------------------ MODULE UpdateRunInvariants ------------------------
(***************************************************************************)
(* The inductive invariants behind the safety properties of the update     *)
(* pipeline: what the disk and the process hold at each step of a run.     *)
(* They fall into three parts that only meet in the manifest.              *)
(***************************************************************************)
EXTENDS UpdateRunProperties

AfterMerge == CommitSteps \ {"tagcache", "merge"}

-----------------------------------------------------------------------------
(* The year partitions.                                                    *)

PartsDurable == \A d \in Committed : \A p \in Touches[d] : d \in merged[p]

YearStampsDelimit ==
  \A p \in Parts : merged[p] = {d \in 1..yearStamp[p[1]] : p \in Touches[d]}

\* A staging file holds rows of its own partition, of diffs up to its sequence.
StagingSound ==
  \A f \in staging : \A d \in f.diffs : d <= f.seq /\ f.part \in Touches[d]

\* The rows of d for p are staged under a sequence up to n.
RowsStaged(d, p, n) == \E f \in staging : f.part = p /\ f.seq <= n /\ d \in f.diffs

\* Where the rows of the run's diffs are: staged until the merge folds their
\* year, and in data.parquet from then on.
RunRowsKept ==
  /\ pc \in FetchSteps \union {"tagcache"} =>
       \A d \in RunDiffs : \A p \in Touches[d] : RowsStaged(d, p, applied)
  /\ pc = "scan" =>
       \A d \in batch : \A p \in Touches[d] : p[2] = "nodes" => RowsStaged(d, p, BatchSeq)
  /\ pc = "merge" =>
       \A d \in RunDiffs : \A p \in Touches[d] :
         IF p[1] \in todo THEN RowsStaged(d, p, applied) ELSE d \in merged[p]
  /\ pc \in AfterMerge => \A d \in RunDiffs : \A p \in Touches[d] : d \in merged[p]

\* A year the merge has finished has no staging left.
StagingDropped ==
  /\ pc = "merge" => \A f \in staging : f.part[1] \in todo
  /\ (pc \in AfterMerge /\ applied # base) => staging = {}

PartInv == /\ PartsDurable /\ YearStampsDelimit /\ StagingSound
           /\ RunRowsKept /\ StagingDropped

-----------------------------------------------------------------------------
(* The suspect stores, the ranking and the history.                        *)

SumsKept == Sums \ {"langs"}

StageOf(s) == IF s \in Stores THEN s ELSE "history"

SumsDurable == \A d \in Committed : \A s \in SumsKept : d \in Rows(s) => d \in folded[s]

StoreStampsDelimit ==
  \A s \in FoldedStores : folded[s] = {d \in 1..storeStamp[s] : s \in Feeds[d]}

\* A stage directory holds rows of its own stage, of diffs up to its sequence; a
\* run that has something to apply sees only its own directories.
StageSound ==
  \A s \in Stages : \A b \in stage[s] :
    /\ \A d \in b.diffs : d <= b.seq /\ s \in Feeds[d]
    /\ pc \notin {"idle", "manifest"} => b.seq <= applied

InStage(s, d) == \E b \in stage[s] : d \in b.diffs

\* The steps of a commit after the one that sums stage directories into s.
FoldedAt(s) ==
  CommitSteps \ ({"tagcache", "merge", "counts"}
    \union (IF s \in {"cells", "tags", "ranking", "history"} THEN {"cells"} ELSE {})
    \union (IF s \in {"tags", "ranking", "history"} THEN {"tags"} ELSE {})
    \union (IF s \in {"ranking", "history"} THEN {"moves", "langs", "ranking"} ELSE {})
    \union (IF s = "history" THEN {"history"} ELSE {}))

\* The rows of the run's diffs are staged until they are summed into the output.
RunSumsKept ==
  \A s \in SumsKept : \A d \in RunDiffs \intersect Rows(s) :
    /\ pc \in FoldedAt(s) => d \in folded[s]
    /\ pc \notin FoldedAt(s) \union {"idle"} => InStage(StageOf(s), d)

SumInv == SumsDurable /\ StoreStampsDelimit /\ StageSound /\ RunSumsKept

-----------------------------------------------------------------------------
(* The caches and the far moves.                                           *)

CachesDurable == \A d \in Committed : d \in nodeCache /\ d \in tagCache

RunCachesKept ==
  /\ pc \in CommitSteps \ {"tagcache"} => RunDiffs \subseteq tagCache
  /\ pc = "manifest" => RunDiffs \subseteq nodeCache

\* A far move the node cache has not absorbed is staged, then a flag of the run,
\* then flagged in the history, then listed.
RunMovesKept ==
  \A d \in RunDiffs :
    ("moves" \in Feeds[d] /\ d \notin nodeCache) =>
      /\ pc \in FetchSteps \union {"tagcache", "merge", "counts", "cells", "tags", "moves"} =>
           InStage("moves", d)
      /\ pc \in {"langs", "ranking", "history"} => d \in moveFlags
      /\ pc \in {"suspects", "nodecache"} => d \in flagged
      /\ pc = "nodecache" => d \in suspects

CacheInv == CachesDurable /\ FarMovesSurvive /\ RunCachesKept /\ RunMovesKept

-----------------------------------------------------------------------------
(* What the refinement of the ledger needs besides.                        *)

\* An output holds only diffs with rows for it, and repeats only what it holds.
ContentSound ==
  /\ \A p \in Parts : remerged[p] \subseteq merged[p]
  /\ \A s \in SumsKept : folded[s] \subseteq Rows(s) /\ refolded[s] \subseteq folded[s]

\* A mirror that is never behind itself gives no state before the manifest's.
PlanSound == (~StaleMirror /\ pc # "idle") => source.seq <= current

-----------------------------------------------------------------------------
(* Counting once.                                                          *)

NoCrashes == MaxCrashes = 0

\* Every run that starts from the same manifest aims at the same sequence: one
\* cap, nothing left to publish, no download that fails.
SameTarget == Published0 = MaxSeq /\ MaxFailures = 0 /\ \A b, c \in Caps : b = c

\* The runs that may count on the stamps: see MergeAppliesOnceTheorem.
Repeatable == NoCrashes \/ SameTarget

\* The sequence runs of the same target aim at.
Goal == CHOOSE g \in 0..MaxSeq : \E cap \in Caps : g = Target(MaxSeq, cap)

\* A batch that begins after a, in a run to t, ends at n.
BatchEnds(a, n, t) ==
  /\ n \in (a + 1)..t
  /\ n = t \/ TimeBatchFull((a + 1)..n)
  /\ \A m \in (a + 1)..(n - 1) : ~TimeBatchFull((a + 1)..m)

\* Where a run from b to t cuts the stream: the smallest set that has b and, with
\* every place, the end of the batch that begins there.
Closed(C, b, t) == b \in C /\ \A a \in C : \A n \in b..t : BatchEnds(a, n, t) => n \in C

Cuts(b, t) == {n \in b..t : \A C \in SUBSET (b..t) : Closed(C, b, t) => n \in C}

\* A run of the same target goes to the goal and cuts the stream at the cuts.
GoalFollowed ==
  SameTarget =>
    /\ published = MaxSeq /\ ~stopped
    /\ pc # "idle" => current = MaxSeq /\ target = Goal
    /\ pc \in FetchSteps => applied \in Cuts(base, target)
    /\ pc = "fetch" => \A m \in (applied + 1)..(seq - 1) : ~TimeBatchFull((applied + 1)..m)
    /\ pc \in {"nodes", "scan"} => BatchEnds(applied, BatchSeq, target)
    /\ pc \in CommitSteps => applied = base \/ applied = target

\* So does the staging that interrupted runs have left.
StagingOnCuts ==
  SameTarget =>
    \A f \in staging : \E a \in Cuts(source.seq, Goal) :
      BatchEnds(a, f.seq, Goal) /\ f.diffs \subseteq (a + 1)..f.seq

\* Without crashes there is no staging but the run's own.
StagingIsOwn ==
  NoCrashes =>
    \A f \in staging :
      /\ pc # "idle" /\ ~f.torn /\ base < f.seq
      /\ f.seq <= applied \/ (pc = "scan" /\ f.seq = BatchSeq)

\* Files to be summed into the same place have no diff in common, and none with
\* what is committed.
Apart(fs) == \A f, g \in fs : f # g => f.diffs \intersect g.diffs = {}

StagingFresh ==
  /\ \A f \in staging : \A d \in f.diffs : d > source.seq
  /\ \A p \in Parts : Apart({f \in staging : f.part = p})

StageFresh ==
  /\ pc \notin {"idle", "manifest"} =>
       \A s \in Stages : Apart(stage[s]) /\ \A b \in stage[s] : \A d \in b.diffs : d > base
  /\ pc = "langs" => stage["langs"] = {}

\* A stamp past the manifest is of this run, or of an interrupted one that had the
\* same goal.
StampsAhead(n) ==
  n > source.seq => (pc \in CommitSteps /\ n = applied) \/ (~NoCrashes /\ n = Goal)

StampsOfRuns ==
  /\ \A y \in Years : StampsAhead(yearStamp[y])
  /\ \A s \in FoldedStores : StampsAhead(storeStamp[s])

OnceInv == /\ GoalFollowed /\ StagingOnCuts /\ StagingIsOwn /\ StagingFresh
           /\ StageFresh /\ StampsOfRuns /\ MergeAppliesOnce /\ StoresFoldOnce

\* Without crashes what has no stamp holds nothing past the manifest either, until
\* this run adds to it.
UpTo(late) == 1..(IF late THEN applied ELSE source.seq)

ExactInv ==
  NoCrashes =>
    /\ \A s \in {"ranking", "history"} :
         folded[s] \subseteq UpTo(pc \in FoldedAt(s)) /\ refolded[s] = {}
    /\ nodeCache \subseteq UpTo(pc = "manifest")
    /\ tagCache \subseteq UpTo(pc \in CommitSteps \ {"tagcache"})

-----------------------------------------------------------------------------
(* The recorded timestamp.                                                 *)

\* What the server promises of its timestamps: state.txt is not older than the
\* edits up to its sequence, and the newest edit of a diff is not older than the
\* newest before it.
TimesInOrder ==
  /\ \A n \in 0..MaxSeq : \A d \in 1..n : \A t \in Times[d] : t <= StateTime[n]
  /\ \A e \in Seqs : \A d \in 1..e : \A t \in Times[d] :
       Times[e] # {} => \E u \in Times[e] : t <= u

\* appliedTs is that of the newest edit applied, if the run has applied any.
TimesApplied ==
  /\ pc = "idle" => appliedTs = 0
  /\ pc \in CommitSteps => applied <= current \/ applied = base
  /\ (pc # "idle" /\ appliedTs > 0) => \A d \in 1..applied : \A t \in Times[d] : t <= appliedTs
=============================================================================
