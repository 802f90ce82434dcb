-------------------------- MODULE UpdateRunProofs ---------------------------
(***************************************************************************)
(* Theorems about the update pipeline, for every stream of diffs, every    *)
(* set of years, every bound and every placement of the crashes.           *)
(*   - Where a run stands at each of its steps, and that no diff is lost   *)
(*     between the staging files of a run and data.parquet, where a year's *)
(*     stamp delimits what it holds.                                       *)
(*   - The sums, the caches and the far moves: what the manifest records   *)
(*     is durable, and the pipeline implements the ledger of DiffLedger,   *)
(*     in spite of crashes, if the mirror it follows never serves an older *)
(*     state.txt than before.                                              *)
(*   - When the pipeline counts a diff once: if no run is interrupted, or  *)
(*     if the runs after an interrupted one have the same target.  And the *)
(*     timestamp it records.                                               *)
(***************************************************************************)
EXTENDS UpdateRunInvariants, TLAPS

-----------------------------------------------------------------------------
(* Where a run stands: what its local variables mean at each step.         *)

RunOK ==
  /\ source.seq <= published
  /\ current <= published
  /\ target <= current
  /\ pc = "idle" => batch = {}
  /\ pc # "idle" => base = source.seq
  /\ pc \in FetchSteps =>
       /\ base <= applied
       /\ applied < target
       /\ applied < seq
       /\ seq <= target + 1
       /\ batch = (applied + 1)..(seq - 1)
  /\ pc = "fetch" => seq <= target
  /\ pc \in {"nodes", "scan"} => applied + 1 < seq
  /\ pc \in CommitSteps =>
       /\ base <= applied
       /\ applied <= published
       /\ pc # "manifest" => base < applied
       /\ applied = base => current <= base

Inv1 == TypeOK /\ RunOK

USE BoundsAssumption DEF TypeOK, DiskTypeOK, ProcessTypeOK, WorldTypeOK

LEMMA Init1 == Init => Inv1
<1> SUFFICES ASSUME Init PROVE Inv1
  OBVIOUS
<1>1. source \in [seq : 0..MaxSeq, ts : Nat, ok : BOOLEAN] /\ published \in 0..MaxSeq
  BY StreamAssumption DEF Init
<1>2. /\ staging \subseteq StagingFile
      /\ merged \in [Parts -> SUBSET Seqs] /\ remerged \in [Parts -> SUBSET Seqs]
      /\ stage \in [Stages -> SUBSET StageDir]
      /\ folded \in [Sums -> SUBSET Seqs] /\ refolded \in [Sums -> SUBSET Seqs]
      /\ yearStamp \in [Years -> 0..MaxSeq] /\ storeStamp \in [Stores -> 0..MaxSeq]
  BY DEF Init, NoStage
<1>3. /\ diffs \subseteq Seqs /\ flagged \subseteq Seqs /\ suspects \subseteq Seqs
      /\ tagCache \subseteq Seqs /\ nodeCache \subseteq Seqs
      /\ batch \subseteq Seqs /\ todo \subseteq Years /\ moveFlags \subseteq Seqs
  BY DEF Init, Idle
<1>4. pc \in {"idle"} \union FetchSteps \union CommitSteps
  BY DEF Init, Idle
<1>7. stopped \in BOOLEAN
  BY DEF Init, Idle
<1>8. /\ current \in 0..MaxSeq /\ base \in 0..MaxSeq /\ target \in 0..MaxSeq
      /\ seq \in 0..(MaxSeq + 1) /\ applied \in 0..MaxSeq /\ appliedTs \in Nat
      /\ crashes \in 0..MaxCrashes /\ failures \in 0..MaxFailures
  BY DEF Init, Idle
<1>5. TypeOK
  BY <1>1, <1>2, <1>3, <1>4, <1>7, <1>8 DEF TypeOK
<1>6. RunOK
  BY DEF Init, RunOK, Idle, FetchSteps, CommitSteps
<1>. QED BY <1>5, <1>6 DEF Inv1

LEMMA StartKeepsInv1 == ASSUME Inv1, NEW cap \in Caps, Start(cap) PROVE Inv1'
<1> USE DEF Inv1
<1>1. PICK cur \in FetchedState : 
       /\ current' = cur
       /\ base' = source.seq
       /\ target' = Target(cur, cap)
       /\ seq' = source.seq + 1
       /\ applied' = source.seq
       /\ diffs' = {d \in diffs : d > source.seq}
       /\ IF source.seq + 1 > Target(cur, cap)
          THEN pc' = "manifest" /\ UNCHANGED stage
          ELSE pc' = "fetch" /\ stage' = NoStage
  BY DEF Start
<1>2. /\ source.seq \in 0..MaxSeq /\ published \in 0..MaxSeq /\ cap \in Nat
      /\ source.seq <= published
  BY RunAssumption DEF TypeOK, RunOK
<1>3. cur \in 0..published
  BY <1>2 DEF FetchedState
<1>4. Target(cur, cap) \in 0..cur
  BY <1>2, <1>3 DEF Target
<1>9. diffs' \subseteq Seqs
  BY <1>1 DEF TypeOK
<1>10. stage' \in [Stages -> SUBSET StageDir]
  BY <1>1 DEF TypeOK, NoStage
<1>7. /\ current' \in 0..MaxSeq
      /\ base' \in 0..MaxSeq
      /\ target' \in 0..MaxSeq
      /\ seq' \in 0..(MaxSeq + 1)
      /\ applied' \in 0..MaxSeq
  BY <1>1, <1>2, <1>3, <1>4
<1>8. pc' \in {"idle"} \union FetchSteps \union CommitSteps
  BY <1>1 DEF FetchSteps, CommitSteps
<1>5. TypeOK'
  BY <1>7, <1>8, <1>9, <1>10 DEF Start, TypeOK, partVars, storeVars, flagVars, cacheVars, workVars, envVars
<1>6. RunOK'
  <2>1. batch' = {} /\ published' = published /\ source' = source /\ pc = "idle"
    BY DEF Start, RunOK, envVars
  <2>2. CASE source.seq + 1 > Target(cur, cap)
    <3>1. pc' = "manifest" /\ Target(cur, cap) = cur
      BY <1>1, <1>2, <1>3, <2>2 DEF Target
    <3>. QED
      BY <1>1, <1>2, <1>3, <1>4, <2>1, <2>2, <3>1 DEF RunOK, FetchSteps, CommitSteps
  <2>3. CASE ~ (source.seq + 1 > Target(cur, cap))
    <3>1. pc' = "fetch" /\ (applied' + 1)..(seq' - 1) = {}
      BY <1>1, <1>2, <2>3
    <3>. QED
      BY <1>1, <1>2, <1>3, <1>4, <2>1, <2>3, <3>1 DEF RunOK, FetchSteps, CommitSteps
  <2>. QED BY <2>2, <2>3
<1>. QED BY <1>5, <1>6

LEMMA FetchDiffKeepsInv1 == ASSUME Inv1, FetchDiff PROVE Inv1'
<1> USE DEF Inv1
<1>1. /\ pc = "fetch" /\ base = source.seq /\ source.seq <= published
      /\ base <= applied /\ applied < target /\ applied < seq /\ seq <= target
      /\ target <= current /\ current <= published
      /\ batch = (applied + 1)..(seq - 1)
  BY DEF FetchDiff, RunOK, FetchSteps
<1>2. /\ base \in Nat /\ applied \in Nat /\ target \in 0..MaxSeq /\ seq \in Nat
      /\ published \in Nat /\ current \in Nat
  BY DEF TypeOK
<1>3. seq' = seq + 1 /\ batch' = batch \union {seq} /\ diffs' = diffs \union {seq}
  BY DEF FetchDiff
<1>4. seq \in Seqs
  BY <1>1, <1>2 DEF Seqs
<1>5. diffs' \subseteq Seqs /\ batch' \subseteq Seqs
  BY <1>3, <1>4 DEF TypeOK
<1>6. seq' \in 0..(MaxSeq + 1)
  BY <1>1, <1>2, <1>3
<1>7. /\ pc' \in {"fetch", "nodes"}
      /\ pc' = "fetch" => seq # target
  BY DEF FetchDiff
<1>8. TypeOK'
  BY <1>5, <1>6, <1>7 DEF FetchDiff, TypeOK, FetchSteps, partVars, storeVars, flagVars, cacheVars,
     planVars, workVars, envVars
<1>9. batch' = (applied + 1)..(seq' - 1)
  BY <1>1, <1>2, <1>3
<1>10. /\ source' = source /\ published' = published /\ current' = current /\ base' = base
       /\ target' = target /\ applied' = applied
  BY DEF FetchDiff, planVars, envVars
<1>11. RunOK'
  BY <1>1, <1>2, <1>3, <1>7, <1>9, <1>10 DEF RunOK, FetchSteps, CommitSteps
<1>. QED BY <1>8, <1>11

LEMMA ProcessEndsType == ASSUME ProcessEnds PROVE ProcessTypeOK'
<1>1. /\ current' \in 0..MaxSeq /\ base' \in 0..MaxSeq /\ target' \in 0..MaxSeq
      /\ seq' \in 0..(MaxSeq + 1) /\ applied' \in 0..MaxSeq /\ appliedTs' \in Nat
  BY DEF ProcessEnds
<1>2. batch' \subseteq Seqs /\ todo' \subseteq Years /\ moveFlags' \subseteq Seqs
  BY DEF ProcessEnds
<1>3. stopped' \in BOOLEAN /\ pc' \in {"idle"}
  BY DEF ProcessEnds
<1>. QED BY <1>1, <1>2, <1>3

\* Any step that ends the process keeps RunOK if the manifest keeps its bound.
LEMMA ProcessEndsKeepsRunOK ==
  ASSUME Inv1, ProcessEnds, published' = published, source'.seq <= published
  PROVE  RunOK'
  BY DEF Inv1, TypeOK, RunOK, ProcessEnds, FetchSteps, CommitSteps

\* Steps of the commit that only move from one step to the next.
LEMMA CommitKeepsRunOK ==
  ASSUME Inv1, UNCHANGED <<source, planVars, loopVars, envVars>>,
         pc \in CommitSteps \ {"manifest"}, pc' \in CommitSteps
  PROVE  RunOK'
  BY DEF Inv1, RunOK, planVars, loopVars, envVars, FetchSteps, CommitSteps

LEMMA FetchFailsKeepsInv1 == ASSUME Inv1, FetchFails PROVE Inv1'
<1> USE DEF Inv1
<1>1. failures' \in 0..MaxFailures
  BY DEF FetchFails, TypeOK
<1>2. CASE batch = {} /\ applied = base /\ ProcessEnds
  <2>1. TypeOK'
    BY <1>1, <1>2, ProcessEndsType DEF FetchFails, partVars, storeVars, flagVars, cacheVars
  <2>2. RunOK'
    BY <1>2, ProcessEndsKeepsRunOK DEF FetchFails, RunOK
  <2>. QED BY <2>1, <2>2
<1>3. CASE /\ batch # {} \/ applied # base
           /\ stopped' = TRUE
           /\ pc' = IF batch # {} THEN "nodes" ELSE "tagcache"
           /\ UNCHANGED <<planVars, seq, applied, batch, appliedTs, workVars>>
  <2>1. TypeOK'
    BY <1>1, <1>3 DEF FetchFails, TypeOK, FetchSteps, CommitSteps, planVars, workVars, partVars,
       storeVars, flagVars, cacheVars
  <2>2. /\ pc = "fetch" /\ base = source.seq /\ base <= applied /\ applied < target
        /\ applied < seq /\ seq <= target /\ target <= current /\ current <= published
        /\ batch = (applied + 1)..(seq - 1) /\ source.seq <= published
    BY DEF FetchFails, RunOK, FetchSteps
  <2>3. /\ base \in Nat /\ applied \in Nat /\ target \in Nat /\ seq \in Nat
        /\ published \in Nat /\ current \in Nat
    BY DEF TypeOK
  <2>4. UNCHANGED <<source, published, base, target, current, seq, applied, batch>>
    BY <1>3 DEF FetchFails, planVars
  <2>5. CASE batch # {}
    <3>1. pc' = "nodes"
      BY <1>3, <2>5
    <3>2. applied + 1 < seq
      BY <2>2, <2>3, <2>5
    <3>3. RunOK'
      BY <3>1, <3>2, <2>2, <2>3, <2>4 DEF RunOK, FetchSteps, CommitSteps
    <3>. QED BY <2>1, <3>3
  <2>6. CASE batch = {}
    <3>1. pc' = "tagcache" /\ base # applied
      BY <1>3, <2>6
    <3>2. RunOK'
      BY <3>1, <2>2, <2>3, <2>4, <2>6 DEF RunOK, FetchSteps, CommitSteps
    <3>. QED BY <2>1, <3>2
  <2>. QED BY <2>1, <2>5, <2>6
<1>. QED BY <1>2, <1>3 DEF FetchFails

LEMMA StagingType ==
  ASSUME TypeOK, NEW ps \in SUBSET Parts, NEW torn, BatchSeq \in Seqs
  PROVE  Restaged(ps, torn) \subseteq StagingFile
<1> SUFFICES ASSUME NEW f \in Restaged(ps, torn) PROVE f \in StagingFile
  OBVIOUS
<1>1. CASE f \in staging
  BY <1>1
<1>2. CASE \E p \in ps : f = [part |-> p, seq |-> BatchSeq,
                             diffs |-> {d \in batch : p \in Touches[d]},
                             torn |-> p \in torn]
  <2>1. PICK p \in ps : f = [part |-> p, seq |-> BatchSeq,
                             diffs |-> {d \in batch : p \in Touches[d]},
                             torn |-> p \in torn]
    BY <1>2
  <2>2. {d \in batch : p \in Touches[d]} \in SUBSET Seqs
    OBVIOUS
  <2>3. (p \in torn) \in BOOLEAN
    OBVIOUS
  <2>. QED BY <2>1, <2>2, <2>3 DEF StagingFile
<1>. QED BY <1>1, <1>2 DEF Restaged

\* While a batch is applied, its sequence is its last diff.
LEMMA BatchSeqInSeqs == ASSUME Inv1, pc \in {"nodes", "scan"} PROVE BatchSeq \in Seqs
<1>1. applied + 1 < seq /\ seq <= target + 1
  BY DEF Inv1, RunOK, FetchSteps
<1>2. applied \in Nat /\ seq \in Nat /\ target \in 0..MaxSeq
  BY DEF Inv1
<1>. QED BY <1>1, <1>2 DEF BatchSeq, Seqs

LEMMA BatchPartsType == ASSUME NEW kind PROVE BatchParts(kind) \in SUBSET Parts
  BY DEF BatchParts

LEMMA NodePassKeepsInv1 == ASSUME Inv1, NodePass PROVE Inv1'
<1> USE DEF Inv1
<1>1. staging' \subseteq StagingFile
  BY BatchSeqInSeqs, BatchPartsType, StagingType DEF NodePass
<1>2. TypeOK'
  BY <1>1 DEF NodePass, FetchSteps, storeVars, flagVars, cacheVars, planVars, loopVars,
     workVars, envVars
<1>3. RunOK'
  BY DEF NodePass, RunOK, FetchSteps, CommitSteps, planVars, loopVars, envVars
<1>. QED BY <1>2, <1>3

LEMMA ScanPassKeepsInv1 == ASSUME Inv1, ScanPass PROVE Inv1'
<1> USE DEF Inv1
<1>1. BatchSeq \in Seqs
  BY BatchSeqInSeqs DEF ScanPass
<1>2. staging' \subseteq StagingFile
  BY <1>1, BatchPartsType, StagingType DEF ScanPass
<1>3. stage' \in [Stages -> SUBSET StageDir]
  <2>1. ASSUME NEW s \in Stages PROVE [seq |-> BatchSeq, diffs |-> Staged(s)] \in StageDir
    BY <1>1 DEF StageDir, Staged
  <2>. QED BY <2>1 DEF ScanPass
<1>4. appliedTs' \in Nat
  BY StreamAssumption DEF ScanPass, Latest, BatchTimes
<1>5. /\ base = source.seq /\ base <= applied /\ applied < target
      /\ applied + 1 < seq /\ seq <= target + 1 /\ target <= current /\ current <= published
      /\ source.seq <= published
  BY DEF ScanPass, RunOK, FetchSteps
<1>6. /\ base \in Nat /\ applied \in Nat /\ target \in 0..MaxSeq /\ seq \in Nat
      /\ published \in Nat /\ current \in Nat
  OBVIOUS
<1>7. /\ applied' = seq - 1 /\ batch' = {} /\ seq' = seq
      /\ UNCHANGED <<source, published, base, target, current>>
  BY DEF ScanPass, BatchSeq, planVars, envVars
<1>8. applied' \in 0..MaxSeq /\ batch' \subseteq Seqs
  BY <1>1, <1>7 DEF Seqs, BatchSeq
<1>9. pc' \in {"fetch", "tagcache"} /\ (pc' = "fetch" => ~ (seq > target))
  BY DEF ScanPass
<1>10. diffs' \subseteq Seqs
  BY DEF ScanPass
<1>11. TypeOK'
  BY <1>2, <1>3, <1>4, <1>8, <1>9, <1>10 DEF ScanPass, FetchSteps, CommitSteps, storeVars,
     flagVars, cacheVars, planVars, workVars, envVars
<1>12. CASE pc' = "fetch"
  <2>1. (applied' + 1)..(seq' - 1) = {}
    BY <1>6, <1>7
  <2>2. RunOK'
    BY <1>5, <1>6, <1>7, <1>9, <1>12, <2>1 DEF RunOK, FetchSteps, CommitSteps
  <2>. QED BY <1>11, <2>2
<1>13. CASE pc' = "tagcache"
  <2>1. RunOK'
    BY <1>5, <1>6, <1>7, <1>13 DEF RunOK, FetchSteps, CommitSteps
  <2>. QED BY <1>11, <2>1
<1>. QED BY <1>9, <1>12, <1>13

\* The disk and world variables a commit step leaves alone keep their types.
USE DEF partVars, storeVars, flagVars, cacheVars, planVars, loopVars, workVars, envVars

LEMMA RunDiffsType == ASSUME TypeOK PROVE RunDiffs \subseteq Seqs
  BY DEF RunDiffs, Seqs

LEMMA CachesKeepInv1 ==
  ASSUME Inv1, PersistTagCaches \/ PersistNodeCache PROVE Inv1'
<1> USE DEF Inv1
<1>1. CASE PersistTagCaches
  <2>1. TypeOK'
    BY <1>1, RunDiffsType DEF PersistTagCaches, CommitSteps
  <2>2. RunOK'
    BY <1>1, CommitKeepsRunOK DEF PersistTagCaches, CommitSteps
  <2>. QED BY <2>1, <2>2
<1>2. CASE PersistNodeCache
  <2>1. TypeOK'
    BY <1>2, RunDiffsType DEF PersistNodeCache, CommitSteps
  <2>2. RunOK'
    BY <1>2, CommitKeepsRunOK DEF PersistNodeCache, CommitSteps
  <2>. QED BY <2>1, <2>2
<1>. QED BY <1>1, <1>2

LEMMA CoveredByStaging ==
  ASSUME TypeOK, NEW fs, fs \subseteq staging PROVE Covered(fs) \subseteq Seqs
  BY DEF Covered, StagingFile

LEMMA CoveredByStage ==
  ASSUME TypeOK, NEW s \in Stages, NEW bs, bs \subseteq stage[s]
  PROVE  Covered(bs) \subseteq Seqs
<1>1. stage[s] \subseteq StageDir
  OBVIOUS
<1>. QED BY <1>1 DEF Covered, StageDir

LEMMA RecountedIsCovered == ASSUME NEW old, NEW fs PROVE Recounted(old, fs) \subseteq Covered(fs)
  BY DEF Recounted

LEMMA MergeKeepsInv1 == ASSUME Inv1, Merge PROVE Inv1'
<1> USE DEF Inv1
<1>1. ASSUME NEW y \in Years, MergeYear(y) PROVE Inv1'
  <2>1. ASSUME NEW p \in Parts
        PROVE  /\ Covered({f \in Foldable(y) : f.part = p}) \subseteq Seqs
               /\ Recounted(merged[p], {f \in Foldable(y) : f.part = p}) \subseteq Seqs
    BY CoveredByStaging, RecountedIsCovered DEF Foldable
  <2>2. merged' \in [Parts -> SUBSET Seqs] /\ remerged' \in [Parts -> SUBSET Seqs]
    BY <1>1, <2>1 DEF MergeYear
  <2>3. yearStamp' \in [Years -> 0..MaxSeq]
    BY <1>1 DEF MergeYear
  <2>4. TypeOK'
    BY <1>1, <2>2, <2>3 DEF MergeYear
  <2>5. RunOK'
    BY <1>1, CommitKeepsRunOK DEF MergeYear, CommitSteps
  <2>. QED BY <2>4, <2>5
<1>2. ASSUME NEW y \in Years, DropStaging(y) PROVE Inv1'
  <2>1. TypeOK'
    BY <1>2 DEF DropStaging
  <2>2. RunOK'
    BY <1>2, CommitKeepsRunOK DEF DropStaging, CommitSteps
  <2>. QED BY <2>1, <2>2
<1>3. ASSUME NEW y \in Years, MergeThrows(y) PROVE Inv1'
  <2>1. TypeOK'
    BY <1>3, ProcessEndsType DEF MergeThrows
  <2>2. RunOK'
    BY <1>3, ProcessEndsKeepsRunOK DEF MergeThrows, RunOK
  <2>. QED BY <2>1, <2>2
<1>4. CASE MergeDone
  <2>1. TypeOK'
    BY <1>4 DEF MergeDone, CommitSteps
  <2>2. RunOK'
    BY <1>4, CommitKeepsRunOK DEF MergeDone, CommitSteps
  <2>. QED BY <2>1, <2>2
<1>. QED BY <1>1, <1>2, <1>3, <1>4 DEF Merge

LEMMA FoldStoreKeepsInv1 ==
  ASSUME Inv1, NEW s \in Stores, NEW next \in CommitSteps, FoldStore(s, next),
         s \in CommitSteps \ {"manifest"}
  PROVE  Inv1'
<1> USE DEF Inv1
<1>1. s \in Stages /\ s \in Sums
  BY DEF Stages, Sums
<1>2. /\ Covered(NewDirs(s)) \subseteq Seqs
      /\ Recounted(folded[s], NewDirs(s)) \subseteq Seqs
  BY <1>1, CoveredByStage, RecountedIsCovered DEF NewDirs
<1>3. /\ storeStamp' \in [Stores -> 0..MaxSeq]
      /\ folded' \in [Sums -> SUBSET Seqs]
      /\ refolded' \in [Sums -> SUBSET Seqs]
  <2>1. CASE UNCHANGED storeVars
    BY <2>1
  <2>2. CASE /\ storeStamp' = [storeStamp EXCEPT ![s] = applied]
             /\ folded' = [folded EXCEPT ![s] = @ \union Covered(NewDirs(s))]
             /\ refolded' = [refolded EXCEPT ![s] = @ \union Recounted(folded[s], NewDirs(s))]
    BY <2>2, <1>1, <1>2
  <2>. QED BY <2>1, <2>2 DEF FoldStore
<1>4. stage' \in [Stages -> SUBSET StageDir]
  BY DEF FoldStore
<1>5. TypeOK'
  BY <1>3, <1>4 DEF FoldStore
<1>6. RunOK'
  BY CommitKeepsRunOK DEF FoldStore
<1>. QED BY <1>5, <1>6

LEMMA FoldKeepsInv1 == ASSUME Inv1, Fold PROVE Inv1'
<1>1. CASE FlagMoves
  <2> USE DEF Inv1
  <2>1. moveFlags' \subseteq Seqs
    BY <1>1, CoveredByStage DEF FlagMoves, Stages
  <2>2. stage' \in [Stages -> SUBSET StageDir]
    BY <1>1 DEF FlagMoves
  <2>3. TypeOK'
    BY <1>1, <2>1, <2>2 DEF FlagMoves, CommitSteps
  <2>4. RunOK'
    BY <1>1, CommitKeepsRunOK DEF FlagMoves, CommitSteps
  <2>. QED BY <2>3, <2>4
<1>2. CASE FoldStore("counts", "cells") \/ FoldStore("cells", "tags")
             \/ FoldStore("tags", "moves") \/ FoldStore("langs", "ranking")
  BY <1>2, FoldStoreKeepsInv1 DEF Stores, CommitSteps
<1>. QED BY <1>1, <1>2 DEF Fold

LEMMA FinalizeKeepsInv1 == ASSUME Inv1, Finalize PROVE Inv1'
<1> USE DEF Inv1
<1>1. ASSUME NEW s \in Sums, AddHistoryTo(s)
      PROVE  folded' \in [Sums -> SUBSET Seqs] /\ refolded' \in [Sums -> SUBSET Seqs]
  <2>1. /\ Covered(stage["history"]) \subseteq Seqs
        /\ Recounted(folded[s], stage["history"]) \subseteq Seqs
    BY CoveredByStage, RecountedIsCovered DEF Stages
  <2>. QED BY <1>1, <2>1 DEF AddHistoryTo
<1>2. CASE WriteRanking
  <2>1. folded' \in [Sums -> SUBSET Seqs] /\ refolded' \in [Sums -> SUBSET Seqs]
    BY <1>1, <1>2 DEF WriteRanking, Sums
  <2>2. pc' \in {"nodecache", "history"}
    BY <1>2 DEF WriteRanking
  <2>3. TypeOK'
    BY <1>2, <2>1, <2>2 DEF WriteRanking, CommitSteps
  <2>4. RunOK'
    BY <1>2, <2>2, CommitKeepsRunOK DEF WriteRanking, CommitSteps
  <2>. QED BY <2>3, <2>4
<1>3. CASE WriteHistory
  <2>1. folded' \in [Sums -> SUBSET Seqs] /\ refolded' \in [Sums -> SUBSET Seqs]
    BY <1>1, <1>3 DEF WriteHistory, Sums
  <2>2. TypeOK'
    BY <1>3, <2>1 DEF WriteHistory, CommitSteps
  <2>3. RunOK'
    BY <1>3, CommitKeepsRunOK DEF WriteHistory, CommitSteps
  <2>. QED BY <2>2, <2>3
<1>4. CASE WriteSuspects
  <2>1. stage' \in [Stages -> SUBSET StageDir]
    BY <1>4 DEF WriteSuspects
  <2>2. TypeOK'
    BY <1>4, <2>1 DEF WriteSuspects, CommitSteps
  <2>3. RunOK'
    BY <1>4, CommitKeepsRunOK DEF WriteSuspects, CommitSteps
  <2>. QED BY <2>2, <2>3
<1>. QED BY <1>2, <1>3, <1>4 DEF Finalize

LEMMA WriteManifestKeepsInv1 == ASSUME Inv1, WriteManifest PROVE Inv1'
<1> USE DEF Inv1
<1>1. current <= published /\ applied <= published
  BY DEF WriteManifest, RunOK, CommitSteps
<1>2. source' \in [seq : 0..MaxSeq, ts : Nat, ok : BOOLEAN] /\ source'.seq <= published
  <2>1. StateTime[current] \in Nat
    BY StreamAssumption
  <2>2. CASE applied = base
    BY <1>1, <2>1, <2>2 DEF WriteManifest, NewSource
  <2>3. CASE applied # base
    <3>1. (IF stopped /\ appliedTs > 0 THEN appliedTs ELSE StateTime[current]) \in Nat
      BY <2>1
    <3>. QED BY <1>1, <2>3, <3>1 DEF WriteManifest, NewSource
  <2>. QED BY <2>2, <2>3
<1>3. TypeOK'
  BY <1>2, ProcessEndsType DEF WriteManifest
<1>4. RunOK'
  BY <1>2, ProcessEndsKeepsRunOK DEF WriteManifest
<1>. QED BY <1>3, <1>4

LEMMA PublishKeepsInv1 == ASSUME Inv1, Publish PROVE Inv1'
<1> USE DEF Inv1
<1>1. published' \in 0..MaxSeq /\ published' = published + 1
  BY DEF Publish
<1>2. TypeOK'
  BY <1>1 DEF Publish
<1>3. RunOK'
  <2>1. UNCHANGED <<source, pc, current, base, target, seq, applied, batch>>
    BY DEF Publish
  <2>2. source.seq \in Nat /\ current \in Nat /\ applied \in Nat /\ published \in Nat
    OBVIOUS
  <2>. QED BY <1>1, <2>1, <2>2 DEF RunOK
<1>. QED BY <1>2, <1>3

LEMMA CrashesKeepInv1 == ASSUME Inv1, Crashes PROVE Inv1'
<1> USE DEF Inv1
<1>1. CASE Crash
  <2>1. crashes' \in 0..MaxCrashes
    BY <1>1 DEF Crash
  <2>2. TypeOK'
    BY <1>1, <2>1, ProcessEndsType DEF Crash
  <2>3. RunOK'
    BY <1>1, ProcessEndsKeepsRunOK DEF Crash, RunOK
  <2>. QED BY <2>2, <2>3
<1>2. ASSUME NEW kind \in Kinds, CrashWhileStaging(kind) PROVE Inv1'
  <2>1. crashes' \in 0..MaxCrashes
    BY <1>2 DEF CrashWhileStaging
  <2>2. BatchSeq \in Seqs
    BY <1>2, BatchSeqInSeqs DEF CrashWhileStaging
  <2>3. PICK torn \in SUBSET BatchParts(kind) : \E done \in SUBSET (BatchParts(kind) \ torn) :
          staging' = Restaged(torn \union done, torn)
    BY <1>2 DEF CrashWhileStaging
  <2>4. PICK done \in SUBSET (BatchParts(kind) \ torn) :
          staging' = Restaged(torn \union done, torn)
    BY <2>3
  <2>5. torn \union done \in SUBSET Parts
    BY BatchPartsType
  <2>6. staging' \subseteq StagingFile
    BY <2>2, <2>4, <2>5, StagingType
  <2>7. TypeOK'
    BY <1>2, <2>1, <2>6, ProcessEndsType DEF CrashWhileStaging
  <2>8. RunOK'
    BY <1>2, ProcessEndsKeepsRunOK DEF CrashWhileStaging, RunOK
  <2>. QED BY <2>7, <2>8
<1>3. CASE CrashWhileWritingManifest
  <2>1. crashes' \in 0..MaxCrashes
    BY <1>3 DEF CrashWhileWritingManifest
  <2>2. /\ source' \in [seq : 0..MaxSeq, ts : Nat, ok : BOOLEAN]
        /\ source'.seq = source.seq
    BY <1>3 DEF CrashWhileWritingManifest
  <2>3. TypeOK'
    BY <1>3, <2>1, <2>2, ProcessEndsType DEF CrashWhileWritingManifest
  <2>4. RunOK'
    BY <1>3, <2>2, ProcessEndsKeepsRunOK DEF CrashWhileWritingManifest, RunOK
  <2>. QED BY <2>3, <2>4
<1>4. ASSUME NEW y \in Years, CrashWhileDropping(y) PROVE Inv1'
  <2>1. crashes' \in 0..MaxCrashes
    BY <1>4 DEF CrashWhileDropping
  <2>2. TypeOK'
    BY <1>4, <2>1, ProcessEndsType DEF CrashWhileDropping
  <2>3. RunOK'
    BY <1>4, ProcessEndsKeepsRunOK DEF CrashWhileDropping, RunOK
  <2>. QED BY <2>2, <2>3
<1>. QED BY <1>1, <1>2, <1>3, <1>4 DEF Crashes

LEMMA Next1 == ASSUME Inv1, [Next]_vars PROVE Inv1'
<1>1. CASE UNCHANGED vars
  BY <1>1 DEF vars, Inv1, RunOK
<1>2. CASE Next
  BY <1>2, StartKeepsInv1, FetchDiffKeepsInv1, FetchFailsKeepsInv1, NodePassKeepsInv1,
     ScanPassKeepsInv1, CachesKeepInv1, MergeKeepsInv1, FoldKeepsInv1, FinalizeKeepsInv1,
     WriteManifestKeepsInv1, PublishKeepsInv1, CrashesKeepInv1
     DEF Next, Step
<1>. QED BY <1>1, <1>2

\* Every variable keeps its type, and the local variables of a run mean what the
\* code takes them to mean at each of its steps.
THEOREM TypeInvariant == Spec => []TypeOK
<1>1. Init => Inv1
  BY Init1
<1>2. Inv1 /\ [Next]_vars => Inv1'
  BY Next1
<1>3. Inv1 => TypeOK
  BY DEF Inv1
<1>. QED BY <1>1, <1>2, <1>3, PTL DEF Spec

-----------------------------------------------------------------------------
(* The year partitions.                                                    *)

\* Steps that leave the partitions and the run's plan alone, after the merge.
LEMMA PartFrame ==
  ASSUME PartInv, UNCHANGED <<source, partVars, base, applied>>,
         pc \in AfterMerge, pc' \in AfterMerge
  PROVE  PartInv'
  BY DEF PartInv, PartsDurable, YearStampsDelimit, StagingSound, RunRowsKept, StagingDropped,
         Committed, RunDiffs, RowsStaged, AfterMerge, FetchSteps, CommitSteps, partVars

\* Steps that end the process, whatever they leave in staging.
LEMMA PartEnds ==
  ASSUME PartInv, ProcessEnds, source'.seq = source.seq, UNCHANGED <<yearStamp, merged>>,
         StagingSound'
  PROVE  PartInv'
<1>1. pc' = "idle"
  BY DEF ProcessEnds
<1>2. PartsDurable' /\ YearStampsDelimit'
  BY DEF PartInv, PartsDurable, YearStampsDelimit, Committed
<1>3. RunRowsKept' /\ StagingDropped'
  BY <1>1 DEF RunRowsKept, StagingDropped, AfterMerge, FetchSteps, CommitSteps
<1>. QED BY <1>2, <1>3 DEF PartInv

LEMMA PartInit == Init => PartInv
<1> SUFFICES ASSUME Init PROVE PartInv
  OBVIOUS
<1>1. pc = "idle" /\ source.seq = 0 /\ staging = {}
  BY DEF Init, Idle
<1>2. PartsDurable
  BY <1>1 DEF PartsDurable, Committed
<1>3. YearStampsDelimit
  <2> SUFFICES ASSUME NEW p \in Parts
               PROVE  merged[p] = {d \in 1..yearStamp[p[1]] : p \in Touches[d]}
    BY DEF YearStampsDelimit
  <2>1. p[1] \in Years
    BY DEF Parts
  <2>2. merged[p] = {} /\ yearStamp[p[1]] = 0
    BY <2>1 DEF Init
  <2>. QED BY <2>2
<1>4. StagingSound /\ RunRowsKept /\ StagingDropped
  BY <1>1 DEF StagingSound, RunRowsKept, StagingDropped, AfterMerge, FetchSteps, CommitSteps
<1>. QED BY <1>2, <1>3, <1>4 DEF PartInv

LEMMA PartStart == ASSUME Inv1, PartInv, NEW cap \in Caps, Start(cap) PROVE PartInv'
<1>1. /\ UNCHANGED <<source, partVars>>
      /\ base' = source.seq /\ applied' = source.seq
      /\ pc' \in {"manifest", "fetch"}
  BY DEF Start
<1>2. source.seq \in Nat
  BY DEF Inv1, TypeOK, DiskTypeOK
<1>3. RunDiffs' = {}
  BY <1>1, <1>2 DEF RunDiffs
<1>4. PartsDurable' /\ YearStampsDelimit' /\ StagingSound'
  BY <1>1 DEF PartInv, PartsDurable, YearStampsDelimit, StagingSound, Committed, partVars
<1>5. RunRowsKept' /\ StagingDropped'
  BY <1>1, <1>3 DEF RunRowsKept, StagingDropped, AfterMerge, CommitSteps
<1>. QED BY <1>4, <1>5 DEF PartInv

\* The download loop touches neither the partitions nor their staging.
LEMMA PartFetch == ASSUME Inv1, PartInv, FetchDiff \/ FetchFails PROVE PartInv'
<1>1. CASE ProcessEnds /\ UNCHANGED <<source, partVars>>
  BY <1>1, PartEnds DEF PartInv, StagingSound, partVars
<1>2. CASE /\ UNCHANGED <<source, partVars, base, applied>>
           /\ pc = "fetch" /\ pc' \in {"fetch", "nodes", "tagcache"}
  BY <1>2 DEF PartInv, PartsDurable, YearStampsDelimit, StagingSound, RunRowsKept,
     StagingDropped, Committed, RunDiffs, RowsStaged, AfterMerge, FetchSteps, CommitSteps, partVars
<1>. QED BY <1>1, <1>2 DEF FetchDiff, FetchFails, planVars

-----------------------------------------------------------------------------
(* Staging a batch.                                                        *)

\* While a batch is applied it is what lies between applied and its sequence.
LEMMA BatchFacts ==
  ASSUME Inv1, pc \in {"nodes", "scan"}
  PROVE  /\ applied \in Nat /\ base \in Nat /\ BatchSeq \in Nat
         /\ base <= applied /\ applied < BatchSeq
         /\ batch = (applied + 1)..BatchSeq
         /\ batch \subseteq Seqs
<1>1. applied \in Nat /\ base \in Nat /\ seq \in Nat /\ batch \subseteq Seqs
  BY DEF Inv1, TypeOK, ProcessTypeOK
<1>2. base <= applied /\ applied + 1 < seq /\ batch = (applied + 1)..(seq - 1)
  BY DEF Inv1, RunOK, FetchSteps
<1>. QED BY <1>1, <1>2 DEF BatchSeq

LEMMA TouchesParts == ASSUME NEW d \in Seqs, NEW p \in Touches[d] PROVE p \in Parts
  BY StreamAssumption

LEMMA StagingHasSeqs ==
  ASSUME Inv1, NEW f \in staging PROVE f.part \in Parts /\ f.seq \in Nat /\ f.diffs \subseteq Seqs
  BY DEF Inv1, TypeOK, DiskTypeOK, StagingFile, Seqs

\* Writing a batch's files keeps those of the batches before it,
LEMMA RestagedKeeps ==
  ASSUME Inv1, pc \in {"nodes", "scan"}, NEW ps, NEW torn, NEW f \in staging,
         f.seq <= applied \/ f.part \notin ps
  PROVE  f \in Restaged(ps, torn)
<1>1. f.seq \in Nat
  BY StagingHasSeqs
<1>2. f.part \in ps => f.seq # BatchSeq
  BY <1>1, BatchFacts
<1>. QED BY <1>2 DEF Restaged

\* leaves one with the rows of every diff of the batch,
LEMMA RestagedHas ==
  ASSUME NEW ps, NEW torn, NEW d \in batch, NEW p \in ps, p \in Touches[d]
  PROVE  \E f \in Restaged(ps, torn) : f.part = p /\ f.seq = BatchSeq /\ d \in f.diffs
<1> DEFINE f == [part |-> p, seq |-> BatchSeq, diffs |-> {e \in batch : p \in Touches[e]},
                 torn |-> p \in torn]
<1>1. f \in Restaged(ps, torn)
  BY DEF Restaged
<1>2. f.part = p /\ f.seq = BatchSeq /\ d \in f.diffs
  OBVIOUS
<1>. QED BY <1>1, <1>2

\* and puts no row where it does not belong.
LEMMA RestagedSound ==
  ASSUME Inv1, PartInv, pc \in {"nodes", "scan"}, NEW ps, NEW torn,
         NEW f \in Restaged(ps, torn), NEW d \in f.diffs
  PROVE  d <= f.seq /\ f.part \in Touches[d]
<1>1. CASE f \in staging
  BY <1>1 DEF PartInv, StagingSound
<1>2. CASE \E p \in ps : f = [part |-> p, seq |-> BatchSeq,
                             diffs |-> {e \in batch : p \in Touches[e]},
                             torn |-> p \in torn]
  <2>1. PICK p \in ps : f = [part |-> p, seq |-> BatchSeq,
                             diffs |-> {e \in batch : p \in Touches[e]},
                             torn |-> p \in torn]
    BY <1>2
  <2>2. f.part = p /\ f.seq = BatchSeq /\ d \in batch /\ p \in Touches[d]
    BY <2>1
  <2>. QED BY <2>2, BatchFacts
<1>. QED BY <1>1, <1>2 DEF Restaged

LEMMA PartNodePass == ASSUME Inv1, PartInv, NodePass PROVE PartInv'
<1>1. /\ staging' = Restaged(BatchParts("nodes"), {})
      /\ pc = "nodes" /\ pc' = "scan"
      /\ UNCHANGED <<source, yearStamp, merged, base, applied, batch, seq>>
  BY DEF NodePass, planVars, loopVars
<1>2. PartsDurable' /\ YearStampsDelimit'
  BY <1>1 DEF PartInv, PartsDurable, YearStampsDelimit, Committed
<1>3. StagingSound'
  BY <1>1, RestagedSound DEF StagingSound
<1>4. ASSUME NEW d \in RunDiffs, NEW p \in Touches[d]
      PROVE  RowsStaged(d, p, applied)'
  <2>1. PICK f \in staging : f.part = p /\ f.seq <= applied /\ d \in f.diffs
    BY <1>1 DEF PartInv, RunRowsKept, RowsStaged, FetchSteps
  <2>2. f \in staging'
    BY <1>1, <2>1, RestagedKeeps
  <2>. QED BY <1>1, <2>1, <2>2 DEF RowsStaged
<1>5. ASSUME NEW d \in batch, NEW p \in Touches[d], p[2] = "nodes"
      PROVE  RowsStaged(d, p, BatchSeq)'
  <2>1. d \in Seqs /\ BatchSeq \in Nat /\ BatchSeq' = BatchSeq
    BY <1>1, BatchFacts DEF BatchSeq
  <2>2. p \in BatchParts("nodes")
    BY <1>5, <2>1, TouchesParts DEF BatchParts
  <2>3. PICK f \in staging' : f.part = p /\ f.seq = BatchSeq /\ d \in f.diffs
    BY <1>1, <2>2, RestagedHas
  <2>. QED BY <2>1, <2>3 DEF RowsStaged
<1>6. RunRowsKept' /\ StagingDropped'
  BY <1>1, <1>4, <1>5 DEF RunRowsKept, StagingDropped, RunDiffs, AfterMerge, CommitSteps
<1>. QED BY <1>2, <1>3, <1>6 DEF PartInv

LEMMA PartScanPass == ASSUME Inv1, PartInv, ScanPass PROVE PartInv'
<1>1. /\ staging' = Restaged(BatchParts("ways"), {})
      /\ pc = "scan" /\ pc' \in {"fetch", "tagcache"} /\ applied' = BatchSeq
      /\ UNCHANGED <<source, yearStamp, merged, base>>
  BY DEF ScanPass, planVars
<1>2. PartsDurable' /\ YearStampsDelimit'
  BY <1>1 DEF PartInv, PartsDurable, YearStampsDelimit, Committed
<1>3. StagingSound'
  BY <1>1, RestagedSound DEF StagingSound
<1>4. RunDiffs' = RunDiffs \union batch
  BY <1>1, BatchFacts DEF RunDiffs
<1>5. ASSUME NEW d \in RunDiffs, NEW p \in Touches[d]
      PROVE  RowsStaged(d, p, applied)'
  <2>1. PICK f \in staging : f.part = p /\ f.seq <= applied /\ d \in f.diffs
    BY <1>1 DEF PartInv, RunRowsKept, RowsStaged, FetchSteps
  <2>2. f \in staging'
    BY <1>1, <2>1, RestagedKeeps
  <2>3. f.seq <= BatchSeq
    BY <1>1, <2>1, BatchFacts, StagingHasSeqs
  <2>. QED BY <1>1, <2>1, <2>2, <2>3 DEF RowsStaged
<1>6. ASSUME NEW d \in batch, NEW p \in Touches[d]
      PROVE  RowsStaged(d, p, applied)'
  <2>1. d \in Seqs /\ BatchSeq \in Nat
    BY <1>1, BatchFacts
  <2>2. p \in Parts
    BY <2>1, TouchesParts
  <2>3. CASE p[2] = "nodes"
    <3>1. PICK f \in staging : f.part = p /\ f.seq <= BatchSeq /\ d \in f.diffs
      BY <1>1, <2>3 DEF PartInv, RunRowsKept, RowsStaged
    <3>2. f.part \notin BatchParts("ways")
      BY <2>3, <3>1 DEF BatchParts
    <3>3. f \in staging'
      BY <1>1, <3>2, RestagedKeeps
    <3>. QED BY <1>1, <3>1, <3>3 DEF RowsStaged
  <2>4. CASE p[2] = "ways"
    <3>1. p \in BatchParts("ways")
      BY <2>2, <2>4 DEF BatchParts
    <3>2. PICK f \in staging' : f.part = p /\ f.seq = BatchSeq /\ d \in f.diffs
      BY <1>1, <3>1, RestagedHas
    <3>. QED BY <1>1, <2>1, <3>2 DEF RowsStaged
  <2>. QED BY <2>2, <2>3, <2>4 DEF Parts, Kinds
<1>7. RunRowsKept' /\ StagingDropped'
  BY <1>1, <1>4, <1>5, <1>6 DEF RunRowsKept, StagingDropped, AfterMerge, FetchSteps, CommitSteps
<1>. QED BY <1>2, <1>3, <1>7 DEF PartInv

-----------------------------------------------------------------------------
(* Merging.                                                                *)

LEMMA PartTagCaches == ASSUME Inv1, PartInv, PersistTagCaches PROVE PartInv'
<1>1. /\ pc = "tagcache" /\ pc' = "merge" /\ todo' = Years
      /\ UNCHANGED <<source, staging, yearStamp, merged, base, applied>>
  BY DEF PersistTagCaches, partVars, planVars, loopVars
<1>2. PartsDurable' /\ YearStampsDelimit' /\ StagingSound'
  BY <1>1 DEF PartInv, PartsDurable, YearStampsDelimit, StagingSound, Committed
<1>3. ASSUME NEW d \in RunDiffs, NEW p \in Touches[d]
      PROVE  p[1] \in Years /\ RowsStaged(d, p, applied)'
  <2>1. d \in Seqs
    BY RunDiffsType DEF Inv1
  <2>2. p[1] \in Years
    BY <2>1, TouchesParts DEF Parts
  <2>. QED BY <1>1, <2>2 DEF PartInv, RunRowsKept, RowsStaged
<1>4. RunRowsKept'
  BY <1>1, <1>3 DEF RunRowsKept, RunDiffs, AfterMerge, FetchSteps, CommitSteps
<1>5. StagingDropped'
  BY <1>1, StagingHasSeqs DEF StagingDropped, AfterMerge, Parts
<1>. QED BY <1>2, <1>4, <1>5 DEF PartInv

\* In the merge, a diff up to applied has its rows in data.parquet already or
\* staged for it.
LEMMA RowsAtMerge ==
  ASSUME Inv1, PartInv, pc = "merge", NEW d \in 1..applied, NEW p \in Touches[d],
         d \notin merged[p]
  PROVE  \E f \in Foldable(p[1]) : f.part = p /\ d \in f.diffs
<1>1. base \in Nat /\ applied \in Nat /\ source.seq = base
  BY DEF Inv1, TypeOK, ProcessTypeOK, RunOK
<1>2. d \in RunDiffs
  BY <1>1 DEF PartInv, PartsDurable, Committed, RunDiffs
<1>3. RowsStaged(d, p, applied)
  BY <1>2 DEF PartInv, RunRowsKept
<1>. QED BY <1>3 DEF RowsStaged, Foldable

LEMMA PartMergeYear ==
  ASSUME Inv1, PartInv, NEW y \in Years, MergeYear(y) PROVE PartInv'
<1> DEFINE F(p) == {f \in Foldable(y) : f.part = p}
<1>1. /\ pc = "merge" /\ pc' = "merge" /\ ~AlreadyMerged(y)
      /\ UNCHANGED <<source, staging, base, applied, todo>>
  BY DEF MergeYear, planVars, loopVars, workVars
<1>2. applied \in 0..MaxSeq /\ yearStamp \in [Years -> 0..MaxSeq] /\ MaxSeq \in Nat
  BY BoundsAssumption DEF Inv1, TypeOK, ProcessTypeOK, DiskTypeOK
<1>3. yearStamp' = [yearStamp EXCEPT ![y] = applied] /\ yearStamp[y] < applied
  BY <1>1, <1>2 DEF MergeYear, AlreadyMerged
<1>4. ASSUME NEW p \in Parts
      PROVE  /\ p[1] = y => merged'[p] = merged[p] \union Covered(F(p))
             /\ p[1] # y => merged'[p] = merged[p]
  BY DEF MergeYear
<1>5. ASSUME NEW p \in Parts PROVE merged'[p] = {d \in 1..yearStamp'[p[1]] : p \in Touches[d]}
  <2>1. merged[p] = {d \in 1..yearStamp[p[1]] : p \in Touches[d]} /\ p[1] \in Years
    BY DEF PartInv, YearStampsDelimit, Parts
  <2>2. CASE p[1] # y
    BY <1>3, <1>4, <2>1, <2>2
  <2>3. CASE p[1] = y
    <3>1. yearStamp'[p[1]] = applied
      BY <1>2, <1>3, <2>3
    <3>2. ASSUME NEW d \in merged[p] PROVE d \in 1..applied /\ p \in Touches[d]
      BY <1>2, <1>3, <2>1, <2>3
    <3>3. ASSUME NEW d \in Covered(F(p)) PROVE d \in 1..applied /\ p \in Touches[d]
      <4>1. PICK f \in F(p) : d \in f.diffs
        BY DEF Covered
      <4>2. f \in staging /\ f.part = p /\ f.seq <= applied
        BY DEF Foldable
      <4>3. d <= f.seq /\ p \in Touches[d]
        BY <4>1, <4>2 DEF PartInv, StagingSound
      <4>4. d \in Seqs /\ f.seq \in Nat
        BY <4>1, <4>2, StagingHasSeqs
      <4>. QED BY <1>2, <4>2, <4>3, <4>4 DEF Seqs
    <3>4. ASSUME NEW d \in 1..applied, p \in Touches[d], d \notin merged[p]
          PROVE  d \in Covered(F(p))
      BY <1>1, <2>3, <3>4, RowsAtMerge DEF Covered
    <3>. QED BY <1>4, <2>3, <3>1, <3>2, <3>3, <3>4
  <2>. QED BY <2>2, <2>3
<1>6. YearStampsDelimit'
  BY <1>5 DEF YearStampsDelimit
<1>7. ASSUME NEW p \in Parts PROVE merged[p] \subseteq merged'[p]
  BY <1>4
<1>8. PartsDurable'
  <2> SUFFICES ASSUME NEW d \in Committed, NEW p \in Touches[d] PROVE d \in merged'[p]
    BY <1>1 DEF PartsDurable, Committed
  <2>1. d \in Seqs
    BY BoundsAssumption DEF Committed, Inv1, TypeOK, DiskTypeOK, Seqs
  <2>2. p \in Parts
    BY <2>1, TouchesParts
  <2>. QED BY <1>7, <2>2 DEF PartInv, PartsDurable
<1>9. RunRowsKept'
  <2>1. ASSUME NEW d \in RunDiffs, NEW p \in Touches[d]
        PROVE  IF p[1] \in todo THEN RowsStaged(d, p, applied)' ELSE d \in merged'[p]
    <3>1. p \in Parts
      BY TouchesParts, RunDiffsType DEF Inv1
    <3>. QED BY <1>1, <1>7, <3>1 DEF PartInv, RunRowsKept, RowsStaged
  <2>. QED BY <1>1, <2>1 DEF RunRowsKept, RunDiffs, AfterMerge, FetchSteps, CommitSteps
<1>10. StagingSound' /\ StagingDropped'
  BY <1>1 DEF PartInv, StagingSound, StagingDropped, AfterMerge
<1>. QED BY <1>6, <1>8, <1>9, <1>10 DEF PartInv

LEMMA PartDropStaging ==
  ASSUME Inv1, PartInv, NEW y \in Years, DropStaging(y) PROVE PartInv'
<1>1. /\ pc = "merge" /\ pc' = "merge" /\ y \in todo /\ todo' = todo \ {y}
      /\ staging' = {f \in staging : f.part[1] # y}
      /\ Foldable(y) = {} \/ AlreadyMerged(y)
      /\ UNCHANGED <<source, yearStamp, merged, base, applied>>
  BY DEF DropStaging, planVars, loopVars
<1>2. PartsDurable' /\ YearStampsDelimit' /\ StagingSound'
  BY <1>1 DEF PartInv, PartsDurable, YearStampsDelimit, StagingSound, Committed
<1>3. StagingDropped'
  BY <1>1 DEF PartInv, StagingDropped, AfterMerge
<1>4. ASSUME NEW d \in RunDiffs, NEW p \in Touches[d]
      PROVE  IF p[1] \in todo' THEN RowsStaged(d, p, applied)' ELSE d \in merged'[p]
  <2>1. p \in Parts
    BY TouchesParts, RunDiffsType DEF Inv1
  <2>2. base \in Nat /\ applied \in Nat /\ yearStamp \in [Years -> 0..MaxSeq]
    BY BoundsAssumption DEF Inv1, TypeOK, ProcessTypeOK, DiskTypeOK
  <2>3. d \in 1..applied
    BY <2>2 DEF RunDiffs
  <2>4. CASE p[1] = y
    <3>1. CASE Foldable(y) = {}
      BY <1>1, <2>3, <2>4, <3>1, RowsAtMerge
    <3>2. CASE yearStamp[y] >= applied
      <4>1. yearStamp[y] \in 0..MaxSeq
        BY <2>2
      <4>2. d \in 1..yearStamp[y]
        BY <2>2, <2>3, <3>2, <4>1, BoundsAssumption
      <4>3. d \in merged[p]
        BY <2>1, <2>4, <4>2 DEF PartInv, YearStampsDelimit
      <4>. QED BY <1>1, <2>4, <4>3
    <3>. QED BY <1>1, <3>1, <3>2 DEF AlreadyMerged
  <2>5. CASE p[1] # y
    BY <1>1, <2>5 DEF PartInv, RunRowsKept, RowsStaged
  <2>. QED BY <2>4, <2>5
<1>5. RunRowsKept'
  BY <1>1, <1>4 DEF RunRowsKept, RunDiffs, AfterMerge, FetchSteps, CommitSteps
<1>. QED BY <1>2, <1>3, <1>5 DEF PartInv

LEMMA PartMerge == ASSUME Inv1, PartInv, Merge PROVE PartInv'
<1>1. ASSUME NEW y \in Years, MergeThrows(y) PROVE PartInv'
  BY <1>1, PartEnds DEF MergeThrows, PartInv, StagingSound, partVars
<1>2. CASE MergeDone
  <2>1. /\ pc = "merge" /\ pc' = "counts" /\ todo = {}
        /\ UNCHANGED <<source, staging, yearStamp, merged, base, applied>>
    BY <1>2 DEF MergeDone, partVars, planVars, loopVars
  <2>. QED
    BY <2>1 DEF PartInv, PartsDurable, YearStampsDelimit, StagingSound, RunRowsKept,
       StagingDropped, Committed, RunDiffs, AfterMerge, FetchSteps, CommitSteps
<1>. QED BY <1>1, <1>2, PartMergeYear, PartDropStaging DEF Merge

-----------------------------------------------------------------------------
(* The rest of the commit, and the crashes.                                *)

LEMMA PartCommit ==
  ASSUME Inv1, PartInv, Fold \/ Finalize \/ PersistNodeCache PROVE PartInv'
<1>1. ASSUME NEW s \in {"counts", "cells", "tags", "langs"},
             NEW next \in {"cells", "tags", "moves", "ranking"}, FoldStore(s, next)
      PROVE  PartInv'
  BY <1>1, PartFrame DEF FoldStore, planVars, loopVars, AfterMerge, CommitSteps
<1>2. CASE FlagMoves
  BY <1>2, PartFrame DEF FlagMoves, planVars, loopVars, AfterMerge, CommitSteps
<1>3. CASE Finalize
  BY <1>3, PartFrame DEF Finalize, WriteRanking, WriteHistory, WriteSuspects, planVars,
     loopVars, AfterMerge, CommitSteps
<1>4. CASE PersistNodeCache
  BY <1>4, PartFrame DEF PersistNodeCache, planVars, loopVars, AfterMerge, CommitSteps
<1>. QED BY <1>1, <1>2, <1>3, <1>4 DEF Fold

\* The sequence a run records is one whose diffs it has just made durable, or one
\* the manifest covered before.
LEMMA ManifestCovers ==
  ASSUME Inv1, WriteManifest, NEW d \in Committed'
  PROVE  d \in Committed \union RunDiffs
<1>1. /\ base \in Nat /\ applied \in Nat /\ current \in Nat
      /\ base = source.seq /\ base <= applied /\ (applied = base => current <= base)
  BY DEF Inv1, TypeOK, ProcessTypeOK, RunOK, WriteManifest, CommitSteps
<1>2. source'.seq \in 0..applied
  BY <1>1 DEF WriteManifest, NewSource
<1>3. d \in 1..applied
  BY <1>1, <1>2 DEF Committed
<1>. QED BY <1>1, <1>3 DEF Committed, RunDiffs

LEMMA PartWriteManifest == ASSUME Inv1, PartInv, WriteManifest PROVE PartInv'
<1>1. pc = "manifest" /\ pc' = "idle" /\ UNCHANGED <<staging, yearStamp, merged>>
  BY DEF WriteManifest, ProcessEnds, partVars
<1>2. \A d \in RunDiffs : \A p \in Touches[d] : d \in merged[p]
  BY <1>1 DEF PartInv, RunRowsKept, AfterMerge, CommitSteps
<1>3. PartsDurable'
  BY <1>1, <1>2, ManifestCovers DEF PartInv, PartsDurable
<1>4. YearStampsDelimit' /\ StagingSound'
  BY <1>1 DEF PartInv, YearStampsDelimit, StagingSound
<1>5. RunRowsKept' /\ StagingDropped'
  BY <1>1 DEF RunRowsKept, StagingDropped, AfterMerge, FetchSteps, CommitSteps
<1>. QED BY <1>3, <1>4, <1>5 DEF PartInv

LEMMA PartCrashes == ASSUME Inv1, PartInv, Crashes PROVE PartInv'
<1>1. CASE Crash
  BY <1>1, PartEnds DEF Crash, PartInv, StagingSound, partVars
<1>2. ASSUME NEW kind \in Kinds, CrashWhileStaging(kind) PROVE PartInv'
  <2>1. PICK torn \in SUBSET BatchParts(kind) : \E done \in SUBSET (BatchParts(kind) \ torn) :
          staging' = Restaged(torn \union done, torn)
    BY <1>2 DEF CrashWhileStaging
  <2>2. PICK done \in SUBSET (BatchParts(kind) \ torn) :
          staging' = Restaged(torn \union done, torn)
    BY <2>1
  <2>3. pc \in {"nodes", "scan"}
    BY <1>2 DEF CrashWhileStaging
  <2>4. StagingSound'
    BY <2>2, <2>3, RestagedSound DEF StagingSound
  <2>. QED BY <1>2, <2>4, PartEnds DEF CrashWhileStaging
<1>3. ASSUME NEW y \in Years, CrashWhileDropping(y) PROVE PartInv'
  <2>1. staging' \subseteq staging
    BY <1>3 DEF CrashWhileDropping
  <2>2. StagingSound'
    BY <2>1 DEF PartInv, StagingSound
  <2>. QED BY <1>3, <2>2, PartEnds DEF CrashWhileDropping
<1>4. CASE CrashWhileWritingManifest
  <2>1. source'.seq = source.seq
    BY <1>4 DEF CrashWhileWritingManifest, Inv1, TypeOK, DiskTypeOK
  <2>. QED BY <1>4, <2>1, PartEnds DEF CrashWhileWritingManifest, PartInv, StagingSound, partVars
<1>. QED BY <1>1, <1>2, <1>3, <1>4 DEF Crashes

LEMMA PartStutter ==
  ASSUME PartInv,
         UNCHANGED <<source, staging, yearStamp, merged, pc, base, applied, batch, seq, todo>>
  PROVE  PartInv'
  BY DEF PartInv, PartsDurable, YearStampsDelimit, StagingSound, RunRowsKept, StagingDropped,
     Committed, RunDiffs, RowsStaged, BatchSeq

LEMMA PartNext == ASSUME Inv1, PartInv, [Next]_vars PROVE PartInv'
<1>1. CASE UNCHANGED vars
  BY <1>1, PartStutter DEF vars, partVars, planVars, loopVars, workVars
<1>2. CASE Publish
  BY <1>2, PartStutter DEF Publish, partVars, planVars, loopVars, workVars
<1>3. CASE Next /\ ~Publish
  BY <1>3, PartStart, PartFetch, PartNodePass, PartScanPass, PartTagCaches, PartMerge,
     PartCommit, PartWriteManifest, PartCrashes DEF Next, Step
<1>. QED BY <1>1, <1>2, <1>3

HIDE BoundsAssumption DEF TypeOK, DiskTypeOK, ProcessTypeOK, WorldTypeOK
HIDE DEF partVars, storeVars, flagVars, cacheVars, planVars, loopVars, workVars, envVars

-----------------------------------------------------------------------------
(* The suspect stores, the ranking and the history.                        *)

EarlySteps == FetchSteps \union {"tagcache", "merge", "counts"}

LEMMA NotFoldedEarly == ASSUME NEW s \in SumsKept PROVE EarlySteps \intersect FoldedAt(s) = {}
  BY DEF EarlySteps, FoldedAt, FetchSteps, CommitSteps

LEMMA FoldedLate ==
  ASSUME NEW s \in SumsKept PROVE {"suspects", "nodecache", "manifest"} \subseteq FoldedAt(s)
  BY DEF FoldedAt, CommitSteps

LEMMA IdleNotFolded == ASSUME NEW s \in SumsKept PROVE "idle" \notin FoldedAt(s)
  BY DEF FoldedAt, CommitSteps

\* Steps that sum nothing.
LEMMA SumFrame ==
  ASSUME SumInv, UNCHANGED <<source, stage, storeVars, base, applied>>,
         \/ pc \in EarlySteps /\ pc' \in EarlySteps
         \/ pc = "nodecache" /\ pc' = "manifest"
         \/ pc' = pc
  PROVE  SumInv'
<1>1. SumsDurable' /\ StoreStampsDelimit'
  BY DEF SumInv, SumsDurable, StoreStampsDelimit, Committed, storeVars
<1>2. StageSound'
  <2>1. pc' \notin {"idle", "manifest"} => pc \notin {"idle", "manifest"}
    BY DEF EarlySteps, FetchSteps
  <2>. QED BY <2>1 DEF SumInv, StageSound
<1>3. RunSumsKept'
  <2> SUFFICES ASSUME NEW s \in SumsKept, NEW d \in RunDiffs \intersect Rows(s)
               PROVE  /\ pc' \in FoldedAt(s) => d \in folded[s]
                      /\ pc' \notin FoldedAt(s) \union {"idle"} => InStage(StageOf(s), d)
    BY DEF RunSumsKept, RunDiffs, InStage, storeVars
  <2>1. /\ pc \in FoldedAt(s) => d \in folded[s]
        /\ pc \notin FoldedAt(s) \union {"idle"} => InStage(StageOf(s), d)
    BY DEF SumInv, RunSumsKept
  <2>2. CASE pc \in EarlySteps /\ pc' \in EarlySteps
    <3>1. pc # "idle"
      BY <2>2 DEF EarlySteps, FetchSteps
    <3>. QED BY <2>1, <2>2, <3>1, NotFoldedEarly
  <2>3. CASE pc = "nodecache" /\ pc' = "manifest"
    BY <2>1, <2>3, FoldedLate
  <2>4. CASE pc' = pc
    BY <2>1, <2>4
  <2>. QED BY <2>2, <2>3, <2>4
<1>. QED BY <1>1, <1>2, <1>3 DEF SumInv

\* Steps that end the process.
LEMMA SumEnds ==
  ASSUME SumInv, ProcessEnds, source'.seq = source.seq, UNCHANGED <<stage, storeVars>>
  PROVE  SumInv'
<1>1. pc' = "idle"
  BY DEF ProcessEnds
<1>2. SumsDurable' /\ StoreStampsDelimit' /\ StageSound'
  BY <1>1 DEF SumInv, SumsDurable, StoreStampsDelimit, StageSound, Committed, storeVars
<1>3. RunSumsKept'
  BY <1>1, IdleNotFolded DEF RunSumsKept
<1>. QED BY <1>2, <1>3 DEF SumInv

LEMMA SumInit == Init => SumInv
<1> SUFFICES ASSUME Init PROVE SumInv
  OBVIOUS
<1>1. pc = "idle" /\ source.seq = 0 /\ stage = NoStage
  BY DEF Init, Idle
<1>2. SumsDurable
  BY <1>1 DEF SumsDurable, Committed
<1>3. StoreStampsDelimit
  <2> SUFFICES ASSUME NEW s \in FoldedStores
               PROVE  folded[s] = {d \in 1..storeStamp[s] : s \in Feeds[d]}
    BY DEF StoreStampsDelimit
  <2>1. s \in Stores /\ s \in Sums
    BY DEF FoldedStores, Sums
  <2>2. folded[s] = {} /\ storeStamp[s] = 0
    BY <2>1 DEF Init
  <2>. QED BY <2>2
<1>4. StageSound
  BY <1>1 DEF StageSound, NoStage
<1>5. RunSumsKept
  BY <1>1, IdleNotFolded DEF RunSumsKept
<1>. QED BY <1>2, <1>3, <1>4, <1>5 DEF SumInv

LEMMA SumStart == ASSUME Inv1, SumInv, NEW cap \in Caps, Start(cap) PROVE SumInv'
<1>1. /\ UNCHANGED <<source, storeVars>>
      /\ base' = source.seq /\ applied' = source.seq
      /\ \/ pc' = "manifest" /\ UNCHANGED stage
         \/ pc' = "fetch" /\ stage' = NoStage
  BY DEF Start
<1>2. source.seq \in Nat
  BY DEF Inv1, TypeOK, DiskTypeOK
<1>3. RunDiffs' = {}
  BY <1>1, <1>2 DEF RunDiffs
<1>4. SumsDurable' /\ StoreStampsDelimit'
  BY <1>1 DEF SumInv, SumsDurable, StoreStampsDelimit, Committed, storeVars
<1>5. StageSound'
  BY <1>1 DEF SumInv, StageSound, NoStage
<1>6. RunSumsKept'
  BY <1>3 DEF RunSumsKept
<1>. QED BY <1>4, <1>5, <1>6 DEF SumInv

LEMMA SumScanPass == ASSUME Inv1, SumInv, ScanPass PROVE SumInv'
<1>1. /\ stage' = [s \in Stages |->
                    stage[s] \union {b \in {[seq |-> BatchSeq, diffs |-> Staged(s)]} :
                                       b.diffs # {}}]
      /\ pc = "scan" /\ pc' \in {"fetch", "tagcache"} /\ applied' = BatchSeq
      /\ UNCHANGED <<source, storeVars, base>>
  BY DEF ScanPass, planVars
<1>2. SumsDurable' /\ StoreStampsDelimit'
  BY <1>1 DEF SumInv, SumsDurable, StoreStampsDelimit, Committed, storeVars
<1>3. StageSound'
  <2> SUFFICES ASSUME NEW s \in Stages, NEW b \in stage'[s]
               PROVE  /\ \A d \in b.diffs : d <= b.seq /\ s \in Feeds[d]
                      /\ b.seq <= BatchSeq
    BY <1>1 DEF StageSound
  <2>1. CASE b \in stage[s]
    <3>1. b.seq \in Nat
      BY <2>1 DEF Inv1, TypeOK, DiskTypeOK, StageDir, Seqs
    <3>2. (\A d \in b.diffs : d <= b.seq /\ s \in Feeds[d]) /\ b.seq <= applied
      BY <1>1, <2>1 DEF SumInv, StageSound
    <3>. QED BY <1>1, <3>1, <3>2, BatchFacts
  <2>2. CASE b = [seq |-> BatchSeq, diffs |-> Staged(s)]
    <3>1. b.seq = BatchSeq /\ b.diffs \subseteq batch /\ \A d \in b.diffs : s \in Feeds[d]
      BY <2>2 DEF Staged
    <3>. QED BY <1>1, <3>1, BatchFacts
  <2>. QED BY <1>1, <2>1, <2>2
<1>4. RunDiffs' = RunDiffs \union batch
  BY <1>1, BatchFacts DEF RunDiffs
<1>5. ASSUME NEW s \in SumsKept, NEW d \in RunDiffs' \intersect Rows(s)
      PROVE  InStage(StageOf(s), d)'
  <2>1. StageOf(s) \in Stages /\ StageOf(s) # "moves"
    BY DEF StageOf, Stages, Stores
  <2>2. CASE d \in RunDiffs
    <3>1. InStage(StageOf(s), d)
      BY <1>1, <2>2, NotFoldedEarly DEF SumInv, RunSumsKept, EarlySteps, FetchSteps
    <3>. QED BY <1>1, <2>1, <3>1 DEF InStage
  <2>3. CASE d \in batch
    <3>1. d \in Staged(StageOf(s))
      BY <2>1, <2>3 DEF Staged, Rows, StageOf
    <3> DEFINE b == [seq |-> BatchSeq, diffs |-> Staged(StageOf(s))]
    <3>2. b \in stage'[StageOf(s)]
      BY <1>1, <2>1, <3>1
    <3>. QED BY <3>1, <3>2 DEF InStage
  <2>. QED BY <1>4, <2>2, <2>3
<1>6. RunSumsKept'
  <2>1. ASSUME NEW s \in SumsKept PROVE pc' \notin FoldedAt(s)
    BY <1>1, NotFoldedEarly DEF EarlySteps, FetchSteps
  <2>. QED BY <1>5, <2>1 DEF RunSumsKept
<1>. QED BY <1>2, <1>3, <1>6 DEF SumInv

\* The place of each fold in the commit.
FoldOrder == {<<"counts", "cells">>, <<"cells", "tags">>, <<"tags", "moves">>,
              <<"langs", "ranking">>}

LEMMA FoldOrderFolds ==
  ASSUME NEW s, NEW next, <<s, next>> \in FoldOrder, NEW t \in SumsKept
  PROVE  /\ t = s => next \in FoldedAt(t) /\ s \notin FoldedAt(t)
         /\ t # s => (next \in FoldedAt(t) <=> s \in FoldedAt(t))
<1>1. \/ s = "counts" /\ next = "cells"
      \/ s = "cells" /\ next = "tags"
      \/ s = "tags" /\ next = "moves"
      \/ s = "langs" /\ next = "ranking"
  BY DEF FoldOrder
<1>2. t \in {"counts", "cells", "tags", "ranking", "history"}
  BY DEF SumsKept, Sums, Stores
<1>. QED BY <1>1, <1>2 DEF FoldedAt, CommitSteps

\* What a fold makes of its store: it holds the rows up to its stamp, and every row
\* up to the applied sequence.
LEMMA FoldStoreSums ==
  ASSUME Inv1, SumInv, NEW s \in FoldedStores, NEW next, <<s, next>> \in FoldOrder,
         FoldStore(s, next)
  PROVE  /\ folded'[s] = {d \in 1..storeStamp'[s] : s \in Feeds[d]}
         /\ \A d \in 1..applied : s \in Feeds[d] => d \in folded'[s]
<1>1. /\ s \in Stores /\ s \in Sums /\ s \in Stages /\ s \in SumsKept
  BY DEF FoldedStores, SumsKept, Sums, Stages
<1>2. /\ applied \in Nat /\ base \in Nat /\ source.seq = base
      /\ storeStamp \in [Stores -> 0..MaxSeq] /\ folded \in [Sums -> SUBSET Seqs]
      /\ applied \in 0..MaxSeq /\ MaxSeq \in Nat
      /\ pc = s /\ pc \notin {"idle", "manifest"}
  <2>1. pc = s /\ pc \notin {"idle", "manifest"}
    BY <1>1 DEF FoldStore, Stores
  <2>. QED BY <2>1, BoundsAssumption DEF Inv1, TypeOK, DiskTypeOK, ProcessTypeOK, RunOK
<1>3. folded[s] = {d \in 1..storeStamp[s] : s \in Feeds[d]}
  BY DEF SumInv, StoreStampsDelimit
<1>4. ASSUME NEW d \in 1..applied, s \in Feeds[d]
      PROVE  d \in folded[s] \/ InStage(s, d)
  <2>1. d \in Seqs /\ d \in Rows(s)
    BY <1>1, <1>2, <1>4 DEF Seqs, Rows
  <2>2. CASE d \in Committed
    BY <1>1, <2>1, <2>2 DEF SumInv, SumsDurable
  <2>3. CASE d \in RunDiffs
    <3>1. s \notin FoldedAt(s) \union {"idle"} /\ StageOf(s) = s
      BY <1>1, <1>2, FoldOrderFolds DEF StageOf
    <3>. QED BY <1>1, <1>2, <2>1, <2>3, <3>1 DEF SumInv, RunSumsKept
  <2>. QED BY <1>2, <2>2, <2>3 DEF Committed, RunDiffs
<1>5. ASSUME NEW b \in stage[s], NEW d \in b.diffs
      PROVE  /\ d \in 1..b.seq /\ s \in Feeds[d] /\ b.seq \in 1..applied
  <2>1. b.seq \in Seqs /\ d \in Seqs
    BY <1>1 DEF Inv1, TypeOK, DiskTypeOK, StageDir
  <2>2. d <= b.seq /\ s \in Feeds[d] /\ b.seq <= applied
    BY <1>1, <1>2 DEF SumInv, StageSound
  <2>. QED BY <1>2, <2>1, <2>2 DEF Seqs
<1>6. storeStamp[s] \in 0..MaxSeq
  BY <1>1, <1>2
<1>7. CASE (storeStamp[s] >= applied \/ stage[s] = {}) /\ UNCHANGED storeVars
  <2>1. folded'[s] = {d \in 1..storeStamp'[s] : s \in Feeds[d]}
    BY <1>3, <1>7 DEF storeVars
  <2>2. ASSUME NEW d \in 1..applied, s \in Feeds[d] PROVE d \in folded[s]
    <3>1. CASE storeStamp[s] >= applied
      BY <1>2, <1>3, <1>6, <2>2, <3>1
    <3>2. CASE stage[s] = {}
      BY <1>4, <2>2, <3>2 DEF InStage
    <3>. QED BY <1>7, <3>1, <3>2
  <2>. QED BY <1>7, <2>1, <2>2 DEF storeVars
<1>8. CASE /\ ~ (storeStamp[s] >= applied \/ stage[s] = {})
           /\ storeStamp' = [storeStamp EXCEPT ![s] = applied]
           /\ folded' = [folded EXCEPT ![s] = @ \union Covered(NewDirs(s))]
  <2>1. folded'[s] = folded[s] \union Covered(NewDirs(s)) /\ storeStamp'[s] = applied
    BY <1>1, <1>2, <1>8
  <2>2. storeStamp[s] < applied
    BY <1>2, <1>6, <1>8
  <2>3. ASSUME NEW d \in folded[s] PROVE d \in 1..applied /\ s \in Feeds[d]
    BY <1>2, <1>3, <1>6, <2>2
  <2>4. ASSUME NEW d \in Covered(NewDirs(s)) PROVE d \in 1..applied /\ s \in Feeds[d]
    <3>1. PICK b \in stage[s] : d \in b.diffs
      BY DEF Covered, NewDirs
    <3>. QED BY <1>2, <1>5, <3>1
  <2>5. ASSUME NEW d \in 1..applied, s \in Feeds[d], d \notin folded[s]
        PROVE  d \in Covered(NewDirs(s))
    <3>1. PICK b \in stage[s] : d \in b.diffs
      BY <1>4, <2>5 DEF InStage
    <3>2. ~ (b.seq <= storeStamp[s])
      BY <1>3, <1>5, <1>6, <2>5, <3>1
    <3>3. b.seq > storeStamp[s]
      BY <1>5, <1>6, <3>1, <3>2
    <3>. QED BY <3>1, <3>3 DEF Covered, NewDirs
  <2>. QED BY <2>1, <2>3, <2>4, <2>5
<1>. QED BY <1>7, <1>8 DEF FoldStore

LEMMA SumFoldStore ==
  ASSUME Inv1, SumInv, NEW s \in Stores, NEW next, <<s, next>> \in FoldOrder,
         FoldStore(s, next)
  PROVE  SumInv'
<1>1. /\ pc = s /\ pc' = next /\ stage' = [stage EXCEPT ![s] = {}]
      /\ UNCHANGED <<source, base, applied>>
  BY DEF FoldStore, planVars, loopVars
<1>2. /\ source.seq = base /\ base \in Nat /\ applied \in Nat /\ base <= applied
      /\ folded \in [Sums -> SUBSET Seqs] /\ storeStamp \in [Stores -> 0..MaxSeq]
      /\ stage \in [Stages -> SUBSET StageDir]
  <2>1. pc \in CommitSteps
    BY <1>1 DEF Stores, CommitSteps
  <2>2. pc # "idle"
    BY <2>1 DEF CommitSteps
  <2>. QED BY <2>1, <2>2 DEF Inv1, TypeOK, DiskTypeOK, ProcessTypeOK, RunOK
<1>3. ASSUME NEW t \in Sums, t # s
      PROVE  folded'[t] = folded[t] /\ (t \in Stores => storeStamp'[t] = storeStamp[t])
  BY <1>2, <1>3 DEF FoldStore, storeVars
<1>4. StoreStampsDelimit'
  <2> SUFFICES ASSUME NEW t \in FoldedStores
               PROVE  folded'[t] = {d \in 1..storeStamp'[t] : t \in Feeds[d]}
    BY DEF StoreStampsDelimit
  <2>1. CASE t = s
    BY <2>1, FoldStoreSums
  <2>2. CASE t # s
    <3>1. folded'[t] = folded[t] /\ storeStamp'[t] = storeStamp[t]
      BY <1>3, <2>2 DEF FoldedStores, Sums
    <3>. QED BY <3>1 DEF SumInv, StoreStampsDelimit
  <2>. QED BY <2>1, <2>2
<1>5. ASSUME NEW d \in 1..applied, s # "langs", d \in Rows(s)
      PROVE  d \in folded'[s]
  BY <1>5, FoldStoreSums DEF FoldedStores, Rows
<1>6. SumsDurable'
  <2> SUFFICES ASSUME NEW d \in Committed, NEW t \in SumsKept, d \in Rows(t)
               PROVE  d \in folded'[t]
    BY <1>1 DEF SumsDurable, Committed
  <2>1. CASE t # s
    BY <1>3, <2>1 DEF SumInv, SumsDurable, SumsKept
  <2>2. CASE t = s
    BY <1>2, <1>5, <2>2 DEF Committed, SumsKept
  <2>. QED BY <2>1, <2>2
<1>7. StageSound'
  <2>1. pc \notin {"idle", "manifest"}
    BY <1>1 DEF Stores
  <2>2. \A t \in Stages : stage'[t] \subseteq stage[t]
    BY <1>1, <1>2
  <2>. QED BY <1>1, <2>1, <2>2 DEF SumInv, StageSound
<1>8. RunSumsKept'
  <2> SUFFICES ASSUME NEW t \in SumsKept, NEW d \in RunDiffs \intersect Rows(t)
               PROVE  /\ next \in FoldedAt(t) => d \in folded'[t]
                      /\ next \notin FoldedAt(t) => InStage(StageOf(t), d)'
    BY <1>1 DEF RunSumsKept, RunDiffs
  <2>1. CASE t = s
    <3>1. next \in FoldedAt(t) /\ s # "langs"
      BY <2>1, FoldOrderFolds DEF SumsKept
    <3>2. d \in 1..applied
      BY <1>2 DEF RunDiffs
    <3>. QED BY <1>5, <2>1, <3>1, <3>2
  <2>2. CASE t # s
    <3>1. CASE next \in FoldedAt(t)
      <4>1. s \in FoldedAt(t)
        BY <2>2, <3>1, FoldOrderFolds
      <4>. QED BY <1>1, <1>3, <2>2, <3>1, <4>1 DEF SumInv, RunSumsKept, SumsKept
    <3>2. CASE next \notin FoldedAt(t)
      <4>1. s \notin FoldedAt(t) /\ s # "idle"
        BY <2>2, <3>2, FoldOrderFolds DEF Stores
      <4>2. InStage(StageOf(t), d)
        BY <1>1, <4>1 DEF SumInv, RunSumsKept
      <4>3. StageOf(t) # s /\ StageOf(t) \in Stages
        BY <2>2 DEF StageOf, Stages, Stores
      <4>4. stage'[StageOf(t)] = stage[StageOf(t)]
        BY <1>1, <1>2, <4>3
      <4>. QED BY <3>2, <4>2, <4>4 DEF InStage
    <3>. QED BY <3>1, <3>2
  <2>. QED BY <2>1, <2>2
<1>. QED BY <1>4, <1>6, <1>7, <1>8 DEF SumInv

\* flagged_move_days empties the suspect stages once their stores are folded.
LEMMA SumFlagMoves == ASSUME Inv1, SumInv, FlagMoves PROVE SumInv'
<1>1. /\ stage' = [s \in Stages |-> IF s = "history" THEN stage[s] ELSE {}]
      /\ pc = "moves" /\ pc' = "langs"
      /\ UNCHANGED <<source, storeVars, base, applied>>
  BY DEF FlagMoves, planVars, loopVars
<1>2. SumsDurable' /\ StoreStampsDelimit'
  BY <1>1 DEF SumInv, SumsDurable, StoreStampsDelimit, Committed, storeVars
<1>3. StageSound'
  BY <1>1 DEF SumInv, StageSound
<1>4. RunSumsKept'
  <2> SUFFICES ASSUME NEW s \in SumsKept, NEW d \in RunDiffs \intersect Rows(s)
               PROVE  /\ "langs" \in FoldedAt(s) => d \in folded[s]
                      /\ "langs" \notin FoldedAt(s) => InStage(StageOf(s), d)'
    BY <1>1 DEF RunSumsKept, RunDiffs, storeVars
  <2>1. CASE s \in {"counts", "cells", "tags"}
    <3>1. "moves" \in FoldedAt(s) /\ "langs" \in FoldedAt(s)
      BY <2>1 DEF FoldedAt, CommitSteps
    <3>. QED BY <1>1, <3>1 DEF SumInv, RunSumsKept
  <2>2. CASE s \in {"ranking", "history"}
    <3>1. "moves" \notin FoldedAt(s) /\ "langs" \notin FoldedAt(s) /\ StageOf(s) = "history"
      BY <2>2 DEF FoldedAt, CommitSteps, StageOf, Stores
    <3>2. InStage("history", d)
      BY <1>1, <3>1 DEF SumInv, RunSumsKept
    <3>. QED BY <1>1, <3>1, <3>2 DEF InStage, Stages
  <2>. QED BY <2>1, <2>2 DEF SumsKept, Sums, Stores
<1>. QED BY <1>2, <1>3, <1>4 DEF SumInv

\* Summing the history stage into the ranking or the history.
LEMMA AddHistorySums ==
  ASSUME Inv1, SumInv, NEW s \in {"ranking", "history"}, AddHistoryTo(s), pc = s
  PROVE  /\ \A t \in Sums : t # s => folded'[t] = folded[t]
         /\ folded[s] \subseteq folded'[s]
         /\ \A d \in RunDiffs \intersect Rows(s) : d \in folded'[s]
<1>1. s \in Sums /\ s \in SumsKept /\ folded \in [Sums -> SUBSET Seqs]
  BY DEF Sums, SumsKept, Stores, Inv1, TypeOK, DiskTypeOK
<1>2. folded' = [folded EXCEPT ![s] = @ \union Covered(stage["history"])]
  BY DEF AddHistoryTo
<1>3. ASSUME NEW d \in RunDiffs \intersect Rows(s) PROVE d \in Covered(stage["history"])
  <2>1. s \notin FoldedAt(s) \union {"idle"} /\ StageOf(s) = "history"
    BY DEF FoldedAt, CommitSteps, StageOf, Stores
  <2>2. InStage("history", d)
    BY <1>1, <2>1 DEF SumInv, RunSumsKept
  <2>. QED BY <2>2 DEF InStage, Covered
<1>. QED BY <1>1, <1>2, <1>3

\* Steps of the finalize: what they do to the sums decides whether they keep SumInv.
LEMMA SumFinalizeStep ==
  ASSUME Inv1, SumInv, UNCHANGED <<source, storeStamp, base, applied>>,
         pc \in {"ranking", "history", "suspects"},
         pc' \in {"history", "suspects", "nodecache"},
         \A t \in Stores : folded'[t] = folded[t],
         \A t \in Sums : folded[t] \subseteq folded'[t],
         \A t \in Stages : stage'[t] \subseteq stage[t],
         RunSumsKept'
  PROVE  SumInv'
<1>1. SumsDurable'
  BY DEF SumInv, SumsDurable, Committed, SumsKept
<1>2. StoreStampsDelimit'
  BY DEF SumInv, StoreStampsDelimit, FoldedStores
<1>3. StageSound'
  BY DEF SumInv, StageSound
<1>. QED BY <1>1, <1>2, <1>3 DEF SumInv

LEMMA FoldedInFinalize ==
  ASSUME NEW s \in SumsKept
  PROVE  /\ "ranking" \in FoldedAt(s) <=> s \notin {"ranking", "history"}
         /\ "history" \in FoldedAt(s) <=> s # "history"
  BY DEF FoldedAt, CommitSteps, SumsKept, Sums, Stores

LEMMA SumWriteRanking == ASSUME Inv1, SumInv, WriteRanking PROVE SumInv'
<1>1. pc = "ranking" /\ UNCHANGED <<source, storeStamp, stage, base, applied>>
  BY DEF WriteRanking, planVars, loopVars
<1>2. ASSUME NEW s \in {"ranking", "history"} PROVE s \in SumsKept /\ StageOf(s) = "history"
  BY DEF SumsKept, Sums, Stores, StageOf
<1>3. CASE stage["history"] = {} /\ pc' = "nodecache" /\ UNCHANGED <<folded, refolded>>
  <2>1. ASSUME NEW s \in SumsKept, NEW d \in RunDiffs \intersect Rows(s)
        PROVE  d \in folded[s]
    <3>1. CASE s \in {"ranking", "history"}
      <4>1. InStage("history", d)
        BY <1>1, <1>2, <3>1, FoldedInFinalize DEF SumInv, RunSumsKept
      <4>. QED BY <1>3, <4>1 DEF InStage
    <3>2. CASE s \notin {"ranking", "history"}
      BY <1>1, <3>2, FoldedInFinalize DEF SumInv, RunSumsKept
    <3>. QED BY <3>1, <3>2
  <2>2. RunSumsKept'
    BY <1>1, <1>3, <2>1, FoldedLate DEF RunSumsKept, RunDiffs
  <2>. QED BY <1>1, <1>3, <2>2, SumFinalizeStep
<1>4. CASE pc' = "history" /\ AddHistoryTo("ranking")
  <2>1. /\ \A t \in Sums : t # "ranking" => folded'[t] = folded[t]
        /\ folded["ranking"] \subseteq folded'["ranking"]
        /\ \A d \in RunDiffs \intersect Rows("ranking") : d \in folded'["ranking"]
    BY <1>1, <1>4, AddHistorySums
  <2>2. RunSumsKept'
    <3> SUFFICES ASSUME NEW s \in SumsKept, NEW d \in RunDiffs \intersect Rows(s)
                 PROVE  /\ s # "history" => d \in folded'[s]
                        /\ s = "history" => InStage(StageOf(s), d)
      BY <1>1, <1>4, FoldedInFinalize DEF RunSumsKept, RunDiffs, InStage
    <3>1. CASE s = "ranking"
      BY <2>1, <3>1
    <3>2. CASE s # "ranking"
      <4>1. /\ s # "history" => d \in folded[s]
            /\ s = "history" => InStage(StageOf(s), d)
        BY <1>1, <3>2, FoldedInFinalize DEF SumInv, RunSumsKept
      <4>. QED BY <2>1, <3>2, <4>1 DEF SumsKept
    <3>. QED BY <3>1, <3>2
  <2>3. \A t \in Stores : folded'[t] = folded[t]
    BY <2>1 DEF Sums, Stores
  <2>. QED BY <1>1, <1>4, <2>1, <2>2, <2>3, SumFinalizeStep
<1>. QED BY <1>3, <1>4 DEF WriteRanking

LEMMA SumWriteHistory == ASSUME Inv1, SumInv, WriteHistory PROVE SumInv'
<1>1. /\ pc = "history" /\ pc' = "suspects" /\ AddHistoryTo("history")
      /\ UNCHANGED <<source, storeStamp, stage, base, applied>>
  BY DEF WriteHistory, planVars, loopVars
<1>2. /\ \A t \in Sums : t # "history" => folded'[t] = folded[t]
      /\ folded["history"] \subseteq folded'["history"]
      /\ \A d \in RunDiffs \intersect Rows("history") : d \in folded'["history"]
  BY <1>1, AddHistorySums
<1>3. RunSumsKept'
  <2> SUFFICES ASSUME NEW s \in SumsKept, NEW d \in RunDiffs \intersect Rows(s)
               PROVE  d \in folded'[s]
    BY <1>1, FoldedLate DEF RunSumsKept, RunDiffs
  <2>1. CASE s = "history"
    BY <1>2, <2>1
  <2>2. CASE s # "history"
    <3>1. d \in folded[s]
      BY <1>1, <2>2, FoldedInFinalize DEF SumInv, RunSumsKept
    <3>. QED BY <1>2, <2>2, <3>1 DEF SumsKept
  <2>. QED BY <2>1, <2>2
<1>4. \A t \in Stores : folded'[t] = folded[t]
  BY <1>2 DEF Sums, Stores
<1>. QED BY <1>1, <1>2, <1>3, <1>4, SumFinalizeStep

LEMMA SumWriteSuspects == ASSUME Inv1, SumInv, WriteSuspects PROVE SumInv'
<1>1. /\ pc = "suspects" /\ pc' = "nodecache" /\ stage' = [stage EXCEPT !["history"] = {}]
      /\ UNCHANGED <<source, storeVars, base, applied>>
  BY DEF WriteSuspects, planVars, loopVars
<1>2. RunSumsKept'
  BY <1>1, FoldedLate DEF SumInv, RunSumsKept, RunDiffs, storeVars
<1>3. \A t \in Stages : stage'[t] \subseteq stage[t]
  BY <1>1 DEF Inv1, TypeOK, DiskTypeOK
<1>. QED BY <1>1, <1>2, <1>3, SumFinalizeStep DEF storeVars

LEMMA SumWriteManifest == ASSUME Inv1, SumInv, WriteManifest PROVE SumInv'
<1>1. pc = "manifest" /\ pc' = "idle" /\ UNCHANGED <<stage, storeVars>>
  BY DEF WriteManifest, ProcessEnds
<1>2. \A s \in SumsKept : \A d \in RunDiffs \intersect Rows(s) : d \in folded[s]
  BY <1>1, FoldedLate DEF SumInv, RunSumsKept
<1>3. SumsDurable'
  BY <1>1, <1>2, ManifestCovers DEF SumInv, SumsDurable, storeVars
<1>4. StoreStampsDelimit' /\ StageSound'
  BY <1>1 DEF SumInv, StoreStampsDelimit, StageSound, storeVars
<1>5. RunSumsKept'
  BY <1>1, IdleNotFolded DEF RunSumsKept
<1>. QED BY <1>3, <1>4, <1>5 DEF SumInv

LEMMA SumCrashes == ASSUME Inv1, SumInv, Crashes PROVE SumInv'
<1>1. /\ ProcessEnds /\ UNCHANGED <<stage, storeVars>>
      /\ source' = source \/ source' = [source EXCEPT !.ok = FALSE]
  BY DEF Crashes, Crash, CrashWhileStaging, CrashWhileDropping, CrashWhileWritingManifest
<1>2. source'.seq = source.seq
  BY <1>1 DEF Inv1, TypeOK, DiskTypeOK
<1>. QED BY <1>1, <1>2, SumEnds

LEMMA SumNext == ASSUME Inv1, SumInv, [Next]_vars PROVE SumInv'
<1>1. CASE UNCHANGED vars
  BY <1>1, SumFrame DEF vars, planVars, loopVars
<1>2. CASE Publish
  BY <1>2, SumFrame DEF Publish, planVars, loopVars
<1>3. CASE FetchDiff \/ NodePass \/ PersistTagCaches \/ PersistNodeCache
  BY <1>3, SumFrame DEF FetchDiff, NodePass, PersistTagCaches, PersistNodeCache, planVars,
     loopVars, EarlySteps, FetchSteps
<1>4. CASE FetchFails
  <2>1. CASE ProcessEnds
    BY <1>4, <2>1, SumEnds DEF FetchFails
  <2>2. CASE pc' = (IF batch # {} THEN "nodes" ELSE "tagcache") /\ UNCHANGED <<planVars, applied>>
    BY <1>4, <2>2, SumFrame DEF FetchFails, planVars, EarlySteps, FetchSteps
  <2>. QED BY <1>4, <2>1, <2>2 DEF FetchFails
<1>5. CASE Merge
  <2>1. ASSUME NEW y \in Years, MergeThrows(y) PROVE SumInv'
    BY <2>1, SumEnds DEF MergeThrows
  <2>2. ASSUME NEW y \in Years, MergeYear(y) \/ DropStaging(y) PROVE SumInv'
    BY <2>2, SumFrame DEF MergeYear, DropStaging, planVars, loopVars
  <2>3. CASE MergeDone
    BY <2>3, SumFrame DEF MergeDone, planVars, loopVars, EarlySteps
  <2>. QED BY <1>5, <2>1, <2>2, <2>3 DEF Merge
<1>6. CASE Fold
  <2>1. ASSUME NEW s \in Stores, NEW next, <<s, next>> \in FoldOrder, FoldStore(s, next)
        PROVE  SumInv'
    BY <2>1, SumFoldStore
  <2>2. CASE FlagMoves
    BY <2>2, SumFlagMoves
  <2>. QED BY <1>6, <2>1, <2>2 DEF Fold, FoldOrder, Stores
<1>7. CASE Finalize
  BY <1>7, SumWriteRanking, SumWriteHistory, SumWriteSuspects DEF Finalize
<1>8. CASE (\E cap \in Caps : Start(cap)) \/ ScanPass \/ WriteManifest \/ Crashes
  BY <1>8, SumStart, SumScanPass, SumWriteManifest, SumCrashes
<1>. QED BY <1>1, <1>2, <1>3, <1>4, <1>5, <1>6, <1>7, <1>8 DEF Next, Step

-----------------------------------------------------------------------------
(* The caches and the far moves.                                           *)

CommitBeforeMoves == {"tagcache", "merge", "counts", "cells", "tags", "moves"}

LEMMA CacheInit == Init => CacheInv
<1> SUFFICES ASSUME Init PROVE CacheInv
  OBVIOUS
<1>1. pc = "idle" /\ source.seq = 0 /\ nodeCache = {}
  BY DEF Init, Idle
<1>. QED
  BY <1>1 DEF CacheInv, CachesDurable, FarMovesSurvive, RunCachesKept, RunMovesKept, Committed,
     CommitSteps, FetchSteps

LEMMA CacheEnds ==
  ASSUME CacheInv, ProcessEnds, source'.seq = source.seq, UNCHANGED <<flagVars, cacheVars>>
  PROVE  CacheInv'
<1>1. pc' = "idle"
  BY DEF ProcessEnds
<1>. QED
  BY <1>1 DEF CacheInv, CachesDurable, FarMovesSurvive, RunCachesKept, RunMovesKept, Committed,
     CommitSteps, FetchSteps, flagVars, cacheVars

\* Steps that leave the caches, the flags and the staged moves alone.
LEMMA CacheFrame ==
  ASSUME CacheInv, UNCHANGED <<source, flagVars, cacheVars, base, applied, moveFlags>>,
         stage'["moves"] = stage["moves"],
         \/ pc \in FetchSteps /\ pc' \in FetchSteps \union {"tagcache"}
         \/ pc \in CommitBeforeMoves \ {"tagcache"} /\ pc' \in CommitBeforeMoves \ {"tagcache"}
         \/ pc \in {"langs", "ranking"} /\ pc' \in {"ranking", "history"}
         \/ pc' = pc
  PROVE  CacheInv'
<1>1. CachesDurable' /\ FarMovesSurvive'
  BY DEF CacheInv, CachesDurable, FarMovesSurvive, Committed, flagVars, cacheVars
<1>2. RunDiffs' = RunDiffs
  BY DEF RunDiffs
<1>3. /\ pc' \in CommitSteps \ {"tagcache"} => pc \in CommitSteps \ {"tagcache"}
      /\ pc' = "manifest" => pc = "manifest"
  BY DEF CommitBeforeMoves, CommitSteps, FetchSteps
<1>4. RunCachesKept'
  BY <1>2, <1>3 DEF CacheInv, RunCachesKept, cacheVars
<1>5. /\ pc' \in FetchSteps \union CommitBeforeMoves => pc \in FetchSteps \union CommitBeforeMoves
      /\ pc' \in {"langs", "ranking", "history"} => pc \in {"langs", "ranking", "history"}
      /\ pc' \in {"suspects", "nodecache"} => pc' = pc
  BY DEF CommitBeforeMoves, FetchSteps
<1>6. RunMovesKept'
  BY <1>2, <1>5 DEF CacheInv, RunMovesKept, CommitBeforeMoves, InStage, flagVars, cacheVars
<1>. QED BY <1>1, <1>4, <1>6 DEF CacheInv

LEMMA CacheStart == ASSUME Inv1, CacheInv, NEW cap \in Caps, Start(cap) PROVE CacheInv'
<1>1. /\ UNCHANGED <<source, flagVars, cacheVars>>
      /\ base' = source.seq /\ applied' = source.seq
  BY DEF Start
<1>2. RunDiffs' = {}
  BY <1>1 DEF RunDiffs, Inv1, TypeOK, DiskTypeOK
<1>3. CachesDurable' /\ FarMovesSurvive'
  BY <1>1 DEF CacheInv, CachesDurable, FarMovesSurvive, Committed, flagVars, cacheVars
<1>4. RunCachesKept' /\ RunMovesKept'
  BY <1>2 DEF RunCachesKept, RunMovesKept
<1>. QED BY <1>3, <1>4 DEF CacheInv

LEMMA CacheScanPass == ASSUME Inv1, CacheInv, ScanPass PROVE CacheInv'
<1>1. /\ stage' = [s \in Stages |->
                    stage[s] \union {b \in {[seq |-> BatchSeq, diffs |-> Staged(s)]} :
                                       b.diffs # {}}]
      /\ pc = "scan" /\ pc' \in {"fetch", "tagcache"} /\ applied' = BatchSeq
      /\ UNCHANGED <<source, flagVars, cacheVars, base>>
  BY DEF ScanPass, planVars
<1>2. CachesDurable' /\ FarMovesSurvive'
  BY <1>1 DEF CacheInv, CachesDurable, FarMovesSurvive, Committed, flagVars, cacheVars
<1>3. RunDiffs' = RunDiffs \union batch
  BY <1>1, BatchFacts DEF RunDiffs
<1>4. ASSUME NEW d \in RunDiffs', "moves" \in Feeds[d], d \notin nodeCache
      PROVE  InStage("moves", d)'
  <2>1. CASE d \in RunDiffs
    <3>1. InStage("moves", d)
      BY <1>1, <1>4, <2>1 DEF CacheInv, RunMovesKept, FetchSteps
    <3>. QED BY <1>1, <3>1 DEF InStage, Stages
  <2>2. CASE d \in batch
    <3> DEFINE b == [seq |-> BatchSeq, diffs |-> Staged("moves")]
    <3>1. d \in b.diffs
      BY <1>4, <2>2 DEF Staged
    <3>2. b \in stage'["moves"]
      BY <1>1, <3>1 DEF Stages
    <3>. QED BY <3>1, <3>2 DEF InStage
  <2>. QED BY <1>3, <2>1, <2>2
<1>5. RunCachesKept' /\ RunMovesKept'
  BY <1>1, <1>4 DEF RunCachesKept, RunMovesKept, CommitSteps, cacheVars
<1>. QED BY <1>2, <1>5 DEF CacheInv

LEMMA CacheTagCaches == ASSUME Inv1, CacheInv, PersistTagCaches PROVE CacheInv'
<1>1. /\ pc = "tagcache" /\ pc' = "merge" /\ tagCache' = tagCache \union RunDiffs
      /\ UNCHANGED <<source, stage, flagVars, nodeCache, base, applied>>
  BY DEF PersistTagCaches, planVars, loopVars
<1>2. CachesDurable' /\ FarMovesSurvive'
  BY <1>1 DEF CacheInv, CachesDurable, FarMovesSurvive, Committed, flagVars
<1>3. RunCachesKept' /\ RunMovesKept'
  BY <1>1 DEF CacheInv, RunCachesKept, RunMovesKept, RunDiffs, InStage
<1>. QED BY <1>2, <1>3 DEF CacheInv

LEMMA CacheFlagMoves == ASSUME Inv1, CacheInv, FlagMoves PROVE CacheInv'
<1>1. /\ pc = "moves" /\ pc' = "langs" /\ moveFlags' = Covered(stage["moves"])
      /\ UNCHANGED <<source, flagVars, cacheVars, base, applied>>
  BY DEF FlagMoves, planVars, loopVars
<1>2. CachesDurable' /\ FarMovesSurvive'
  BY <1>1 DEF CacheInv, CachesDurable, FarMovesSurvive, Committed, flagVars, cacheVars
<1>3. RunCachesKept'
  BY <1>1 DEF CacheInv, RunCachesKept, RunDiffs, CommitSteps, cacheVars
<1>4. RunMovesKept'
  BY <1>1 DEF CacheInv, RunMovesKept, RunDiffs, FetchSteps, InStage, Covered, cacheVars
<1>. QED BY <1>2, <1>3, <1>4 DEF CacheInv

\* A run with a far move has a history stage, so its finalize is not skipped.
LEMMA CacheWriteRanking == ASSUME Inv1, SumInv, CacheInv, WriteRanking PROVE CacheInv'
<1>1. /\ pc = "ranking" /\ UNCHANGED <<source, stage, flagVars, cacheVars, base, applied, moveFlags>>
  BY DEF WriteRanking, planVars, loopVars, workVars
<1>2. CASE pc' = "history"
  BY <1>1, <1>2, CacheFrame
<1>3. CASE stage["history"] = {} /\ pc' = "nodecache"
  <2>1. CachesDurable' /\ FarMovesSurvive'
    BY <1>1 DEF CacheInv, CachesDurable, FarMovesSurvive, Committed, flagVars, cacheVars
  <2>2. RunCachesKept'
    BY <1>1, <1>3 DEF CacheInv, RunCachesKept, RunDiffs, CommitSteps, cacheVars
  <2>3. ASSUME NEW d \in RunDiffs, "moves" \in Feeds[d] PROVE FALSE
    <3>1. d \in Seqs
      BY RunDiffsType DEF Inv1
    <3>2. "ranking" \in SumsKept /\ StageOf("ranking") = "history" /\ d \in Rows("ranking")
      BY <2>3, <3>1, StreamAssumption DEF SumsKept, Sums, Stores, StageOf, Rows
    <3>3. InStage("history", d)
      BY <1>1, <3>2, FoldedInFinalize DEF SumInv, RunSumsKept
    <3>. QED BY <1>3, <3>3 DEF InStage
  <2>4. RunMovesKept'
    BY <1>1, <2>3 DEF RunMovesKept, RunDiffs
  <2>. QED BY <2>1, <2>2, <2>4 DEF CacheInv
<1>. QED BY <1>2, <1>3 DEF WriteRanking

LEMMA CacheWriteHistory == ASSUME Inv1, CacheInv, WriteHistory PROVE CacheInv'
<1>1. /\ pc = "history" /\ pc' = "suspects" /\ flagged' = flagged \union moveFlags
      /\ UNCHANGED <<source, suspects, cacheVars, base, applied>>
  BY DEF WriteHistory, planVars, loopVars
<1>2. CachesDurable' /\ FarMovesSurvive'
  BY <1>1 DEF CacheInv, CachesDurable, FarMovesSurvive, Committed, cacheVars
<1>3. RunCachesKept'
  BY <1>1 DEF CacheInv, RunCachesKept, RunDiffs, CommitSteps, cacheVars
<1>4. RunMovesKept'
  BY <1>1 DEF CacheInv, RunMovesKept, RunDiffs, FetchSteps, cacheVars
<1>. QED BY <1>2, <1>3, <1>4 DEF CacheInv

LEMMA CacheWriteSuspects == ASSUME Inv1, CacheInv, WriteSuspects PROVE CacheInv'
<1>1. /\ pc = "suspects" /\ pc' = "nodecache" /\ suspects' = flagged
      /\ UNCHANGED <<source, flagged, cacheVars, base, applied>>
  BY DEF WriteSuspects, planVars, loopVars
<1>2. CachesDurable' /\ FarMovesSurvive'
  BY <1>1 DEF CacheInv, CachesDurable, FarMovesSurvive, Committed, cacheVars
<1>3. RunCachesKept'
  BY <1>1 DEF CacheInv, RunCachesKept, RunDiffs, CommitSteps, cacheVars
<1>4. RunMovesKept'
  BY <1>1 DEF CacheInv, RunMovesKept, RunDiffs, FetchSteps, cacheVars
<1>. QED BY <1>2, <1>3, <1>4 DEF CacheInv

\* The node cache forgets the positions before the run only now that its far moves
\* are flagged and listed.
LEMMA CacheNodeCache == ASSUME Inv1, CacheInv, PersistNodeCache PROVE CacheInv'
<1>1. /\ pc = "nodecache" /\ pc' = "manifest" /\ nodeCache' = nodeCache \union RunDiffs
      /\ UNCHANGED <<source, flagVars, tagCache, base, applied>>
  BY DEF PersistNodeCache, planVars, loopVars
<1>2. CachesDurable'
  BY <1>1 DEF CacheInv, CachesDurable, Committed
<1>3. FarMovesSurvive'
  BY <1>1 DEF CacheInv, FarMovesSurvive, RunMovesKept, flagVars
<1>4. RunCachesKept'
  BY <1>1 DEF CacheInv, RunCachesKept, RunDiffs, CommitSteps
<1>5. RunMovesKept'
  BY <1>1 DEF RunMovesKept, FetchSteps
<1>. QED BY <1>2, <1>3, <1>4, <1>5 DEF CacheInv

LEMMA CacheWriteManifest == ASSUME Inv1, CacheInv, WriteManifest PROVE CacheInv'
<1>1. pc = "manifest" /\ pc' = "idle" /\ UNCHANGED <<flagVars, cacheVars>>
  BY DEF WriteManifest, ProcessEnds
<1>2. RunDiffs \subseteq tagCache /\ RunDiffs \subseteq nodeCache
  BY <1>1 DEF CacheInv, RunCachesKept, CommitSteps
<1>3. CachesDurable'
  BY <1>1, <1>2, ManifestCovers DEF CacheInv, CachesDurable, cacheVars
<1>4. FarMovesSurvive' /\ RunCachesKept' /\ RunMovesKept'
  BY <1>1 DEF CacheInv, FarMovesSurvive, RunCachesKept, RunMovesKept, FetchSteps, CommitSteps,
     flagVars, cacheVars
<1>. QED BY <1>3, <1>4 DEF CacheInv

LEMMA CacheCrashes == ASSUME Inv1, CacheInv, Crashes PROVE CacheInv'
<1>1. /\ ProcessEnds /\ UNCHANGED <<flagVars, cacheVars>>
      /\ source' = source \/ source' = [source EXCEPT !.ok = FALSE]
  BY DEF Crashes, Crash, CrashWhileStaging, CrashWhileDropping, CrashWhileWritingManifest
<1>2. source'.seq = source.seq
  BY <1>1 DEF Inv1, TypeOK, DiskTypeOK
<1>. QED BY <1>1, <1>2, CacheEnds

LEMMA CacheNext == ASSUME Inv1, SumInv, CacheInv, [Next]_vars PROVE CacheInv'
<1>1. CASE UNCHANGED vars
  BY <1>1, CacheFrame DEF vars, planVars, loopVars, workVars
<1>2. CASE Publish
  BY <1>2, CacheFrame DEF Publish, planVars, loopVars, workVars
<1>3. CASE FetchDiff \/ NodePass
  BY <1>3, CacheFrame DEF FetchDiff, NodePass, planVars, loopVars, workVars, FetchSteps
<1>4. CASE FetchFails
  <2>1. CASE ProcessEnds
    BY <1>4, <2>1, CacheEnds DEF FetchFails
  <2>2. CASE /\ pc' = (IF batch # {} THEN "nodes" ELSE "tagcache")
             /\ UNCHANGED <<planVars, applied, workVars>>
    BY <1>4, <2>2, CacheFrame DEF FetchFails, planVars, workVars, FetchSteps
  <2>. QED BY <1>4, <2>1, <2>2 DEF FetchFails
<1>5. CASE Merge
  <2>1. ASSUME NEW y \in Years, MergeThrows(y) PROVE CacheInv'
    BY <2>1, CacheEnds DEF MergeThrows
  <2>2. ASSUME NEW y \in Years, MergeYear(y) \/ DropStaging(y) PROVE CacheInv'
    BY <2>2, CacheFrame DEF MergeYear, DropStaging, planVars, loopVars, workVars
  <2>3. CASE MergeDone
    BY <2>3, CacheFrame DEF MergeDone, planVars, loopVars, workVars, CommitBeforeMoves
  <2>. QED BY <1>5, <2>1, <2>2, <2>3 DEF Merge
<1>6. CASE Fold
  <2>1. ASSUME NEW s \in Stores, NEW next, <<s, next>> \in FoldOrder, FoldStore(s, next)
        PROVE  CacheInv'
    <3>1. stage'["moves"] = stage["moves"]
      BY <2>1 DEF FoldStore, Stores, Inv1, TypeOK, DiskTypeOK
    <3>2. \/ pc \in CommitBeforeMoves \ {"tagcache"} /\ pc' \in CommitBeforeMoves \ {"tagcache"}
          \/ pc = "langs" /\ pc' = "ranking"
      BY <2>1 DEF FoldStore, FoldOrder, CommitBeforeMoves
    <3>. QED BY <2>1, <3>1, <3>2, CacheFrame DEF FoldStore, planVars, loopVars, workVars
  <2>2. CASE FlagMoves
    BY <2>2, CacheFlagMoves
  <2>. QED BY <1>6, <2>1, <2>2 DEF Fold, FoldOrder, Stores
<1>7. CASE Finalize
  BY <1>7, CacheWriteRanking, CacheWriteHistory, CacheWriteSuspects DEF Finalize
<1>8. CASE \/ \E cap \in Caps : Start(cap)
           \/ ScanPass \/ PersistTagCaches \/ PersistNodeCache \/ WriteManifest \/ Crashes
  BY <1>8, CacheStart, CacheScanPass, CacheTagCaches, CacheNodeCache, CacheWriteManifest,
     CacheCrashes
<1>. QED BY <1>1, <1>2, <1>3, <1>4, <1>5, <1>6, <1>7, <1>8 DEF Next, Step

-----------------------------------------------------------------------------
(* The safety theorems.                                                    *)

Inv2 == Inv1 /\ PartInv /\ SumInv /\ CacheInv

LEMMA Inv2Holds == Spec => []Inv2
<1>1. Init => Inv2
  BY Init1, PartInit, SumInit, CacheInit DEF Inv2
<1>2. Inv2 /\ [Next]_vars => Inv2'
  BY Next1, PartNext, SumNext, CacheNext DEF Inv2
<1>. QED BY <1>1, <1>2, PTL DEF Spec

\* Whatever sequence the manifest records, every output and both caches hold all the
\* diffs up to it: the commit writes the manifest after everything else.
THEOREM CommittedIsDurableTheorem == Spec => []CommittedIsDurable
<1>1. Inv2 => CommittedIsDurable
  BY DEF Inv2, PartInv, SumInv, CacheInv, PartsDurable, SumsDurable, CachesDurable,
     CommittedIsDurable, SumsKept
<1>. QED BY <1>1, Inv2Holds, PTL

\* The stamp of a year and of a suspect store tells exactly which diffs it holds, so
\* that skipping what a stamp covers neither loses nor repeats a diff.
THEOREM StampsDelimitContentTheorem == Spec => []StampsDelimitContent
<1>1. Inv2 => StampsDelimitContent
  <2> SUFFICES ASSUME Inv2 PROVE StampsDelimitContent
    OBVIOUS
  <2>1. ASSUME NEW y \in Years, NEW k \in Kinds
        PROVE  merged[<<y, k>>] = {d \in 1..yearStamp[y] : <<y, k>> \in Touches[d]}
    <3>1. <<y, k>> \in Parts /\ <<y, k>>[1] = y
      BY DEF Parts
    <3>. QED BY <3>1 DEF Inv2, PartInv, YearStampsDelimit
  <2>. QED BY <2>1 DEF Inv2, SumInv, StoreStampsDelimit, StampsDelimitContent
<1>. QED BY <1>1, Inv2Holds, PTL

\* No far move is lost: the node cache forgets the position before a diff only when
\* the flags derived from it are in the history and in the suspect list.
THEOREM FarMovesSurviveTheorem == Spec => []FarMovesSurvive
<1>1. Inv2 => FarMovesSurvive
  BY DEF Inv2, CacheInv
<1>. QED BY <1>1, Inv2Holds, PTL

\* The merge leaves no staging file behind, not even one a crashed run left under a
\* sequence this run never reaches.
THEOREM MergeConsumesStagingTheorem == Spec => []MergeConsumesStaging
<1>1. Inv2 => MergeConsumesStaging
  BY DEF Inv2, PartInv, StagingDropped, AfterMerge, MergeConsumesStaging
<1>. QED BY <1>1, Inv2Holds, PTL

-----------------------------------------------------------------------------
(* The ledger.                                                             *)

\* The actions that sum nothing into a year partition, and into an output.
LEMMA PartsUnchanged ==
  ASSUME [Next]_vars, ~ \E y \in Years : MergeYear(y) PROVE UNCHANGED <<merged, remerged>>
<1>1. CASE UNCHANGED vars
  BY <1>1 DEF vars, partVars
<1>2. CASE \/ \E cap \in Caps : Start(cap)
           \/ FetchDiff \/ FetchFails \/ NodePass \/ ScanPass
  BY <1>2 DEF Start, FetchDiff, FetchFails, NodePass, ScanPass, partVars
<1>3. CASE Merge \/ PersistTagCaches
  BY <1>3 DEF Merge, DropStaging, MergeThrows, MergeDone, PersistTagCaches, partVars
<1>4. CASE Fold \/ Finalize
  BY <1>4 DEF Fold, FoldStore, FlagMoves, Finalize, WriteRanking, WriteHistory, WriteSuspects,
     partVars
<1>5. CASE PersistNodeCache \/ WriteManifest \/ Publish
  BY <1>5 DEF PersistNodeCache, WriteManifest, Publish, partVars
<1>6. CASE Crashes
  BY <1>6 DEF Crashes, Crash, CrashWhileStaging, CrashWhileDropping,
     CrashWhileWritingManifest, partVars
<1>. QED BY <1>1, <1>2, <1>3, <1>4, <1>5, <1>6 DEF Next, Step

LEMMA SumsUnchanged ==
  ASSUME [Next]_vars, ~Fold, ~Finalize PROVE UNCHANGED <<folded, refolded>>
<1>1. CASE UNCHANGED vars
  BY <1>1 DEF vars, storeVars
<1>2. CASE \/ \E cap \in Caps : Start(cap)
           \/ FetchDiff \/ FetchFails \/ NodePass \/ ScanPass
  BY <1>2 DEF Start, FetchDiff, FetchFails, NodePass, ScanPass, storeVars
<1>3. CASE Merge \/ PersistTagCaches
  BY <1>3 DEF Merge, MergeYear, DropStaging, MergeThrows, MergeDone, PersistTagCaches, storeVars
<1>4. CASE PersistNodeCache \/ WriteManifest \/ Publish
  BY <1>4 DEF PersistNodeCache, WriteManifest, Publish, storeVars
<1>5. CASE Crashes
  BY <1>5 DEF Crashes, Crash, CrashWhileStaging, CrashWhileDropping,
     CrashWhileWritingManifest, storeVars
<1>. QED BY <1>1, <1>2, <1>3, <1>4, <1>5 DEF Next, Step

LEMMA SourceUnchanged ==
  ASSUME Inv1, [Next]_vars, ~WriteManifest PROVE source'.seq = source.seq
<1>1. CASE UNCHANGED vars
  BY <1>1 DEF vars
<1>2. CASE \/ \E cap \in Caps : Start(cap)
           \/ FetchDiff \/ FetchFails \/ NodePass \/ ScanPass
  BY <1>2 DEF Start, FetchDiff, FetchFails, NodePass, ScanPass
<1>3. CASE Merge \/ PersistTagCaches
  BY <1>3 DEF Merge, MergeYear, DropStaging, MergeThrows, MergeDone, PersistTagCaches
<1>4. CASE Fold \/ Finalize
  BY <1>4 DEF Fold, FoldStore, FlagMoves, Finalize, WriteRanking, WriteHistory, WriteSuspects
<1>5. CASE PersistNodeCache \/ Publish
  BY <1>5 DEF PersistNodeCache, Publish
<1>6. CASE Crashes
  <2>1. source' = source \/ source' = [source EXCEPT !.ok = FALSE]
    BY <1>6 DEF Crashes, Crash, CrashWhileStaging, CrashWhileDropping, CrashWhileWritingManifest
  <2>. QED BY <2>1 DEF Inv1, TypeOK, DiskTypeOK
<1>. QED BY <1>1, <1>2, <1>3, <1>4, <1>5, <1>6 DEF Next, Step

-----------------------------------------------------------------------------
(* Outputs only grow, and by diffs that have rows for them.                *)

Grows(old, oldTwice, new, newTwice, needs) ==
  /\ old \subseteq new /\ new \subseteq old \union needs
  /\ oldTwice \subseteq newTwice /\ newTwice \subseteq oldTwice \union new

LEMMA PartsGrow ==
  ASSUME Inv2, [Next]_vars, NEW p \in Parts
  PROVE  Grows(merged[p], remerged[p], merged'[p], remerged'[p], {d \in Seqs : p \in Touches[d]})
<1>1. CASE ~ \E y \in Years : MergeYear(y)
  BY <1>1, PartsUnchanged DEF Grows
<1>2. ASSUME NEW y \in Years, MergeYear(y)
      PROVE  Grows(merged[p], remerged[p], merged'[p], remerged'[p],
                   {d \in Seqs : p \in Touches[d]})
  <2> DEFINE fs == {f \in Foldable(y) : f.part = p}
  <2>1. \/ merged'[p] = merged[p] /\ remerged'[p] = remerged[p]
        \/ /\ merged'[p] = merged[p] \union Covered(fs)
           /\ remerged'[p] = remerged[p] \union Recounted(merged[p], fs)
    BY <1>2 DEF MergeYear
  <2>2. Recounted(merged[p], fs) \subseteq Covered(fs)
    BY RecountedIsCovered
  <2>3. ASSUME NEW d \in Covered(fs) PROVE d \in Seqs /\ p \in Touches[d]
    <3>1. PICK f \in staging : f.part = p /\ d \in f.diffs
      BY DEF Covered, Foldable
    <3>. QED BY <3>1, StagingHasSeqs DEF Inv2, PartInv, StagingSound
  <2>. QED BY <2>1, <2>2, <2>3 DEF Grows
<1>. QED BY <1>1, <1>2

LEMMA StageHasRows ==
  ASSUME Inv2, NEW s \in SumsKept, NEW bs \in SUBSET stage[StageOf(s)]
  PROVE  Covered(bs) \subseteq Rows(s)
<1> SUFFICES ASSUME NEW d \in Covered(bs) PROVE d \in Rows(s)
  OBVIOUS
<1>1. StageOf(s) \in Stages
  BY DEF StageOf, Stages
<1>2. PICK b \in stage[StageOf(s)] : d \in b.diffs
  BY DEF Covered
<1>3. d \in Seqs
  BY <1>1, <1>2 DEF Inv2, Inv1, TypeOK, DiskTypeOK, StageDir
<1>4. StageOf(s) \in Feeds[d]
  BY <1>1, <1>2 DEF Inv2, SumInv, StageSound
<1>. QED BY <1>3, <1>4 DEF Rows, StageOf

LEMMA SumsGrow ==
  ASSUME Inv2, [Next]_vars, NEW s \in SumsKept
  PROVE  Grows(folded[s], refolded[s], folded'[s], refolded'[s], Rows(s))
<1>1. /\ folded \in [Sums -> SUBSET Seqs] /\ refolded \in [Sums -> SUBSET Seqs]
      /\ s \in Sums
  BY DEF Inv2, Inv1, TypeOK, DiskTypeOK, SumsKept
<1>2. CASE UNCHANGED <<folded, refolded>>
  BY <1>2 DEF Grows
<1>3. ASSUME NEW bs \in SUBSET stage[StageOf(s)],
             folded' = [folded EXCEPT ![s] = @ \union Covered(bs)],
             refolded' = [refolded EXCEPT ![s] = @ \union Recounted(folded[s], bs)]
      PROVE  Grows(folded[s], refolded[s], folded'[s], refolded'[s], Rows(s))
  <2>1. /\ folded'[s] = folded[s] \union Covered(bs)
        /\ refolded'[s] = refolded[s] \union Recounted(folded[s], bs)
    BY <1>1, <1>3
  <2>2. Covered(bs) \subseteq Rows(s)
    BY StageHasRows
  <2>3. Recounted(folded[s], bs) \subseteq Covered(bs)
    BY RecountedIsCovered
  <2>. QED BY <2>1, <2>2, <2>3 DEF Grows
<1>4. ASSUME NEW t \in Sums, t # s, NEW c, NEW r,
             folded' = [folded EXCEPT ![t] = c], refolded' = [refolded EXCEPT ![t] = r]
      PROVE  Grows(folded[s], refolded[s], folded'[s], refolded'[s], Rows(s))
  BY <1>1, <1>4 DEF Grows
<1>5. ASSUME NEW t \in Stores, NEW next, FoldStore(t, next)
      PROVE  Grows(folded[s], refolded[s], folded'[s], refolded'[s], Rows(s))
  <2>1. CASE UNCHANGED storeVars
    BY <1>2, <2>1 DEF storeVars
  <2>2. CASE /\ folded' = [folded EXCEPT ![t] = @ \union Covered(NewDirs(t))]
             /\ refolded' = [refolded EXCEPT ![t] = @ \union Recounted(folded[t], NewDirs(t))]
    <3>1. CASE t = s
      <4>1. NewDirs(t) \in SUBSET stage[StageOf(s)]
        BY <1>5, <3>1 DEF NewDirs, StageOf
      <4>. QED BY <1>3, <2>2, <3>1, <4>1
    <3>2. CASE t # s
      BY <1>4, <2>2, <3>2 DEF Sums
    <3>. QED BY <3>1, <3>2
  <2>. QED BY <1>5, <2>1, <2>2 DEF FoldStore
<1>6. ASSUME NEW t \in {"ranking", "history"}, AddHistoryTo(t)
      PROVE  Grows(folded[s], refolded[s], folded'[s], refolded'[s], Rows(s))
  <2>1. CASE t = s
    <3>1. StageOf(s) = "history"
      BY <2>1 DEF StageOf, Stores
    <3>. QED BY <1>3, <1>6, <2>1, <3>1 DEF AddHistoryTo
  <2>2. CASE t # s
    BY <1>4, <1>6, <2>2 DEF AddHistoryTo, Sums
  <2>. QED BY <2>1, <2>2
<1>7. CASE Fold
  BY <1>2, <1>5, <1>7 DEF Fold, Stores, FlagMoves, storeVars
<1>8. CASE Finalize
  BY <1>2, <1>6, <1>8 DEF Finalize, WriteRanking, WriteHistory, WriteSuspects, storeVars
<1>. QED BY <1>2, <1>7, <1>8, SumsUnchanged

LEMMA ContentKept == ASSUME Inv2, ContentSound, [Next]_vars PROVE ContentSound'
<1>1. ASSUME NEW p \in Parts PROVE remerged'[p] \subseteq merged'[p]
  BY PartsGrow DEF ContentSound, Grows
<1>2. ASSUME NEW s \in SumsKept
      PROVE  folded'[s] \subseteq Rows(s) /\ refolded'[s] \subseteq folded'[s]
  BY SumsGrow DEF ContentSound, Grows
<1>. QED BY <1>1, <1>2 DEF ContentSound

-----------------------------------------------------------------------------
(* The sequence in the manifest.                                           *)

\* A run keeps the plan it made when it started.
LEMMA PlanKept == ASSUME Inv1, PlanSound, [Next]_vars PROVE PlanSound'
<1>1. ASSUME NEW cap \in Caps, Start(cap) PROVE PlanSound'
  <2>1. source' = source /\ current' \in FetchedState /\ source.seq <= published
    BY <1>1 DEF Start, Inv1, RunOK
  <2>. QED BY <2>1 DEF PlanSound, FetchedState
<1>2. CASE ProcessEnds
  BY <1>2 DEF ProcessEnds, PlanSound
<1>3. CASE pc' # "idle" /\ pc # "idle" /\ UNCHANGED <<source, current>>
  BY <1>3 DEF PlanSound
<1>4. CASE UNCHANGED <<source, current, pc>>
  BY <1>4 DEF PlanSound
<1>5. CASE UNCHANGED vars \/ Publish
  BY <1>4, <1>5 DEF vars, planVars, Publish
<1>6. CASE FetchDiff \/ FetchFails \/ NodePass \/ ScanPass
  BY <1>2, <1>3, <1>6 DEF FetchDiff, FetchFails, NodePass, ScanPass, planVars
<1>7. CASE Merge \/ PersistTagCaches \/ PersistNodeCache
  BY <1>2, <1>3, <1>7 DEF Merge, MergeYear, DropStaging, MergeThrows, MergeDone,
     PersistTagCaches, PersistNodeCache, planVars
<1>8. CASE Fold \/ Finalize
  BY <1>3, <1>8 DEF Fold, FoldStore, FlagMoves, Finalize, WriteRanking, WriteHistory,
     WriteSuspects, planVars
<1>9. CASE WriteManifest \/ Crashes
  BY <1>2, <1>9 DEF WriteManifest, Crashes, Crash, CrashWhileStaging, CrashWhileDropping,
     CrashWhileWritingManifest
<1>. QED BY <1>1, <1>5, <1>6, <1>7, <1>8, <1>9 DEF Next, Step

LEMMA ManifestAdvances ==
  ASSUME Inv1, PlanSound, ~StaleMirror, WriteManifest
  PROVE  source'.seq \in source.seq..MaxSeq
<1>1. /\ pc = "manifest" /\ source' = NewSource
  BY DEF WriteManifest
<1>2. /\ base = source.seq /\ base <= applied /\ source.seq <= current
      /\ base \in Nat /\ applied \in 0..MaxSeq /\ current \in 0..MaxSeq
  BY <1>1 DEF Inv1, TypeOK, ProcessTypeOK, RunOK, PlanSound, CommitSteps
<1>3. source'.seq = IF applied = base THEN current ELSE applied
  BY <1>1 DEF NewSource
<1>. QED BY <1>2, <1>3, BoundsAssumption

Inv3 == Inv2 /\ ContentSound /\ PlanSound

LEMMA Inv3Holds == Spec => []Inv3
<1>1. Init => ContentSound /\ PlanSound
  BY DEF Init, Idle, ContentSound, PlanSound, SumsKept
<1>2. Inv2 /\ ContentSound /\ PlanSound /\ [Next]_vars => ContentSound' /\ PlanSound'
  BY ContentKept, PlanKept DEF Inv2
<1>. QED BY <1>1, <1>2, Inv2Holds, PTL DEF Spec, Inv3

-----------------------------------------------------------------------------
(* Every step of the pipeline is a step of the ledger or a stutter.        *)

LEMMA OutputCases ==
  ASSUME NEW o \in LedgerOutputs
  PROVE  \/ o[1] = "part" /\ o[2] \in Parts
         \/ o[1] = "sum" /\ o[2] \in SumsKept
  BY DEF LedgerOutputs, SumsKept

LEMMA LedgerValues ==
  ASSUME NEW o \in LedgerOutputs
  PROVE  /\ o[1] = "part" => /\ LedgerNeeds[o] = {d \in Seqs : o[2] \in Touches[d]}
                             /\ LedgerContent[o] = merged[o[2]]
                             /\ LedgerRepeated[o] = remerged[o[2]]
                             /\ LedgerContent'[o] = merged'[o[2]]
                             /\ LedgerRepeated'[o] = remerged'[o[2]]
         /\ o[1] = "sum" => /\ LedgerNeeds[o] = Rows(o[2])
                            /\ LedgerContent[o] = folded[o[2]]
                            /\ LedgerRepeated[o] = refolded[o[2]]
                            /\ LedgerContent'[o] = folded'[o[2]]
                            /\ LedgerRepeated'[o] = refolded'[o[2]]
<1>1. "part" # "sum"
  OBVIOUS
<1>. QED BY <1>1 DEF LedgerNeeds, LedgerContent, LedgerRepeated

LEMMA LedgerAbsorbs ==
  ASSUME Inv3, [Next]_vars, ~WriteManifest PROVE AtLeastOnce!Absorb
<1>1. source'.seq = source.seq
  BY SourceUnchanged DEF Inv3, Inv2
<1>2. ASSUME NEW o \in LedgerOutputs
      PROVE  /\ LedgerContent[o] \subseteq LedgerContent'[o]
             /\ LedgerContent'[o] \subseteq LedgerContent[o] \union LedgerNeeds[o]
             /\ LedgerRepeated[o] \subseteq LedgerRepeated'[o]
             /\ LedgerRepeated'[o] \subseteq LedgerContent'[o]
  <2>1. CASE o[1] = "part" /\ o[2] \in Parts
    <3>1. Grows(merged[o[2]], remerged[o[2]], merged'[o[2]], remerged'[o[2]],
                {d \in Seqs : o[2] \in Touches[d]})
      BY <2>1, PartsGrow DEF Inv3
    <3>2. remerged[o[2]] \subseteq merged[o[2]]
      BY <2>1 DEF Inv3, ContentSound
    <3>. QED BY <2>1, <3>1, <3>2, LedgerValues DEF Grows
  <2>2. CASE o[1] = "sum" /\ o[2] \in SumsKept
    <3>1. Grows(folded[o[2]], refolded[o[2]], folded'[o[2]], refolded'[o[2]], Rows(o[2]))
      BY <2>2, SumsGrow DEF Inv3
    <3>2. refolded[o[2]] \subseteq folded[o[2]]
      BY <2>2 DEF Inv3, ContentSound
    <3>. QED BY <2>2, <3>1, <3>2, LedgerValues DEF Grows
  <2>. QED BY <2>1, <2>2, OutputCases
<1>. QED BY <1>1, <1>2 DEF AtLeastOnce!Absorb

LEMMA LedgerCommits ==
  ASSUME Inv3, ~StaleMirror, WriteManifest PROVE AtLeastOnce!Commit
<1>1. source'.seq \in source.seq..MaxSeq
  BY ManifestAdvances DEF Inv3, Inv2
<1>2. UNCHANGED <<merged, remerged, folded, refolded>>
  BY DEF WriteManifest, partVars, storeVars
<1>3. UNCHANGED <<LedgerContent, LedgerRepeated>>
  BY <1>2 DEF LedgerContent, LedgerRepeated
<1>4. PartInv' /\ SumInv'
  BY PartWriteManifest, SumWriteManifest DEF Inv3, Inv2
<1>5. source.seq \in Nat /\ source'.seq \in 0..MaxSeq
  BY <1>1, BoundsAssumption DEF Inv3, Inv2, Inv1, TypeOK, DiskTypeOK
<1>6. ASSUME NEW o \in LedgerOutputs, NEW d \in LedgerNeeds[o] \intersect (1..source'.seq)
      PROVE  d \in LedgerContent[o]
  <2>1. d \in Committed'
    BY DEF Committed
  <2>2. CASE o[1] = "part" /\ o[2] \in Parts
    <3>1. o[2] \in Touches[d]
      BY <2>2, LedgerValues
    <3>2. d \in merged'[o[2]]
      BY <1>4, <2>1, <3>1 DEF PartInv, PartsDurable
    <3>. QED BY <1>2, <2>2, <3>2, LedgerValues
  <2>3. CASE o[1] = "sum" /\ o[2] \in SumsKept
    <3>1. d \in Rows(o[2])
      BY <2>3, LedgerValues
    <3>2. d \in folded'[o[2]]
      BY <1>4, <2>1, <2>3, <3>1 DEF SumInv, SumsDurable
    <3>. QED BY <1>2, <2>3, <3>2, LedgerValues
  <2>. QED BY <2>2, <2>3, OutputCases
<1>. QED BY <1>1, <1>3, <1>6 DEF AtLeastOnce!Commit

LEMMA LedgerInit == Init => AtLeastOnce!Init
<1> SUFFICES ASSUME Init PROVE AtLeastOnce!Init
  OBVIOUS
<1>1. source.seq = 0
  BY DEF Init
<1>2. ASSUME NEW o \in LedgerOutputs PROVE LedgerContent[o] = {} /\ LedgerRepeated[o] = {}
  BY OutputCases, LedgerValues DEF Init, SumsKept
<1>3. /\ LedgerContent = [o \in LedgerOutputs |-> {}]
      /\ LedgerRepeated = [o \in LedgerOutputs |-> {}]
  BY <1>2 DEF LedgerContent, LedgerRepeated
<1>. QED BY <1>1, <1>3 DEF AtLeastOnce!Init

\* In spite of crashes the runs implement the ledger that may count a diff twice but
\* commits no sequence before every output has absorbed the diffs up to it.
THEOREM ImplementsAtLeastOnceTheorem ==
  ASSUME ~StaleMirror PROVE Spec => ImplementsAtLeastOnce
<1>1. Inv3 /\ [Next]_vars => [AtLeastOnce!Next]_(AtLeastOnce!vars)
  BY LedgerAbsorbs, LedgerCommits DEF AtLeastOnce!Next
<1>. QED BY <1>1, LedgerInit, Inv3Holds, PTL DEF Spec, ImplementsAtLeastOnce, AtLeastOnce!Spec

-----------------------------------------------------------------------------
(* Where runs of the same target cut the stream.                           *)

LEMMA CutsLeast ==
  ASSUME NEW b \in Nat, NEW t \in Nat, NEW C \in SUBSET (b..t), Closed(C, b, t)
  PROVE  Cuts(b, t) \subseteq C
  BY DEF Cuts

LEMMA CutsHaveStart ==
  ASSUME NEW b \in Nat, NEW t \in Nat, b <= t PROVE b \in Cuts(b, t)
  BY DEF Cuts, Closed

LEMMA CutsHaveNext ==
  ASSUME NEW b \in Nat, NEW t \in Nat, NEW a \in Cuts(b, t), NEW n, BatchEnds(a, n, t)
  PROVE  n \in Cuts(b, t)
<1>1. a \in b..t /\ n \in (a + 1)..t
  BY DEF Cuts, BatchEnds
<1>2. n \in b..t
  BY <1>1
<1>. QED BY <1>2 DEF Cuts, Closed

\* The place where a batch begins decides where it ends.
LEMMA OneBatchEnd ==
  ASSUME NEW t \in Nat, NEW a \in Nat, NEW n, NEW m, BatchEnds(a, n, t), BatchEnds(a, m, t)
  PROVE  n = m
<1>1. n \in (a + 1)..t /\ m \in (a + 1)..t
  BY DEF BatchEnds
<1>2. ~ (n < m)
  <2> SUFFICES ASSUME n < m PROVE FALSE
    OBVIOUS
  <2>1. n # t /\ n \in (a + 1)..(m - 1)
    BY <1>1
  <2>. QED BY <2>1 DEF BatchEnds
<1>3. ~ (m < n)
  <2> SUFFICES ASSUME m < n PROVE FALSE
    OBVIOUS
  <2>1. m # t /\ m \in (a + 1)..(n - 1)
    BY <1>1
  <2>. QED BY <2>1 DEF BatchEnds
<1>. QED BY <1>1, <1>2, <1>3

\* No cut falls inside a batch that begins at a cut.
LEMMA CutsAreEnds ==
  ASSUME NEW b \in Nat, NEW t \in Nat, b <= t,
         NEW a \in Cuts(b, t), NEW c \in Cuts(b, t), a < c, NEW n, BatchEnds(a, n, t)
  PROVE  n <= c
<1> DEFINE C == {x \in Cuts(b, t) :
                   \A y \in Cuts(b, t) : \A k \in b..t : y < x /\ BatchEnds(y, k, t) => k <= x}
<1>1. Cuts(b, t) \subseteq b..t
  BY DEF Cuts
<1>2. b \in C
  BY <1>1, CutsHaveStart
<1>3. ASSUME NEW x \in C, NEW m \in b..t, BatchEnds(x, m, t) PROVE m \in C
  <2> DEFINE D == {y \in Cuts(b, t) : y <= x \/ m <= y}
  <2>1. x \in Nat /\ m \in Nat /\ x < m /\ m \in Cuts(b, t)
    <3>1. x \in Cuts(b, t) /\ x \in b..t
      BY <1>1, <1>3
    <3>2. m \in Cuts(b, t)
      BY <1>3, <3>1, CutsHaveNext
    <3>3. m \in (x + 1)..t
      BY <1>3 DEF BatchEnds
    <3>. QED BY <3>1, <3>2, <3>3
  <2>2. b \in D
    BY <1>1, <2>1, CutsHaveStart
  <2>3. ASSUME NEW y \in D, NEW k \in b..t, BatchEnds(y, k, t) PROVE k \in D
    <3>1. k \in Cuts(b, t) /\ y < k /\ y \in Nat /\ k \in Nat
      <4>1. y \in Cuts(b, t) /\ y \in b..t
        BY <1>1, <2>3
      <4>2. k \in Cuts(b, t)
        BY <2>3, <4>1, CutsHaveNext
      <4>3. k \in (y + 1)..t
        BY <2>3 DEF BatchEnds
      <4>. QED BY <4>1, <4>2, <4>3
    <3>2. CASE y < x
      BY <2>3, <3>1, <3>2
    <3>3. CASE y = x
      BY <1>3, <2>1, <2>3, <3>1, <3>3, OneBatchEnd
    <3>4. CASE m <= y
      BY <2>1, <3>1, <3>4
    <3>. QED BY <2>1, <2>3, <3>1, <3>2, <3>3, <3>4
  <2>4. Cuts(b, t) \subseteq D
    <3>1. D \in SUBSET (b..t) /\ Closed(D, b, t)
      BY <1>1, <2>2, <2>3 DEF Closed
    <3>. QED BY <3>1, CutsLeast
  <2>5. ASSUME NEW y \in Cuts(b, t), NEW k \in b..t, y < m, BatchEnds(y, k, t) PROVE k <= m
    <3>1. y \in Nat /\ k \in Nat /\ y <= x
      BY <1>1, <2>1, <2>4, <2>5
    <3>2. CASE y < x
      BY <2>1, <2>5, <3>1, <3>2
    <3>3. CASE y = x
      BY <1>3, <2>1, <2>5, <3>1, <3>3, OneBatchEnd
    <3>. QED BY <2>1, <3>1, <3>2, <3>3
  <2>. QED BY <2>1, <2>5
<1>4. Cuts(b, t) \subseteq C
  <2>1. C \in SUBSET (b..t) /\ Closed(C, b, t)
    BY <1>1, <1>2, <1>3 DEF Closed
  <2>. QED BY <2>1, CutsLeast
<1>5. n \in b..t
  BY <1>1 DEF BatchEnds
<1>. QED BY <1>4, <1>5

\* Two batches that begin at cuts are the same or have no diff in common.
LEMMA BatchesApart ==
  ASSUME NEW b \in Nat, NEW t \in Nat, b <= t, NEW a \in Cuts(b, t), NEW c \in Cuts(b, t),
         NEW n, NEW m, BatchEnds(a, n, t), BatchEnds(c, m, t), n # m
  PROVE  ((a + 1)..n) \intersect ((c + 1)..m) = {}
<1>1. a \in Nat /\ c \in Nat /\ n \in Nat /\ m \in Nat
  BY DEF Cuts, BatchEnds
<1>2. a # c
  BY <1>1, OneBatchEnd
<1>3. CASE a < c
  BY <1>1, <1>3, CutsAreEnds
<1>4. CASE c < a
  BY <1>1, <1>4, CutsAreEnds
<1>. QED BY <1>1, <1>2, <1>3, <1>4

-----------------------------------------------------------------------------
(* The plan of runs of the same target.                                    *)

LEMMA GoalIsTarget ==
  ASSUME Inv1, SameTarget, NEW cap \in Caps PROVE Goal = Target(MaxSeq, cap)
<1>1. source.seq \in 0..MaxSeq /\ cap \in Nat
  BY RunAssumption DEF Inv1, TypeOK, DiskTypeOK
<1>2. Target(MaxSeq, cap) \in 0..MaxSeq
  BY <1>1, BoundsAssumption DEF Target
<1>3. \E c \in Caps : Goal = Target(MaxSeq, c)
  BY <1>2 DEF Goal
<1>. QED BY <1>3 DEF SameTarget

LEMMA GoalSame == ASSUME source'.seq = source.seq PROVE Goal' = Goal
  BY DEF Goal, Target

\* Steps that end a run.
LEMMA GoalEnds ==
  ASSUME GoalFollowed, ProcessEnds, published' = published PROVE GoalFollowed'
  BY DEF GoalFollowed, ProcessEnds, FetchSteps, CommitSteps

\* Steps of the commit.
LEMMA GoalCommit ==
  ASSUME GoalFollowed, UNCHANGED <<source, current, base, target, applied, stopped, published>>,
         pc \in CommitSteps, pc' \in CommitSteps
  PROVE  GoalFollowed'
<1>1. pc' \notin FetchSteps /\ pc # "idle"
  BY DEF FetchSteps, CommitSteps
<1>. QED BY <1>1, GoalSame DEF GoalFollowed, FetchSteps

LEMMA GoalStart ==
  ASSUME Inv1, ~StaleMirror, GoalFollowed, NEW cap \in Caps, Start(cap) PROVE GoalFollowed'
<1> SUFFICES ASSUME SameTarget PROVE GoalFollowed'
  BY DEF GoalFollowed
<1>1. PICK cur \in FetchedState :
        /\ current' = cur /\ base' = source.seq /\ target' = Target(cur, cap)
        /\ seq' = source.seq + 1 /\ applied' = source.seq
        /\ IF source.seq + 1 > Target(cur, cap) THEN pc' = "manifest" ELSE pc' = "fetch"
        /\ UNCHANGED <<source, published, stopped>>
  BY DEF Start, loopVars, envVars
<1>2. published = MaxSeq /\ ~stopped /\ cur = MaxSeq
  BY <1>1 DEF GoalFollowed, FetchedState
<1>3. target' = Goal /\ Goal' = Goal
  BY <1>1, <1>2, GoalIsTarget, GoalSame
<1>4. source.seq \in 0..MaxSeq /\ cap \in Nat /\ MaxSeq \in Nat
  BY RunAssumption, BoundsAssumption DEF Inv1, TypeOK, DiskTypeOK
<1>5. CASE pc' = "manifest"
  BY <1>1, <1>2, <1>3, <1>5 DEF GoalFollowed, FetchSteps
<1>6. CASE pc' = "fetch"
  <2>1. source.seq < target' /\ target' \in Nat
    BY <1>1, <1>2, <1>4, <1>6 DEF Target
  <2>2. applied' \in Cuts(base', target')
    BY <1>1, <1>4, <2>1, CutsHaveStart
  <2>3. (applied' + 1)..(seq' - 1) = {}
    BY <1>1, <1>4
  <2>. QED BY <1>1, <1>2, <1>3, <1>6, <2>2, <2>3 DEF GoalFollowed, FetchSteps, CommitSteps
<1>. QED BY <1>1, <1>5, <1>6

LEMMA GoalFetchDiff == ASSUME Inv1, GoalFollowed, FetchDiff PROVE GoalFollowed'
<1> SUFFICES ASSUME SameTarget PROVE GoalFollowed'
  BY DEF GoalFollowed
<1>1. /\ pc = "fetch" /\ batch' = batch \union {seq} /\ seq' = seq + 1
      /\ pc' = IF TimeBatchFull(batch') \/ seq = target THEN "nodes" ELSE "fetch"
      /\ UNCHANGED <<source, current, base, target, applied, stopped, published>>
  BY DEF FetchDiff, planVars, envVars
<1>2. /\ applied \in Nat /\ seq \in Nat /\ target \in Nat /\ applied < seq /\ seq <= target
      /\ batch = (applied + 1)..(seq - 1)
  BY <1>1 DEF Inv1, TypeOK, ProcessTypeOK, RunOK, FetchSteps
<1>3. /\ published = MaxSeq /\ ~stopped /\ current = MaxSeq /\ target = Goal
      /\ applied \in Cuts(base, target)
      /\ \A m \in (applied + 1)..(seq - 1) : ~TimeBatchFull((applied + 1)..m)
  BY <1>1 DEF GoalFollowed, FetchSteps
<1>4. batch' = (applied + 1)..seq
  BY <1>1, <1>2
<1>5. Goal' = Goal
  BY <1>1, GoalSame
<1>6. CASE TimeBatchFull(batch') \/ seq = target
  <2>1. BatchSeq' = seq /\ pc' = "nodes"
    BY <1>1, <1>2, <1>6 DEF BatchSeq
  <2>2. BatchEnds(applied, seq, target)
    BY <1>2, <1>3, <1>4, <1>6 DEF BatchEnds
  <2>. QED BY <1>1, <1>3, <1>5, <2>1, <2>2 DEF GoalFollowed, FetchSteps, CommitSteps
<1>7. CASE ~TimeBatchFull(batch') /\ seq # target
  <2>1. ASSUME NEW m \in (applied + 1)..(seq' - 1) PROVE ~TimeBatchFull((applied + 1)..m)
    <3>1. m \in (applied + 1)..(seq - 1) \/ m = seq
      BY <1>1, <1>2
    <3>. QED BY <1>3, <1>4, <1>7, <3>1
  <2>. QED BY <1>1, <1>3, <1>5, <1>7, <2>1 DEF GoalFollowed, FetchSteps, CommitSteps
<1>. QED BY <1>6, <1>7

LEMMA GoalPasses == ASSUME Inv1, GoalFollowed, NodePass \/ ScanPass PROVE GoalFollowed'
<1> SUFFICES ASSUME SameTarget PROVE GoalFollowed'
  BY DEF GoalFollowed
<1>1. UNCHANGED <<source, current, base, target, seq, stopped, published>>
  BY DEF NodePass, ScanPass, planVars, loopVars, envVars
<1>2. /\ pc \in {"nodes", "scan"}
      /\ published = MaxSeq /\ ~stopped /\ current = MaxSeq /\ target = Goal
      /\ applied \in Cuts(base, target) /\ BatchEnds(applied, BatchSeq, target)
  BY DEF NodePass, ScanPass, GoalFollowed, FetchSteps
<1>3. Goal' = Goal /\ BatchSeq' = BatchSeq
  BY <1>1, GoalSame DEF BatchSeq
<1>4. CASE NodePass
  BY <1>1, <1>2, <1>3, <1>4 DEF NodePass, loopVars, GoalFollowed, FetchSteps, CommitSteps
<1>5. CASE ScanPass
  <2>1. /\ base \in Nat /\ target \in Nat /\ seq \in Nat /\ seq <= target + 1
        /\ BatchSeq = seq - 1
    BY <1>2 DEF Inv1, TypeOK, ProcessTypeOK, RunOK, FetchSteps, BatchSeq
  <2>2. applied' = BatchSeq /\ pc' = IF stopped \/ seq > target THEN "tagcache" ELSE "fetch"
    BY <1>5 DEF ScanPass
  <2>3. applied' \in Cuts(base, target)
    BY <1>2, <2>1, <2>2, CutsHaveNext
  <2>4. (applied' + 1)..(seq' - 1) = {}
    BY <1>1, <2>1, <2>2
  <2>5. pc' = "tagcache" => applied' = target
    BY <1>2, <2>1, <2>2
  <2>. QED BY <1>1, <1>2, <1>3, <2>2, <2>3, <2>4, <2>5 DEF GoalFollowed, FetchSteps, CommitSteps
<1>. QED BY <1>4, <1>5

LEMMA GoalNext ==
  ASSUME Inv1, ~StaleMirror, GoalFollowed, [Next]_vars PROVE GoalFollowed'
<1> SUFFICES ASSUME SameTarget PROVE GoalFollowed'
  BY DEF GoalFollowed
<1>1. CASE UNCHANGED vars
  <2>1. UNCHANGED <<source, pc, current, base, target, seq, applied, stopped, published>>
    BY <1>1 DEF vars, planVars, loopVars, envVars
  <2>. QED BY <2>1, GoalSame DEF GoalFollowed, BatchSeq
<1>2. CASE Publish
  BY <1>2 DEF Publish, GoalFollowed, Inv1, TypeOK, WorldTypeOK
<1>3. CASE FetchFails
  BY <1>3 DEF FetchFails, SameTarget, Inv1, TypeOK, WorldTypeOK
<1>4. CASE Merge \/ PersistTagCaches \/ PersistNodeCache
  <2>1. ASSUME NEW y \in Years, MergeThrows(y) PROVE GoalFollowed'
    BY <2>1, GoalEnds DEF MergeThrows, envVars
  <2>2. ASSUME NEW y \in Years, MergeYear(y) \/ DropStaging(y) PROVE GoalFollowed'
    BY <2>2, GoalCommit DEF MergeYear, DropStaging, planVars, loopVars, envVars, CommitSteps
  <2>3. CASE MergeDone \/ PersistTagCaches \/ PersistNodeCache
    BY <2>3, GoalCommit DEF MergeDone, PersistTagCaches, PersistNodeCache, planVars, loopVars,
       envVars, CommitSteps
  <2>. QED BY <1>4, <2>1, <2>2, <2>3 DEF Merge
<1>5. CASE Fold \/ Finalize
  BY <1>5, GoalCommit DEF Fold, FoldStore, FlagMoves, Finalize, WriteRanking, WriteHistory,
     WriteSuspects, planVars, loopVars, envVars, CommitSteps
<1>6. CASE WriteManifest \/ Crashes
  BY <1>6, GoalEnds DEF WriteManifest, Crashes, Crash, CrashWhileStaging, CrashWhileDropping,
     CrashWhileWritingManifest, envVars
<1>. QED BY <1>1, <1>2, <1>3, <1>4, <1>5, <1>6, GoalStart, GoalFetchDiff, GoalPasses
     DEF Next, Step

-----------------------------------------------------------------------------
(* What lies in staging.                                                   *)

StagingInv == StagingOnCuts /\ StagingIsOwn /\ StagingFresh

\* Steps that only remove staging, in a run that goes on.
LEMMA StagingShrinks ==
  ASSUME Inv1, StagingInv, staging' \subseteq staging, UNCHANGED <<source, base>>,
         \/ UNCHANGED <<applied, pc, seq>>
         \/ applied' = applied /\ pc' \notin {"idle", "scan"} /\ pc # "scan"
  PROVE  StagingInv'
<1>1. Goal' = Goal
  BY GoalSame
<1>2. StagingOnCuts' /\ StagingFresh'
  BY <1>1 DEF StagingInv, StagingOnCuts, StagingFresh, Apart
<1>3. StagingIsOwn'
  BY DEF StagingInv, StagingIsOwn, BatchSeq
<1>. QED BY <1>2, <1>3 DEF StagingInv

\* Steps that end the run: without crashes there is nothing to leave.
LEMMA StagingEnds ==
  ASSUME StagingInv, staging' \subseteq staging, source'.seq = source.seq,
         NoCrashes => staging' = {}
  PROVE  StagingInv'
<1>1. Goal' = Goal
  BY GoalSame
<1>2. StagingOnCuts' /\ StagingFresh'
  BY <1>1 DEF StagingInv, StagingOnCuts, StagingFresh, Apart
<1>3. StagingIsOwn'
  BY DEF StagingIsOwn
<1>. QED BY <1>2, <1>3 DEF StagingInv

LEMMA RestagedCases ==
  ASSUME NEW ps, NEW torn, NEW f \in Restaged(ps, torn)
  PROVE  \/ f \in staging /\ ~ (f.part \in ps /\ f.seq = BatchSeq)
         \/ \E p \in ps : f = [part |-> p, seq |-> BatchSeq,
                               diffs |-> {d \in batch : p \in Touches[d]},
                               torn |-> p \in torn]
  BY DEF Restaged

\* The staging there is has no diff of the batch, but under the batch's own name.
LEMMA BatchIsNew ==
  ASSUME Inv1, PartInv, GoalFollowed, StagingInv, Repeatable, pc \in {"nodes", "scan"},
         NEW f \in staging, f.seq # BatchSeq
  PROVE  f.diffs \intersect batch = {}
<1>1. /\ applied \in Nat /\ BatchSeq \in Nat /\ applied < BatchSeq
      /\ batch = (applied + 1)..BatchSeq
  BY BatchFacts
<1>2. f.seq \in Nat /\ f.diffs \subseteq Seqs
  BY StagingHasSeqs
<1>3. CASE NoCrashes
  <2>1. f.seq <= applied
    BY <1>3 DEF StagingInv, StagingIsOwn
  <2>2. \A d \in f.diffs : d <= f.seq
    BY DEF PartInv, StagingSound
  <2>. QED BY <1>1, <1>2, <2>1, <2>2 DEF Seqs
<1>4. CASE SameTarget
  <2>1. /\ applied \in Cuts(base, target) /\ BatchEnds(applied, BatchSeq, target)
        /\ target = Goal /\ base = source.seq
    BY <1>4 DEF GoalFollowed, Inv1, RunOK, FetchSteps
  <2>2. PICK a \in Cuts(base, target) :
          BatchEnds(a, f.seq, target) /\ f.diffs \subseteq (a + 1)..f.seq
    BY <1>4, <2>1 DEF StagingInv, StagingOnCuts
  <2>3. base \in Nat /\ target \in Nat /\ base <= target
    BY DEF Inv1, TypeOK, ProcessTypeOK, RunOK, FetchSteps
  <2>4. ((a + 1)..f.seq) \intersect ((applied + 1)..BatchSeq) = {}
    BY <2>1, <2>2, <2>3, BatchesApart
  <2>. QED BY <1>1, <2>2, <2>4
<1>. QED BY <1>3, <1>4 DEF Repeatable

\* Writing the files of a batch.
LEMMA RestagedFresh ==
  ASSUME Inv1, PartInv, GoalFollowed, StagingInv, Repeatable, pc \in {"nodes", "scan"},
         NEW ps \in SUBSET Parts, NEW torn, staging' = Restaged(ps, torn),
         source'.seq = source.seq
  PROVE  StagingOnCuts' /\ StagingFresh'
<1>1. /\ applied \in Nat /\ base \in Nat /\ BatchSeq \in Nat /\ applied < BatchSeq
      /\ base <= applied /\ batch = (applied + 1)..BatchSeq /\ base = source.seq
  BY BatchFacts DEF Inv1, RunOK
<1>2. StagingOnCuts'
  <2> SUFFICES ASSUME SameTarget, NEW f \in Restaged(ps, torn)
               PROVE  \E a \in Cuts(source.seq, Goal) :
                        BatchEnds(a, f.seq, Goal) /\ f.diffs \subseteq (a + 1)..f.seq
    BY GoalSame DEF StagingOnCuts
  <2>1. CASE f \in staging
    BY <2>1 DEF StagingInv, StagingOnCuts
  <2>2. CASE f.seq = BatchSeq /\ f.diffs \subseteq batch
    <3>1. /\ applied \in Cuts(source.seq, Goal) /\ BatchEnds(applied, BatchSeq, Goal)
      BY <1>1 DEF GoalFollowed, FetchSteps
    <3>. QED BY <1>1, <2>2, <3>1
  <2>3. ASSUME NEW p \in ps,
               f = [part |-> p, seq |-> BatchSeq, diffs |-> {d \in batch : p \in Touches[d]},
                    torn |-> p \in torn]
        PROVE  f.seq = BatchSeq /\ f.diffs \subseteq batch
    BY <2>3
  <2>. QED BY <2>1, <2>2, <2>3, RestagedCases
<1>3. ASSUME NEW f \in staging', NEW d \in f.diffs PROVE d > source'.seq
  <2>1. CASE f \in staging
    BY <2>1 DEF StagingInv, StagingFresh
  <2>2. ASSUME NEW p \in ps,
               f = [part |-> p, seq |-> BatchSeq, diffs |-> {e \in batch : p \in Touches[e]},
                    torn |-> p \in torn]
        PROVE  d > source'.seq
    <3>1. d \in batch
      BY <2>2
    <3>. QED BY <1>1, <3>1
  <2>. QED BY <2>1, <2>2, RestagedCases
<1>4. ASSUME NEW f \in staging', NEW g \in staging', f.part = g.part, f # g
      PROVE  f.diffs \intersect g.diffs = {}
  <2> DEFINE New(h) == h = [part |-> h.part, seq |-> BatchSeq,
                            diffs |-> {d \in batch : h.part \in Touches[d]},
                            torn |-> h.part \in torn]
  <2>1. ASSUME NEW h \in staging'
        PROVE  \/ h \in staging /\ ~ (h.part \in ps /\ h.seq = BatchSeq)
               \/ h.part \in ps /\ New(h)
    <3>1. ASSUME NEW p \in ps,
                 h = [part |-> p, seq |-> BatchSeq, diffs |-> {d \in batch : p \in Touches[d]},
                      torn |-> p \in torn]
          PROVE  h.part \in ps /\ New(h)
      <4>1. h.part = p
        BY <3>1
      <4>. QED BY <3>1, <4>1
    <3>. QED BY <3>1, RestagedCases
  <2>2. ASSUME NEW h \in staging', h.part \in ps, New(h) PROVE h.diffs \subseteq batch
    <3>1. h.diffs = {d \in batch : h.part \in Touches[d]}
      BY <2>2
    <3>. QED BY <3>1
  <2>3. ASSUME NEW h \in staging, h.seq # BatchSeq PROVE h.diffs \intersect batch = {}
    BY <2>3, BatchIsNew
  <2>4. CASE f \in staging /\ g \in staging
    <3>1. f.part \in Parts
      BY <2>4, StagingHasSeqs
    <3>. QED BY <1>4, <2>4, <3>1 DEF StagingInv, StagingFresh, Apart
  <2>5. CASE f \in staging /\ f.seq # BatchSeq /\ g.part \in ps /\ New(g)
    BY <2>2, <2>3, <2>5
  <2>6. CASE g \in staging /\ g.seq # BatchSeq /\ f.part \in ps /\ New(f)
    BY <2>2, <2>3, <2>6
  <2>7. CASE New(f) /\ New(g)
    BY <1>4, <2>7
  <2>8. \/ f \in staging /\ ~ (f.part \in ps /\ f.seq = BatchSeq)
        \/ f.part \in ps /\ New(f)
    BY <2>1
  <2>9. \/ g \in staging /\ ~ (g.part \in ps /\ g.seq = BatchSeq)
        \/ g.part \in ps /\ New(g)
    BY <2>1
  <2> HIDE DEF New
  <2>. QED BY <1>4, <2>4, <2>5, <2>6, <2>7, <2>8, <2>9
<1>5. StagingFresh'
  BY <1>3, <1>4 DEF StagingFresh, Apart
<1>. QED BY <1>2, <1>5

LEMMA StagingPasses ==
  ASSUME Inv1, PartInv, GoalFollowed, StagingInv, Repeatable, NodePass \/ ScanPass
  PROVE  StagingInv'
<1>1. PICK kind \in Kinds : staging' = Restaged(BatchParts(kind), {})
  BY DEF NodePass, ScanPass, Kinds
<1>2. pc \in {"nodes", "scan"} /\ UNCHANGED <<source, base, seq>>
  BY DEF NodePass, ScanPass, planVars, loopVars
<1>3. StagingOnCuts' /\ StagingFresh'
  BY <1>1, <1>2, BatchPartsType, RestagedFresh
<1>4. /\ applied \in Nat /\ base \in Nat /\ BatchSeq \in Nat /\ applied < BatchSeq
      /\ base <= applied /\ BatchSeq' = BatchSeq
  BY <1>2, BatchFacts DEF BatchSeq
<1>5. StagingIsOwn'
  <2> SUFFICES ASSUME NoCrashes, NEW f \in staging'
               PROVE  /\ pc' # "idle" /\ ~f.torn /\ base < f.seq
                      /\ f.seq <= applied' \/ (pc' = "scan" /\ f.seq = BatchSeq)
    BY <1>2, <1>4 DEF StagingIsOwn
  <2>1. /\ f.seq \in Nat /\ ~f.torn /\ base < f.seq
        /\ f.seq <= applied \/ f.seq = BatchSeq
    <3>1. CASE f \in staging
      BY <1>2, <3>1, StagingHasSeqs DEF StagingInv, StagingIsOwn
    <3>2. ASSUME NEW p \in BatchParts(kind),
                 f = [part |-> p, seq |-> BatchSeq, diffs |-> {d \in batch : p \in Touches[d]},
                      torn |-> p \in {}]
          PROVE  f.seq \in Nat /\ ~f.torn /\ base < f.seq /\ f.seq = BatchSeq
      <4>1. f.seq = BatchSeq
        BY <3>2
      <4>2. (p \in {}) = FALSE
        OBVIOUS
      <4>3. f = [part |-> p, seq |-> BatchSeq, diffs |-> {d \in batch : p \in Touches[d]},
                 torn |-> FALSE]
        BY <3>2, <4>2, Zenon
      <4>4. ~f.torn
        BY <4>3
      <4>. QED BY <1>4, <4>1, <4>4
    <3>. QED BY <1>1, <3>1, <3>2, RestagedCases
  <2>2. CASE NodePass
    BY <1>4, <2>1, <2>2 DEF NodePass, loopVars
  <2>3. CASE ScanPass
    <3>1. applied' = BatchSeq /\ pc' # "idle"
      BY <2>3 DEF ScanPass
    <3>. QED BY <1>4, <2>1, <3>1
  <2>. QED BY <2>2, <2>3
<1>. QED BY <1>3, <1>5 DEF StagingInv

LEMMA NoStagingIsFine == ASSUME staging' = {} PROVE StagingInv'
  BY DEF StagingInv, StagingOnCuts, StagingIsOwn, StagingFresh, Apart

\* A run with nothing to apply leaves the sequence as it is, if its mirror is not
\* behind; a commit starts over with no staging.
LEMMA ManifestStays ==
  ASSUME Inv1, PlanSound, ~StaleMirror, WriteManifest, applied = base
  PROVE  source'.seq = source.seq
<1>1. /\ base = source.seq /\ current <= base /\ source.seq <= current
      /\ base \in Nat /\ current \in Nat
  BY DEF WriteManifest, Inv1, TypeOK, ProcessTypeOK, RunOK, PlanSound, CommitSteps
<1>. QED BY <1>1 DEF WriteManifest, NewSource

LEMMA NoneLeftWithoutCrashes ==
  ASSUME Inv1, StagingInv, NoCrashes, applied = base, pc \in {"fetch", "manifest"}
  PROVE  staging = {}
<1>1. base \in Nat
  BY DEF Inv1, TypeOK, ProcessTypeOK
<1>2. ASSUME NEW f \in staging PROVE FALSE
  <2>1. f.seq \in Nat /\ base < f.seq /\ f.seq <= applied
    BY StagingHasSeqs DEF StagingInv, StagingIsOwn
  <2>. QED BY <1>1, <2>1
<1>. QED BY <1>2

LEMMA StagingWriteManifest ==
  ASSUME Inv1, PartInv, PlanSound, ~StaleMirror, StagingInv, WriteManifest PROVE StagingInv'
<1>1. pc = "manifest" /\ staging' = staging
  BY DEF WriteManifest, partVars
<1>2. CASE applied = base
  BY <1>1, <1>2, ManifestStays, NoneLeftWithoutCrashes, StagingEnds
<1>3. CASE applied # base
  BY <1>1, <1>3, NoStagingIsFine DEF PartInv, StagingDropped, AfterMerge, CommitSteps
<1>. QED BY <1>2, <1>3

LEMMA StagingCrashes ==
  ASSUME Inv1, PartInv, GoalFollowed, StagingInv, Repeatable, Crashes PROVE StagingInv'
<1>1. ~NoCrashes
  BY DEF Crashes, Crash, CrashWhileStaging, CrashWhileDropping, CrashWhileWritingManifest,
     NoCrashes, Inv1, TypeOK, WorldTypeOK
<1>2. source'.seq = source.seq
  <2>1. source' = source \/ source' = [source EXCEPT !.ok = FALSE]
    BY DEF Crashes, Crash, CrashWhileStaging, CrashWhileDropping, CrashWhileWritingManifest
  <2>. QED BY <2>1 DEF Inv1, TypeOK, DiskTypeOK
<1>3. CASE staging' \subseteq staging
  BY <1>1, <1>2, <1>3, StagingEnds
<1>4. ASSUME NEW kind \in Kinds, CrashWhileStaging(kind) PROVE StagingInv'
  <2>1. PICK torn \in SUBSET BatchParts(kind) : \E done \in SUBSET (BatchParts(kind) \ torn) :
          staging' = Restaged(torn \union done, torn)
    BY <1>4 DEF CrashWhileStaging
  <2>2. PICK done \in SUBSET (BatchParts(kind) \ torn) :
          staging' = Restaged(torn \union done, torn)
    BY <2>1
  <2>3. pc \in {"nodes", "scan"} /\ torn \union done \in SUBSET Parts
    BY <1>4, BatchPartsType DEF CrashWhileStaging
  <2>4. StagingOnCuts' /\ StagingFresh'
    BY <1>2, <2>2, <2>3, RestagedFresh
  <2>. QED BY <1>1, <2>4 DEF StagingInv, StagingIsOwn
<1>. QED BY <1>3, <1>4 DEF Crashes, Crash, CrashWhileDropping, CrashWhileWritingManifest, partVars

LEMMA StagingNext ==
  ASSUME Inv1, PartInv, PlanSound, ~StaleMirror, Repeatable, GoalFollowed, StagingInv, [Next]_vars
  PROVE  StagingInv'
<1>1. CASE UNCHANGED vars \/ Publish
  BY <1>1, StagingShrinks DEF vars, Publish, partVars, planVars, loopVars
<1>2. ASSUME NEW cap \in Caps, Start(cap) PROVE StagingInv'
  <2>1. staging' = staging /\ source' = source /\ pc = "idle"
    BY <1>2 DEF Start, partVars
  <2>2. NoCrashes => staging = {}
    BY <2>1 DEF StagingInv, StagingIsOwn
  <2>. QED BY <2>1, <2>2, StagingEnds
<1>3. CASE FetchDiff \/ PersistTagCaches \/ PersistNodeCache
  BY <1>3, StagingShrinks DEF FetchDiff, PersistTagCaches, PersistNodeCache, partVars, planVars,
     loopVars
<1>4. CASE FetchFails
  <2>1. pc = "fetch" /\ staging' = staging /\ source' = source
    BY <1>4 DEF FetchFails, partVars
  <2>2. CASE applied = base /\ ProcessEnds
    BY <2>1, <2>2, NoneLeftWithoutCrashes, StagingEnds
  <2>3. CASE /\ pc' = (IF batch # {} THEN "nodes" ELSE "tagcache")
             /\ UNCHANGED <<planVars, applied>>
    BY <2>1, <2>3, StagingShrinks DEF planVars
  <2>. QED BY <1>4, <2>2, <2>3 DEF FetchFails
<1>5. CASE Merge
  <2>1. ASSUME NEW y \in Years, MergeThrows(y) PROVE StagingInv'
    <3>1. ~NoCrashes
      BY <2>1 DEF MergeThrows, Foldable, StagingInv, StagingIsOwn
    <3>. QED BY <2>1, <3>1, StagingEnds DEF MergeThrows, partVars
  <2>2. ASSUME NEW y \in Years, MergeYear(y) \/ DropStaging(y) PROVE StagingInv'
    BY <2>2, StagingShrinks DEF MergeYear, DropStaging, planVars, loopVars
  <2>3. CASE MergeDone
    BY <2>3, StagingShrinks DEF MergeDone, partVars, planVars, loopVars
  <2>. QED BY <1>5, <2>1, <2>2, <2>3 DEF Merge
<1>6. CASE Fold \/ Finalize
  BY <1>6, StagingShrinks DEF Fold, FoldStore, FlagMoves, Finalize, WriteRanking, WriteHistory,
     WriteSuspects, partVars, planVars, loopVars
<1>. QED BY <1>1, <1>2, <1>3, <1>4, <1>5, <1>6, StagingPasses, StagingWriteManifest, StagingCrashes
     DEF Next, Step

-----------------------------------------------------------------------------
(* What lies in the stage roots.                                           *)

\* Steps that only remove stage directories, or end the run.
LEMMA StageShrinks ==
  ASSUME Inv1, StageFresh, \A s \in Stages : stage'[s] \subseteq stage[s],
         \/ pc' \in {"idle", "manifest"}
         \/ base' = base /\ pc \notin {"idle", "manifest"},
         pc' = "langs" => pc = "langs" \/ stage'["langs"] = {}
  PROVE  StageFresh'
<1>1. "langs" \in Stages
  BY DEF Stages, Stores
<1>. QED BY <1>1 DEF StageFresh, Apart

LEMMA StageScanPass == ASSUME Inv1, SumInv, StageFresh, ScanPass PROVE StageFresh'
<1>1. /\ pc = "scan" /\ pc' \in {"fetch", "tagcache"} /\ base' = base
      /\ stage' = [s \in Stages |->
           stage[s] \union {b \in {[seq |-> BatchSeq, diffs |-> Staged(s)]} : b.diffs # {}}]
  BY DEF ScanPass, planVars
<1>2. /\ applied \in Nat /\ base \in Nat /\ base <= applied /\ batch = (applied + 1)..BatchSeq
      /\ BatchSeq \in Nat
  BY <1>1, BatchFacts
<1>3. ASSUME NEW s \in Stages, NEW b \in stage[s], NEW d \in b.diffs
      PROVE  d > base /\ d <= applied
  <2>1. d \in Nat /\ b.seq \in Nat
    BY DEF Inv1, TypeOK, DiskTypeOK, StageDir, Seqs
  <2>2. d <= b.seq /\ b.seq <= applied /\ d > base
    BY <1>1 DEF SumInv, StageSound, StageFresh
  <2>. QED BY <1>2, <2>1, <2>2
<1>4. ASSUME NEW s \in Stages, NEW b \in stage'[s]
      PROVE  \/ b \in stage[s]
             \/ b = [seq |-> BatchSeq, diffs |-> Staged(s)] /\ b.diffs \subseteq batch
  <2>1. b \in stage[s] \/ b = [seq |-> BatchSeq, diffs |-> Staged(s)]
    BY <1>1
  <2>2. Staged(s) \subseteq batch
    BY DEF Staged
  <2>. QED BY <2>1, <2>2
<1>5. ASSUME NEW s \in Stages, NEW b \in stage'[s], NEW d \in b.diffs PROVE d > base
  <2>1. CASE b \in stage[s]
    BY <1>3, <2>1
  <2>2. CASE b.diffs \subseteq batch
    BY <1>2, <2>2
  <2>. QED BY <1>4, <2>1, <2>2
<1>6. ASSUME NEW s \in Stages, NEW b \in stage'[s], NEW c \in stage'[s], b # c
      PROVE  b.diffs \intersect c.diffs = {}
  <2>1. CASE b \in stage[s] /\ c \in stage[s]
    BY <1>1, <1>6, <2>1 DEF StageFresh, Apart
  <2>2. CASE b \in stage[s] /\ c.diffs \subseteq batch
    BY <1>2, <1>3, <2>2
  <2>3. CASE c \in stage[s] /\ b.diffs \subseteq batch
    BY <1>2, <1>3, <2>3
  <2>. QED BY <1>4, <1>6, <2>1, <2>2, <2>3
<1>. QED BY <1>1, <1>5, <1>6 DEF StageFresh, Apart

LEMMA StageNext == ASSUME Inv1, SumInv, StageFresh, [Next]_vars PROVE StageFresh'
<1>1. CASE UNCHANGED vars \/ Publish
  BY <1>1 DEF vars, Publish, planVars, StageFresh, Apart
<1>2. ASSUME NEW cap \in Caps, Start(cap) PROVE StageFresh'
  BY <1>2 DEF Start, StageFresh, NoStage, Apart
<1>3. CASE FetchDiff \/ FetchFails \/ NodePass
  BY <1>3, StageShrinks DEF FetchDiff, FetchFails, NodePass, ProcessEnds, planVars
<1>4. CASE Merge \/ PersistTagCaches \/ PersistNodeCache
  BY <1>4, StageShrinks DEF Merge, MergeYear, DropStaging, MergeThrows, MergeDone, ProcessEnds,
     PersistTagCaches, PersistNodeCache, planVars
<1>5. CASE Fold
  <2>1. ASSUME NEW s \in Stores, NEW next, <<s, next>> \in FoldOrder, FoldStore(s, next)
        PROVE  StageFresh'
    <3>1. /\ pc = s /\ pc' = next /\ base' = base /\ next # "langs" /\ s # "idle" /\ s # "manifest"
          /\ stage' = [stage EXCEPT ![s] = {}]
      BY <2>1 DEF FoldStore, FoldOrder, planVars, Stores
    <3>2. \A t \in Stages : stage'[t] \subseteq stage[t]
      BY <3>1 DEF Inv1, TypeOK, DiskTypeOK
    <3>. QED BY <3>1, <3>2, StageShrinks
  <2>2. CASE FlagMoves
    <3>1. /\ pc = "moves" /\ base' = base
          /\ stage' = [s \in Stages |-> IF s = "history" THEN stage[s] ELSE {}]
      BY <2>2 DEF FlagMoves, planVars
    <3>2. stage'["langs"] = {} /\ \A t \in Stages : stage'[t] \subseteq stage[t]
      BY <3>1 DEF Stages, Stores
    <3>. QED BY <3>1, <3>2, StageShrinks
  <2>. QED BY <1>5, <2>1, <2>2 DEF Fold, FoldOrder, Stores
<1>6. CASE Finalize
  <2>1. \A t \in Stages : stage'[t] \subseteq stage[t]
    BY <1>6 DEF Finalize, WriteRanking, WriteHistory, WriteSuspects, Inv1, TypeOK, DiskTypeOK
  <2>2. base' = base /\ pc \notin {"idle", "manifest"} /\ pc' # "langs"
    BY <1>6 DEF Finalize, WriteRanking, WriteHistory, WriteSuspects, planVars
  <2>. QED BY <2>1, <2>2, StageShrinks
<1>7. CASE WriteManifest \/ Crashes
  BY <1>7, StageShrinks DEF WriteManifest, Crashes, Crash, CrashWhileStaging, CrashWhileDropping,
     CrashWhileWritingManifest, ProcessEnds
<1>. QED BY <1>1, <1>2, <1>3, <1>4, <1>5, <1>6, <1>7, StageScanPass DEF Next, Step

-----------------------------------------------------------------------------
(* Stamps.                                                                 *)

\* What a step leaves of StampsAhead.
AheadAfter(n) ==
  n > source'.seq => (pc' \in CommitSteps /\ n = applied') \/ (~NoCrashes /\ n = Goal')

LEMMA AheadKept ==
  ASSUME Inv1, GoalFollowed, Repeatable, source'.seq = source.seq,
         NoCrashes /\ pc \in CommitSteps => pc' \in CommitSteps /\ applied' = applied,
         NEW n, StampsAhead(n)
  PROVE  AheadAfter(n)
<1>1. Goal' = Goal
  BY GoalSame
<1>2. CASE NoCrashes
  BY <1>1, <1>2 DEF StampsAhead, AheadAfter
<1>3. CASE ~NoCrashes
  <2>1. ASSUME n > source.seq, pc \in CommitSteps, n = applied PROVE n = Goal
    <3>1. base = source.seq /\ base \in Nat
      BY <2>1 DEF Inv1, TypeOK, ProcessTypeOK, RunOK, CommitSteps
    <3>2. applied # base
      BY <2>1, <3>1
    <3>. QED BY <1>3, <2>1, <3>2 DEF GoalFollowed, Repeatable, CommitSteps
  <2>. QED BY <1>1, <1>3, <2>1 DEF StampsAhead, AheadAfter
<1>. QED BY <1>2, <1>3

LEMMA AheadWriteManifest ==
  ASSUME Inv1, PlanSound, ~StaleMirror, GoalFollowed, Repeatable, WriteManifest,
         NEW n \in Nat, StampsAhead(n)
  PROVE  AheadAfter(n)
<1>1. /\ pc = "manifest" /\ base = source.seq /\ base <= applied
      /\ base \in Nat /\ applied \in Nat
  BY DEF WriteManifest, Inv1, TypeOK, ProcessTypeOK, RunOK, CommitSteps
<1>2. CASE applied = base
  <2>1. source'.seq = source.seq /\ Goal' = Goal
    BY <1>2, ManifestStays, GoalSame
  <2>. QED BY <1>1, <1>2, <2>1 DEF StampsAhead, AheadAfter
<1>3. CASE applied # base
  <2>1. source'.seq = applied
    BY <1>3 DEF WriteManifest, NewSource
  <2>2. ~NoCrashes => Goal = applied
    BY <1>1, <1>3 DEF GoalFollowed, Repeatable, CommitSteps
  <2>3. ~ (n > applied)
    BY <1>1, <2>2 DEF StampsAhead
  <2>. QED BY <2>1, <2>3 DEF AheadAfter
<1>. QED BY <1>2, <1>3

\* Without crashes a commit goes on to the next step until it writes the manifest.
LEMMA CommitGoesOn ==
  ASSUME Inv1, StagingInv, NoCrashes, [Next]_vars, ~WriteManifest, pc \in CommitSteps
  PROVE  /\ pc' \in CommitSteps /\ applied' = applied
         /\ pc # "tagcache" => pc' # "tagcache"
         /\ \A s \in {"ranking", "history"} : pc \in FoldedAt(s) => pc' \in FoldedAt(s)
         /\ pc = "manifest" => pc' = "manifest"
<1>1. CASE UNCHANGED vars \/ Publish
  BY <1>1 DEF vars, Publish, loopVars
<1>2. CASE (\E cap \in Caps : Start(cap)) \/ FetchDiff \/ FetchFails \/ NodePass \/ ScanPass
  BY <1>2 DEF Start, FetchDiff, FetchFails, NodePass, ScanPass, CommitSteps
<1>3. CASE Merge \/ PersistTagCaches \/ PersistNodeCache
  <2>1. ASSUME NEW y \in Years, MergeThrows(y) PROVE FALSE
    BY <2>1 DEF MergeThrows, Foldable, StagingInv, StagingIsOwn
  <2>. QED BY <1>3, <2>1 DEF Merge, MergeYear, DropStaging, MergeDone, PersistTagCaches,
       PersistNodeCache, loopVars, CommitSteps, FoldedAt
<1>4. CASE Fold \/ Finalize
  BY <1>4 DEF Fold, FoldStore, FlagMoves, Finalize, WriteRanking, WriteHistory, WriteSuspects,
     loopVars, CommitSteps, FoldedAt
<1>5. CASE Crashes
  BY <1>5 DEF Crashes, Crash, CrashWhileStaging, CrashWhileDropping,
     CrashWhileWritingManifest, NoCrashes, Inv1, TypeOK, WorldTypeOK
<1>. QED BY <1>1, <1>2, <1>3, <1>4, <1>5 DEF Next, Step

\* Every step keeps what is true of a stamp it does not change.
LEMMA AheadNext ==
  ASSUME Inv1, PlanSound, ~StaleMirror, GoalFollowed, Repeatable, StagingInv, [Next]_vars,
         NEW n \in Nat, StampsAhead(n)
  PROVE  AheadAfter(n)
<1>1. CASE WriteManifest
  BY <1>1, AheadWriteManifest
<1>2. CASE ~WriteManifest
  <2>1. source'.seq = source.seq
    BY <1>2, SourceUnchanged
  <2>. QED BY <1>2, <2>1, AheadKept, CommitGoesOn
<1>. QED BY <1>1, <1>2

\* A stamp a step writes is the applied sequence of a commit.
LEMMA YearStampCases ==
  ASSUME Inv1, [Next]_vars, NEW y \in Years
  PROVE  \/ yearStamp'[y] = yearStamp[y]
         \/ pc' \in CommitSteps /\ applied' = applied /\ yearStamp'[y] = applied
<1>1. CASE \E z \in Years : MergeYear(z)
  <2>1. PICK z \in Years : MergeYear(z)
    BY <1>1
  <2>2. /\ yearStamp' = [yearStamp EXCEPT ![z] = applied] /\ applied' = applied
        /\ pc' \in CommitSteps /\ yearStamp \in [Years -> 0..MaxSeq]
    BY <2>1 DEF MergeYear, loopVars, CommitSteps, Inv1, TypeOK, DiskTypeOK
  <2>. QED BY <2>2
<1>2. CASE Merge /\ ~ \E z \in Years : MergeYear(z)
  BY <1>2 DEF Merge, DropStaging, MergeThrows, MergeDone, partVars
<1>3. CASE UNCHANGED vars \/ Publish
  BY <1>3 DEF vars, Publish, partVars
<1>4. CASE (\E cap \in Caps : Start(cap)) \/ FetchDiff \/ FetchFails \/ NodePass \/ ScanPass
  BY <1>4 DEF Start, FetchDiff, FetchFails, NodePass, ScanPass, partVars
<1>5. CASE PersistTagCaches \/ PersistNodeCache \/ Fold \/ Finalize \/ WriteManifest
  BY <1>5 DEF PersistTagCaches, PersistNodeCache, Fold, FoldStore, FlagMoves, Finalize,
     WriteRanking, WriteHistory, WriteSuspects, WriteManifest, partVars
<1>6. CASE Crashes
  BY <1>6 DEF Crashes, Crash, CrashWhileStaging, CrashWhileDropping,
     CrashWhileWritingManifest, partVars
<1>. QED BY <1>1, <1>2, <1>3, <1>4, <1>5, <1>6 DEF Next, Step

LEMMA StoreStampCases ==
  ASSUME Inv1, [Next]_vars, NEW s \in FoldedStores
  PROVE  \/ storeStamp'[s] = storeStamp[s]
         \/ pc' \in CommitSteps /\ applied' = applied /\ storeStamp'[s] = applied
<1>1. CASE Fold
  <2>1. ASSUME NEW t \in Stores, NEW next, <<t, next>> \in FoldOrder, FoldStore(t, next)
        PROVE  \/ storeStamp'[s] = storeStamp[s]
               \/ pc' \in CommitSteps /\ applied' = applied /\ storeStamp'[s] = applied
    <3>1. /\ UNCHANGED storeVars \/ storeStamp' = [storeStamp EXCEPT ![t] = applied]
          /\ applied' = applied /\ pc' \in CommitSteps /\ s \in Stores
          /\ storeStamp \in [Stores -> 0..MaxSeq]
      BY <2>1 DEF FoldStore, FoldOrder, loopVars, CommitSteps, FoldedStores, Inv1, TypeOK,
         DiskTypeOK
    <3>. QED BY <3>1 DEF storeVars
  <2>2. CASE FlagMoves
    BY <2>2 DEF FlagMoves, storeVars
  <2>. QED BY <1>1, <2>1, <2>2 DEF Fold, FoldOrder, Stores
<1>2. CASE UNCHANGED vars \/ Publish
  BY <1>2 DEF vars, Publish, storeVars
<1>3. CASE (\E cap \in Caps : Start(cap)) \/ FetchDiff \/ FetchFails \/ NodePass \/ ScanPass
  BY <1>3 DEF Start, FetchDiff, FetchFails, NodePass, ScanPass, storeVars
<1>4. CASE Merge \/ PersistTagCaches \/ PersistNodeCache \/ Finalize \/ WriteManifest
  BY <1>4 DEF Merge, MergeYear, DropStaging, MergeThrows, MergeDone, PersistTagCaches,
     PersistNodeCache, Finalize, WriteRanking, WriteHistory, WriteSuspects, WriteManifest, storeVars
<1>5. CASE Crashes
  BY <1>5 DEF Crashes, Crash, CrashWhileStaging, CrashWhileDropping,
     CrashWhileWritingManifest, storeVars
<1>. QED BY <1>1, <1>2, <1>3, <1>4, <1>5 DEF Next, Step

LEMMA StampsNext ==
  ASSUME Inv1, PlanSound, ~StaleMirror, GoalFollowed, Repeatable, StagingInv, StampsOfRuns,
         [Next]_vars
  PROVE  StampsOfRuns'
<1>1. ASSUME NEW y \in Years PROVE AheadAfter(yearStamp'[y])
  <2>1. CASE yearStamp'[y] = yearStamp[y]
    <3>1. yearStamp[y] \in Nat /\ StampsAhead(yearStamp[y])
      BY DEF StampsOfRuns, Inv1, TypeOK, DiskTypeOK
    <3>. QED BY <2>1, <3>1, AheadNext
  <2>2. CASE pc' \in CommitSteps /\ applied' = applied /\ yearStamp'[y] = applied
    BY <2>2 DEF AheadAfter
  <2>. QED BY <2>1, <2>2, YearStampCases
<1>2. ASSUME NEW s \in FoldedStores PROVE AheadAfter(storeStamp'[s])
  <2>1. CASE storeStamp'[s] = storeStamp[s]
    <3>1. storeStamp[s] \in Nat /\ StampsAhead(storeStamp[s])
      BY DEF StampsOfRuns, FoldedStores, Inv1, TypeOK, DiskTypeOK
    <3>. QED BY <2>1, <3>1, AheadNext
  <2>2. CASE pc' \in CommitSteps /\ applied' = applied /\ storeStamp'[s] = applied
    BY <2>2 DEF AheadAfter
  <2>. QED BY <2>1, <2>2, StoreStampCases
<1>. QED BY <1>1, <1>2 DEF StampsOfRuns, StampsAhead, AheadAfter

-----------------------------------------------------------------------------
(* Nothing is summed twice.                                                *)

\* What is summed into an output that holds nothing past the manifest, out of files
\* that are apart and hold nothing before it, is summed once.
LEMMA NothingRecounted ==
  ASSUME NEW old, NEW fs, NEW n \in Nat, Apart(fs),
         \A d \in old : d \in Nat /\ d <= n,
         \A f \in fs : \A d \in f.diffs : d > n
  PROVE  Recounted(old, fs) = {}
<1> SUFFICES ASSUME NEW d \in Recounted(old, fs) PROVE FALSE
  OBVIOUS
<1>1. \A f, g \in fs : f # g => ~ (d \in f.diffs /\ d \in g.diffs)
  BY DEF Apart
<1>2. d \in old
  BY <1>1 DEF Recounted
<1>3. PICK f \in fs : d \in f.diffs
  BY DEF Recounted, Covered
<1>4. d \in Nat /\ d <= n /\ d > n
  BY <1>2, <1>3
<1>. QED BY <1>4

\* A commit that finds a stamp short of its sequence finds it short of the manifest.
LEMMA StampIsBehind ==
  ASSUME Inv1, GoalFollowed, Repeatable, pc \in CommitSteps \ {"manifest"},
         NEW n \in Nat, StampsAhead(n), n < applied
  PROVE  n <= source.seq
<1>1. base = source.seq /\ base < applied /\ base \in Nat /\ applied \in Nat
  BY DEF Inv1, TypeOK, ProcessTypeOK, RunOK, CommitSteps
<1>2. ~NoCrashes => Goal = applied
  BY <1>1 DEF GoalFollowed, Repeatable, CommitSteps
<1>. QED BY <1>1, <1>2 DEF StampsAhead

LEMMA MergeOnceNext ==
  ASSUME Inv1, PartInv, GoalFollowed, Repeatable, StagingInv, StampsOfRuns, MergeAppliesOnce,
         [Next]_vars
  PROVE  MergeAppliesOnce'
<1>1. CASE ~ \E y \in Years : MergeYear(y)
  BY <1>1, PartsUnchanged DEF MergeAppliesOnce
<1>2. ASSUME NEW y \in Years, MergeYear(y), NEW p \in Parts PROVE remerged'[p] = {}
  <2> DEFINE fs == {f \in Foldable(y) : f.part = p}
  <2>1. /\ p[1] = y => remerged'[p] = remerged[p] \union Recounted(merged[p], fs)
        /\ p[1] # y => remerged'[p] = remerged[p]
    BY <1>2 DEF MergeYear
  <2>2. ASSUME p[1] = y PROVE Recounted(merged[p], fs) = {}
    <3>1. /\ yearStamp[y] \in Nat /\ applied \in Nat /\ source.seq \in Nat
          /\ pc \in CommitSteps \ {"manifest"} /\ yearStamp[y] < applied
      BY <1>2 DEF MergeYear, AlreadyMerged, CommitSteps, Inv1, TypeOK, DiskTypeOK, ProcessTypeOK
    <3>2. yearStamp[y] <= source.seq
      BY <3>1, StampIsBehind DEF StampsOfRuns
    <3>3. \A d \in merged[p] : d \in Nat /\ d <= source.seq
      BY <2>2, <3>1, <3>2 DEF PartInv, YearStampsDelimit
    <3>4. fs \subseteq {f \in staging : f.part = p}
      BY DEF Foldable
    <3>5. Apart(fs) /\ \A f \in fs : \A d \in f.diffs : d > source.seq
      BY <3>4 DEF StagingInv, StagingFresh, Apart
    <3>. QED BY <3>1, <3>3, <3>5, NothingRecounted
  <2>. QED BY <2>1, <2>2 DEF MergeAppliesOnce
<1>. QED BY <1>1, <1>2 DEF MergeAppliesOnce

LEMMA StoresOnceNext ==
  ASSUME Inv1, SumInv, GoalFollowed, Repeatable, StageFresh, StampsOfRuns, StoresFoldOnce,
         [Next]_vars
  PROVE  StoresFoldOnce'
<1> SUFFICES ASSUME NEW s \in Stores PROVE refolded'[s] = {}
  BY DEF StoresFoldOnce
<1>1. refolded[s] = {} /\ refolded \in [Sums -> SUBSET Seqs] /\ s \in Sums /\ s \in Stages
  BY DEF StoresFoldOnce, Inv1, TypeOK, DiskTypeOK, Sums, Stages
<1>2. ASSUME NEW t \in Stores, NEW next, <<t, next>> \in FoldOrder, FoldStore(t, next)
      PROVE  refolded'[s] = {}
  <2>1. CASE UNCHANGED storeVars \/ t # s
    BY <1>1, <1>2, <2>1 DEF FoldStore, storeVars
  <2>2. CASE t = s /\ ~UNCHANGED storeVars
    <3>1. /\ pc = s /\ stage[s] # {} /\ ~ (storeStamp[s] >= applied)
          /\ refolded' = [refolded EXCEPT ![s] = @ \union Recounted(folded[s], NewDirs(s))]
      BY <1>2, <2>2 DEF FoldStore
    <3>2. s \in FoldedStores /\ pc \in CommitSteps \ {"manifest"}
      BY <1>2, <2>2, <3>1 DEF FoldedStores, StageFresh, CommitSteps, FoldOrder
    <3>3. /\ storeStamp[s] \in Nat /\ applied \in Nat /\ source.seq \in Nat
          /\ storeStamp[s] < applied /\ base = source.seq
      BY <3>1, <3>2 DEF Inv1, TypeOK, DiskTypeOK, ProcessTypeOK, RunOK, CommitSteps
    <3>4. storeStamp[s] <= source.seq
      BY <3>2, <3>3, StampIsBehind DEF StampsOfRuns
    <3>5. \A d \in folded[s] : d \in Nat /\ d <= source.seq
      BY <3>2, <3>3, <3>4 DEF SumInv, StoreStampsDelimit
    <3>6. pc \notin {"idle", "manifest"}
      BY <3>2 DEF CommitSteps
    <3>7. Apart(NewDirs(s)) /\ \A b \in NewDirs(s) : \A d \in b.diffs : d > source.seq
      BY <1>1, <3>3, <3>6 DEF StageFresh, Apart, NewDirs
    <3>8. Recounted(folded[s], NewDirs(s)) = {}
      BY <3>3, <3>5, <3>7, NothingRecounted
    <3>. QED BY <1>1, <3>1, <3>8
  <2>. QED BY <2>1, <2>2
<1>3. CASE Fold
  BY <1>1, <1>2, <1>3 DEF Fold, FoldOrder, Stores, FlagMoves, storeVars
<1>4. CASE Finalize
  BY <1>1, <1>4 DEF Finalize, WriteRanking, WriteHistory, WriteSuspects, AddHistoryTo, storeVars,
     Stores
<1>. QED BY <1>1, <1>3, <1>4, SumsUnchanged

LEMMA OnceInit == Init => OnceInv
<1> SUFFICES ASSUME Init PROVE OnceInv
  OBVIOUS
<1>1. /\ pc = "idle" /\ staging = {} /\ ~stopped /\ published = Published0
      /\ yearStamp = [y \in Years |-> 0] /\ storeStamp = [s \in Stores |-> 0]
      /\ source.seq = 0 /\ remerged = [p \in Parts |-> {}] /\ refolded = [s \in Sums |-> {}]
  BY DEF Init, Idle
<1>2. GoalFollowed
  BY <1>1 DEF GoalFollowed, SameTarget, FetchSteps, CommitSteps
<1>3. StagingOnCuts /\ StagingIsOwn /\ StagingFresh
  BY <1>1 DEF StagingOnCuts, StagingIsOwn, StagingFresh, Apart
<1>4. StageFresh
  BY <1>1 DEF StageFresh
<1>5. StampsOfRuns
  BY <1>1 DEF StampsOfRuns, StampsAhead, FoldedStores
<1>6. MergeAppliesOnce /\ StoresFoldOnce
  BY <1>1 DEF MergeAppliesOnce, StoresFoldOnce, Sums
<1>. QED BY <1>2, <1>3, <1>4, <1>5, <1>6 DEF OnceInv

LEMMA OnceNext ==
  ASSUME Inv3, ~StaleMirror, Repeatable, OnceInv, [Next]_vars PROVE OnceInv'
<1>1. Inv1 /\ PartInv /\ SumInv /\ PlanSound
  BY DEF Inv3, Inv2
<1>2. /\ GoalFollowed /\ StagingInv /\ StageFresh /\ StampsOfRuns
      /\ MergeAppliesOnce /\ StoresFoldOnce
  BY DEF OnceInv, StagingInv
<1>3. GoalFollowed' /\ StagingInv' /\ StageFresh' /\ StampsOfRuns'
  BY <1>1, <1>2, GoalNext, StagingNext, StageNext, StampsNext
<1>4. MergeAppliesOnce' /\ StoresFoldOnce'
  BY <1>1, <1>2, MergeOnceNext, StoresOnceNext
<1>. QED BY <1>3, <1>4 DEF OnceInv, StagingInv

LEMMA OnceInvHolds == ASSUME ~StaleMirror, Repeatable PROVE Spec => [](Inv3 /\ OnceInv)
<1>1. Inv3 /\ OnceInv /\ [Next]_vars => OnceInv'
  BY OnceNext
<1>. QED BY <1>1, OnceInit, Inv3Holds, PTL DEF Spec

\* merge_update_partitions sums a diff into data.parquet once, if no run is interrupted
\* or if the runs after an interrupted one aim at the same sequence: they cut the stream
\* where it did, so that they write over its staging, and a year it has merged already
\* has their stamp.
THEOREM MergeAppliesOnceTheorem ==
  ASSUME ~StaleMirror, Repeatable PROVE Spec => []MergeAppliesOnce
<1>1. OnceInv => MergeAppliesOnce
  BY DEF OnceInv
<1>. QED BY <1>1, OnceInvHolds, PTL

\* Under the same conditions no suspect store counts a diff twice.
THEOREM StoresFoldOnceTheorem ==
  ASSUME ~StaleMirror, Repeatable PROVE Spec => []StoresFoldOnce
<1>1. OnceInv => StoresFoldOnce
  BY DEF OnceInv
<1>. QED BY <1>1, OnceInvHolds, PTL

-----------------------------------------------------------------------------
(* What has no stamp, without crashes.                                     *)

\* The ranking and the history change in one step each.
LEMMA HistoryCases ==
  ASSUME Inv1, [Next]_vars, NEW s \in {"ranking", "history"}
  PROVE  \/ folded'[s] = folded[s] /\ refolded'[s] = refolded[s]
         \/ AddHistoryTo(s) /\ pc = s /\ pc' \in FoldedAt(s) /\ applied' = applied
<1>1. CASE Fold
  BY <1>1 DEF Fold, FoldStore, FlagMoves, storeVars, Inv1, TypeOK, DiskTypeOK, Sums, Stores
<1>2. CASE Finalize
  <2>1. CASE WriteRanking /\ AddHistoryTo("ranking") /\ pc' = "history"
    BY <2>1 DEF WriteRanking, AddHistoryTo, loopVars, FoldedAt, CommitSteps, Inv1, TypeOK,
       DiskTypeOK, Sums
  <2>2. CASE WriteHistory
    BY <2>2 DEF WriteHistory, AddHistoryTo, loopVars, FoldedAt, CommitSteps, Inv1, TypeOK,
       DiskTypeOK, Sums
  <2>3. CASE UNCHANGED <<folded, refolded>>
    BY <2>3
  <2>. QED BY <1>2, <2>1, <2>2, <2>3 DEF Finalize, WriteRanking, WriteSuspects, storeVars
<1>. QED BY <1>1, <1>2, SumsUnchanged

LEMMA CacheCases ==
  ASSUME [Next]_vars
  PROVE  /\ nodeCache' = nodeCache \/ PersistNodeCache
         /\ tagCache' = tagCache \/ PersistTagCaches
<1>1. CASE UNCHANGED vars \/ Publish
  BY <1>1 DEF vars, Publish, cacheVars
<1>2. CASE (\E cap \in Caps : Start(cap)) \/ FetchDiff \/ FetchFails \/ NodePass \/ ScanPass
  BY <1>2 DEF Start, FetchDiff, FetchFails, NodePass, ScanPass, cacheVars
<1>3. CASE Merge \/ PersistTagCaches \/ PersistNodeCache
  BY <1>3 DEF Merge, MergeYear, DropStaging, MergeThrows, MergeDone, PersistTagCaches,
     PersistNodeCache, cacheVars
<1>4. CASE Fold \/ Finalize \/ WriteManifest
  BY <1>4 DEF Fold, FoldStore, FlagMoves, Finalize, WriteRanking, WriteHistory, WriteSuspects,
     WriteManifest, cacheVars
<1>5. CASE Crashes
  BY <1>5 DEF Crashes, Crash, CrashWhileStaging, CrashWhileDropping,
     CrashWhileWritingManifest, cacheVars
<1>. QED BY <1>1, <1>2, <1>3, <1>4, <1>5 DEF Next, Step

\* A bound on what an output holds only moves with the output or with the manifest.
LEMMA UpToKept ==
  ASSUME Inv1, Inv1', source'.seq = source.seq, NEW late, NEW later,
         late => later /\ applied' = applied, later => pc' \in CommitSteps
  PROVE  UpTo(late) \subseteq 1..(IF later THEN applied' ELSE source'.seq)
<1>1. /\ source.seq \in Nat /\ applied \in Nat /\ applied' \in Nat
      /\ later => source.seq <= applied'
  BY DEF Inv1, TypeOK, DiskTypeOK, ProcessTypeOK, RunOK, CommitSteps
<1>. QED BY <1>1 DEF UpTo

\* The run's history stage holds diffs of the run, each once.
LEMMA HistoryStage ==
  ASSUME Inv1, SumInv, StageFresh, NEW s \in {"ranking", "history"}, pc = s,
         folded[s] \subseteq 1..source.seq
  PROVE  /\ Covered(stage["history"]) \subseteq 1..applied
         /\ Recounted(folded[s], stage["history"]) = {}
<1>1. /\ "history" \in Stages /\ pc \notin {"idle", "manifest"}
      /\ base = source.seq /\ source.seq \in Nat /\ applied \in Nat
  BY DEF Stages, Inv1, TypeOK, DiskTypeOK, ProcessTypeOK, RunOK
<1>2. ASSUME NEW b \in stage["history"], NEW d \in b.diffs PROVE d \in 1..applied
  <2>1. d \in Nat /\ d >= 1 /\ b.seq \in Nat
    BY <1>1 DEF Inv1, TypeOK, DiskTypeOK, StageDir, Seqs
  <2>2. d <= b.seq /\ b.seq <= applied
    BY <1>1 DEF SumInv, StageSound
  <2>. QED BY <1>1, <2>1, <2>2
<1>3. /\ Apart(stage["history"])
      /\ \A b \in stage["history"] : \A d \in b.diffs : d > source.seq
  BY <1>1 DEF StageFresh
<1>4. \A d \in folded[s] : d \in Nat /\ d <= source.seq
  BY <1>1
<1>5. Recounted(folded[s], stage["history"]) = {}
  BY <1>1, <1>3, <1>4, NothingRecounted
<1>. QED BY <1>2, <1>5 DEF Covered

LEMMA ExactWriteManifest ==
  ASSUME Inv1, PlanSound, ~StaleMirror, ExactInv, WriteManifest PROVE ExactInv'
<1>1. /\ pc = "manifest" /\ pc' = "idle" /\ base = source.seq
      /\ UNCHANGED <<folded, refolded, nodeCache, tagCache>>
  BY DEF WriteManifest, ProcessEnds, storeVars, cacheVars, Inv1, RunOK
<1>2. source'.seq = applied
  <2>1. CASE applied = base
    BY <1>1, <2>1, ManifestStays
  <2>2. CASE applied # base
    BY <2>2 DEF WriteManifest, NewSource
  <2>. QED BY <2>1, <2>2
<1>. QED BY <1>1, <1>2 DEF ExactInv, UpTo, FoldedAt, CommitSteps

LEMMA CommitFacts ==
  ASSUME Inv1
  PROVE  /\ source.seq \in Nat /\ applied \in Nat
         /\ pc \in CommitSteps => base = source.seq /\ source.seq <= applied
  BY DEF Inv1, TypeOK, DiskTypeOK, ProcessTypeOK, RunOK, CommitSteps

LEMMA ExactNext ==
  ASSUME Inv1, Inv1', SumInv, PlanSound, ~StaleMirror, StagingInv, StageFresh, ExactInv, [Next]_vars
  PROVE  ExactInv'
<1> SUFFICES ASSUME NoCrashes, ~WriteManifest PROVE ExactInv'
  BY ExactWriteManifest DEF ExactInv
<1>1. /\ source'.seq = source.seq /\ source.seq \in Nat /\ applied \in Nat
      /\ pc \in CommitSteps => base = source.seq /\ source.seq <= applied
  <2>1. source'.seq = source.seq
    BY SourceUnchanged
  <2>. QED BY <2>1, CommitFacts
<1>2. ASSUME NEW s \in {"ranking", "history"}
      PROVE  /\ folded'[s] \subseteq 1..(IF pc' \in FoldedAt(s) THEN applied' ELSE source'.seq)
             /\ refolded'[s] = {}
  <2>1. folded[s] \subseteq UpTo(pc \in FoldedAt(s)) /\ refolded[s] = {}
    BY DEF ExactInv
  <2>2. CASE folded'[s] = folded[s] /\ refolded'[s] = refolded[s]
    <3>1. FoldedAt(s) \subseteq CommitSteps
      BY DEF FoldedAt
    <3>2. pc \in FoldedAt(s) => pc' \in FoldedAt(s) /\ applied' = applied
      BY <3>1, CommitGoesOn
    <3>3. UpTo(pc \in FoldedAt(s)) \subseteq 1..(IF pc' \in FoldedAt(s) THEN applied' ELSE source'.seq)
      BY <1>1, <3>1, <3>2, UpToKept
    <3>. QED BY <2>1, <2>2, <3>3
  <2>3. CASE AddHistoryTo(s) /\ pc = s /\ pc' \in FoldedAt(s) /\ applied' = applied
    <3>1. pc \notin FoldedAt(s) /\ pc \in CommitSteps
      BY <2>3 DEF FoldedAt, CommitSteps
    <3>2. folded[s] \subseteq 1..source.seq
      BY <2>1, <3>1 DEF UpTo
    <3>3. /\ folded'[s] = folded[s] \union Covered(stage["history"])
          /\ refolded'[s] = refolded[s] \union Recounted(folded[s], stage["history"])
      BY <2>3 DEF AddHistoryTo, Inv1, TypeOK, DiskTypeOK, Sums
    <3>. QED BY <1>1, <2>1, <2>3, <3>1, <3>2, <3>3, HistoryStage
  <2>. QED BY <2>2, <2>3, HistoryCases
<1>3. nodeCache' \subseteq 1..(IF pc' = "manifest" THEN applied' ELSE source'.seq)
  <2>1. CASE nodeCache' = nodeCache
    <3>1. /\ pc = "manifest" => pc' = "manifest" /\ applied' = applied
          /\ pc' = "manifest" => pc' \in CommitSteps
      BY CommitGoesOn DEF CommitSteps
    <3>2. UpTo(pc = "manifest") \subseteq 1..(IF pc' = "manifest" THEN applied' ELSE source'.seq)
      BY <1>1, <3>1, UpToKept
    <3>. QED BY <2>1, <3>2 DEF ExactInv
  <2>2. CASE PersistNodeCache
    <3>1. /\ pc = "nodecache" /\ pc' = "manifest" /\ applied' = applied
          /\ nodeCache' = nodeCache \union RunDiffs
      BY <2>2 DEF PersistNodeCache, loopVars
    <3>2. pc \in CommitSteps /\ nodeCache \subseteq 1..source.seq
      BY <3>1 DEF CommitSteps, ExactInv, UpTo
    <3>3. RunDiffs \subseteq 1..applied /\ 1..source.seq \subseteq 1..applied
      BY <1>1, <3>2 DEF RunDiffs
    <3>. QED BY <3>1, <3>2, <3>3 DEF CommitSteps
  <2>. QED BY <2>1, <2>2, CacheCases
<1>4. tagCache' \subseteq 1..(IF pc' \in CommitSteps \ {"tagcache"} THEN applied' ELSE source'.seq)
  <2>1. CASE tagCache' = tagCache
    <3>1. pc \in CommitSteps \ {"tagcache"} => pc' \in CommitSteps \ {"tagcache"} /\ applied' = applied
      BY CommitGoesOn
    <3>2. UpTo(pc \in CommitSteps \ {"tagcache"})
            \subseteq 1..(IF pc' \in CommitSteps \ {"tagcache"} THEN applied' ELSE source'.seq)
      BY <1>1, <3>1, UpToKept
    <3>. QED BY <2>1, <3>2 DEF ExactInv
  <2>2. CASE PersistTagCaches
    <3>1. /\ pc = "tagcache" /\ pc' = "merge" /\ applied' = applied
          /\ tagCache' = tagCache \union RunDiffs
      BY <2>2 DEF PersistTagCaches, loopVars
    <3>2. pc \in CommitSteps /\ tagCache \subseteq 1..source.seq /\ pc' \in CommitSteps
      BY <3>1 DEF CommitSteps, ExactInv, UpTo
    <3>3. RunDiffs \subseteq 1..applied /\ 1..source.seq \subseteq 1..applied
      BY <1>1, <3>2 DEF RunDiffs
    <3>. QED BY <3>1, <3>2, <3>3 DEF CommitSteps
  <2>. QED BY <2>1, <2>2, CacheCases
<1>. QED BY <1>2, <1>3, <1>4 DEF ExactInv, UpTo

LEMMA ExactInvHolds == ASSUME ~StaleMirror, NoCrashes PROVE Spec => [](Inv3 /\ OnceInv /\ ExactInv)
<1>1. Init => ExactInv
  <2> SUFFICES ASSUME Init PROVE ExactInv
    OBVIOUS
  <2>1. \A s \in {"ranking", "history"} : folded[s] = {} /\ refolded[s] = {}
    BY DEF Init, Sums
  <2>2. nodeCache = {} /\ tagCache = {}
    BY DEF Init
  <2>. QED BY <2>1, <2>2 DEF ExactInv
<1>2. Inv3 /\ Inv3' /\ OnceInv /\ ExactInv /\ [Next]_vars => ExactInv'
  BY ExactNext DEF Inv3, Inv2, OnceInv, StagingInv
<1>3. Repeatable
  BY DEF Repeatable
<1>. QED BY <1>1, <1>2, <1>3, OnceInvHolds, PTL DEF Spec

LEMMA ExactAtRest ==
  ASSUME Inv3, OnceInv, ExactInv, NoCrashes, pc = "idle"
  PROVE  /\ \A p \in Parts : merged[p] = {d \in Committed : p \in Touches[d]}
         /\ \A s \in SumsKept : folded[s] = Rows(s) \intersect Committed /\ refolded[s] = {}
         /\ nodeCache = Committed /\ tagCache = Committed
         /\ staging = {}
<1>1. /\ source.seq \in 0..MaxSeq /\ pc \notin CommitSteps
      /\ PartInv /\ SumInv /\ CacheInv /\ ContentSound
  BY DEF Inv3, Inv2, Inv1, TypeOK, DiskTypeOK, CommitSteps
<1>2. /\ \A y \in Years : yearStamp[y] \in Nat /\ yearStamp[y] <= source.seq
      /\ \A s \in FoldedStores : storeStamp[s] \in Nat /\ storeStamp[s] <= source.seq
  <2>1. ASSUME NEW n \in 0..MaxSeq, StampsAhead(n) PROVE n \in Nat /\ n <= source.seq
    BY <1>1, <2>1 DEF StampsAhead
  <2>2. \A y \in Years : yearStamp[y] \in 0..MaxSeq /\ StampsAhead(yearStamp[y])
    BY DEF OnceInv, StampsOfRuns, Inv3, Inv2, Inv1, TypeOK, DiskTypeOK
  <2>3. \A s \in FoldedStores : storeStamp[s] \in 0..MaxSeq /\ StampsAhead(storeStamp[s])
    BY DEF OnceInv, StampsOfRuns, FoldedStores, Inv3, Inv2, Inv1, TypeOK, DiskTypeOK
  <2>. QED BY <2>1, <2>2, <2>3
<1>3. ASSUME NEW p \in Parts PROVE merged[p] = {d \in Committed : p \in Touches[d]}
  <2>1. p[1] \in Years
    BY DEF Parts
  <2>2. merged[p] = {d \in 1..yearStamp[p[1]] : p \in Touches[d]}
    BY <1>1 DEF PartInv, YearStampsDelimit
  <2>3. \A d \in Committed : p \in Touches[d] => d \in merged[p]
    BY <1>1 DEF PartInv, PartsDurable
  <2>4. 1..yearStamp[p[1]] \subseteq Committed
    BY <1>1, <1>2, <2>1 DEF Committed
  <2>. QED BY <2>2, <2>3, <2>4
<1>4. ASSUME NEW s \in SumsKept
      PROVE  folded[s] = Rows(s) \intersect Committed /\ refolded[s] = {}
  <2>1. s \in FoldedStores \/ s \in {"ranking", "history"}
    BY DEF SumsKept, Sums, FoldedStores
  <2>2. folded[s] \subseteq Rows(s)
    BY <1>1 DEF ContentSound
  <2>3. \A d \in Committed : d \in Rows(s) => d \in folded[s]
    BY <1>1 DEF SumInv, SumsDurable
  <2>4. CASE s \in FoldedStores
    <3>1. folded[s] = {d \in 1..storeStamp[s] : s \in Feeds[d]} /\ refolded[s] = {}
      BY <1>1, <2>4 DEF SumInv, StoreStampsDelimit, OnceInv, StoresFoldOnce, FoldedStores
    <3>2. 1..storeStamp[s] \subseteq Committed
      BY <1>1, <1>2, <2>4 DEF Committed
    <3>. QED BY <2>2, <2>3, <3>1, <3>2
  <2>5. CASE s \in {"ranking", "history"}
    <3>1. pc \notin FoldedAt(s)
      BY <1>1 DEF FoldedAt
    <3>2. folded[s] \subseteq Committed /\ refolded[s] = {}
      BY <2>5, <3>1 DEF ExactInv, UpTo, Committed
    <3>. QED BY <2>2, <2>3, <3>2
  <2>. QED BY <2>1, <2>4, <2>5
<1>5. nodeCache = Committed /\ tagCache = Committed
  <2>1. nodeCache \subseteq Committed /\ tagCache \subseteq Committed
    BY <1>1 DEF ExactInv, UpTo, Committed
  <2>. QED BY <1>1, <2>1 DEF CacheInv, CachesDurable
<1>6. staging = {}
  BY DEF OnceInv, StagingIsOwn
<1>. QED BY <1>3, <1>4, <1>5, <1>6

\* Between runs that are not interrupted the dataset is exactly the diffs up to the
\* sequence recorded, each counted once, however the runs were capped, batched or cut
\* short by a failed download.
THEOREM AtRestIsExactPrefixTheorem ==
  ASSUME ~StaleMirror, NoCrashes PROVE Spec => []AtRestIsExactPrefix
<1>1. Inv3 /\ OnceInv /\ ExactInv => AtRestIsExactPrefix
  <2> SUFFICES ASSUME Inv3, OnceInv, ExactInv, pc = "idle"
               PROVE  AtRestIsExactPrefix
    BY DEF AtRestIsExactPrefix
  <2>1. \A p \in Parts : remerged[p] = {}
    BY DEF OnceInv, MergeAppliesOnce
  <2>. QED BY <2>1, ExactAtRest DEF AtRestIsExactPrefix, SumsKept
<1>. QED BY <1>1, ExactInvHolds, PTL

-----------------------------------------------------------------------------
(* Without crashes the pipeline implements the ledger that counts once.    *)

LEMMA NothingRepeated ==
  ASSUME OnceInv', ExactInv', NoCrashes, NEW o \in LedgerOutputs PROVE LedgerRepeated'[o] = {}
<1>1. CASE o[1] = "part" /\ o[2] \in Parts
  BY <1>1, LedgerValues DEF OnceInv, MergeAppliesOnce
<1>2. CASE o[1] = "sum" /\ o[2] \in SumsKept
  <2>1. o[2] \in Stores \/ o[2] \in {"ranking", "history"}
    BY <1>2 DEF SumsKept, Sums
  <2>. QED BY <1>2, <2>1, LedgerValues DEF OnceInv, StoresFoldOnce, ExactInv
<1>. QED BY <1>1, <1>2, OutputCases

LEMMA LedgerAbsorbsOnce ==
  ASSUME Inv3, OnceInv', ExactInv', NoCrashes, [Next]_vars, ~WriteManifest
  PROVE  ExactlyOnce!Absorb
<1>1. AtLeastOnce!Absorb
  BY LedgerAbsorbs
<1>2. \A o \in LedgerOutputs : LedgerRepeated'[o] = {}
  BY NothingRepeated
<1>. QED BY <1>1, <1>2 DEF AtLeastOnce!Absorb, ExactlyOnce!Absorb

\* Without crashes the runs implement the ledger that counts every diff once and commits
\* no sequence before every output has absorbed the diffs up to it.
THEOREM ImplementsExactlyOnceTheorem ==
  ASSUME ~StaleMirror, NoCrashes PROVE Spec => ImplementsExactlyOnce
<1>1. Init => ExactlyOnce!Init
  BY LedgerInit DEF AtLeastOnce!Init, ExactlyOnce!Init
<1>2. Inv3 /\ OnceInv' /\ ExactInv' /\ [Next]_vars => [ExactlyOnce!Next]_(ExactlyOnce!vars)
  <2> SUFFICES ASSUME Inv3, OnceInv', ExactInv', [Next]_vars PROVE ExactlyOnce!Next
    OBVIOUS
  <2>1. CASE WriteManifest
    <3>1. AtLeastOnce!Commit
      BY <2>1, LedgerCommits
    <3>. QED BY <3>1 DEF AtLeastOnce!Commit, ExactlyOnce!Commit, ExactlyOnce!Next
  <2>2. CASE ~WriteManifest
    BY <2>2, LedgerAbsorbsOnce DEF ExactlyOnce!Next
  <2>. QED BY <2>1, <2>2
<1>. QED BY <1>1, <1>2, ExactInvHolds, PTL DEF Spec, ImplementsExactlyOnce, ExactlyOnce!Spec

-----------------------------------------------------------------------------
(* The recorded timestamp.                                                 *)

\* Steps that apply no batch and end no run.
LEMMA TimesKept ==
  ASSUME TimesApplied, UNCHANGED <<current, base, applied, appliedTs>>,
         pc # "idle", pc' # "idle", pc' \in CommitSteps => pc \in CommitSteps
  PROVE  TimesApplied'
  BY DEF TimesApplied

LEMMA TimesEnd == ASSUME ProcessEnds PROVE TimesApplied'
  BY DEF ProcessEnds, TimesApplied, CommitSteps

LEMMA TimesStart ==
  ASSUME Inv1, TimesApplied, NEW cap \in Caps, Start(cap) PROVE TimesApplied'
<1>1. pc = "idle" /\ applied' = source.seq /\ base' = source.seq /\ appliedTs' = appliedTs
  BY DEF Start
<1>2. appliedTs' = 0
  BY <1>1 DEF TimesApplied
<1>. QED BY <1>1, <1>2 DEF TimesApplied

LEMMA TimesFetchFails == ASSUME Inv1, TimesApplied, FetchFails PROVE TimesApplied'
<1>1. CASE ProcessEnds
  BY <1>1, TimesEnd
<1>2. CASE ~ProcessEnds
  <2>1. /\ pc = "fetch" /\ pc' \in {"nodes", "tagcache"}
        /\ UNCHANGED <<current, base, applied, appliedTs>>
    BY <1>2 DEF FetchFails, planVars
  <2>2. applied < target /\ target <= current /\ applied \in Nat /\ target \in Nat /\ current \in Nat
    BY <2>1 DEF Inv1, TypeOK, ProcessTypeOK, RunOK, FetchSteps
  <2>. QED BY <2>1, <2>2 DEF TimesApplied, FetchSteps, CommitSteps
<1>. QED BY <1>1, <1>2

LEMMA TimesScanPass ==
  ASSUME TimesInOrder, Inv1, TimesApplied, ScanPass PROVE TimesApplied'
<1>1. /\ pc = "scan" /\ pc' \in {"tagcache", "fetch"} /\ applied' = BatchSeq /\ current' = current
      /\ IF BatchTimes(batch) = {} THEN appliedTs' = appliedTs
                                   ELSE appliedTs' \in Latest(BatchTimes(batch))
  BY DEF ScanPass, planVars
<1>2. /\ applied \in Nat /\ BatchSeq \in Nat /\ applied < BatchSeq
      /\ batch = (applied + 1)..BatchSeq /\ batch \subseteq Seqs
  BY <1>1, BatchFacts
<1>3. BatchSeq <= current
  <2>1. seq <= target + 1 /\ target <= current /\ seq \in Nat /\ target \in Nat /\ current \in Nat
    BY <1>1 DEF Inv1, TypeOK, ProcessTypeOK, RunOK, FetchSteps
  <2>. QED BY <2>1 DEF BatchSeq
<1>4. /\ \A d \in Seqs : Times[d] \subseteq Nat
      /\ appliedTs \in Nat
  BY StreamAssumption DEF Inv1, TypeOK, ProcessTypeOK
<1>5. ASSUME appliedTs' > 0, NEW d \in 1..BatchSeq, NEW t \in Times[d] PROVE t <= appliedTs'
  <2>1. CASE BatchTimes(batch) = {}
    <3>1. d \in 1..applied
      BY <1>2, <2>1 DEF BatchTimes
    <3>. QED BY <1>1, <1>5, <2>1, <3>1 DEF TimesApplied
  <2>2. CASE BatchTimes(batch) # {}
    <3>1. /\ appliedTs' \in BatchTimes(batch)
          /\ \A u \in BatchTimes(batch) : u <= appliedTs' /\ u \in Nat
      <4>1. BatchTimes(batch) \subseteq Nat
        BY <1>2, <1>4 DEF BatchTimes
      <4>. QED BY <1>1, <2>2, <4>1 DEF Latest
    <3>2. CASE d \in batch
      BY <3>1, <3>2 DEF BatchTimes
    <3>3. CASE d \notin batch
      <4>1. PICK e \in batch : Times[e] # {}
        BY <2>2 DEF BatchTimes
      <4>2. e \in Seqs /\ d \in 1..e /\ e \in Nat
        BY <1>2, <3>3 DEF Seqs
      <4>3. PICK u \in Times[e] : t <= u
        BY <4>1, <4>2 DEF TimesInOrder
      <4>4. u <= appliedTs'
        BY <3>1 DEF BatchTimes
      <4>5. d \in Seqs /\ t \in Nat /\ u \in Nat /\ appliedTs' \in Nat
        <5>1. d \in Seqs
          BY <4>2, BoundsAssumption DEF Seqs
        <5>. QED BY <1>4, <3>1, <4>2, <4>3, <5>1
      <4>. QED BY <4>3, <4>4, <4>5
    <3>. QED BY <3>2, <3>3
  <2>. QED BY <2>1, <2>2
<1>. QED BY <1>1, <1>3, <1>5 DEF TimesApplied

LEMMA TimesNext ==
  ASSUME TimesInOrder, Inv1, TimesApplied, [Next]_vars PROVE TimesApplied'
<1>1. CASE UNCHANGED vars \/ Publish
  BY <1>1 DEF vars, Publish, planVars, loopVars, TimesApplied
<1>2. CASE FetchDiff \/ NodePass
  BY <1>2, TimesKept DEF FetchDiff, NodePass, planVars, loopVars, CommitSteps
<1>3. CASE Merge \/ PersistTagCaches \/ PersistNodeCache
  <2>1. ASSUME NEW y \in Years, MergeThrows(y) PROVE TimesApplied'
    BY <2>1, TimesEnd DEF MergeThrows
  <2>. QED BY <1>3, <2>1, TimesKept DEF Merge, MergeYear, DropStaging, MergeDone,
       PersistTagCaches, PersistNodeCache, planVars, loopVars, CommitSteps
<1>4. CASE Fold \/ Finalize
  BY <1>4, TimesKept DEF Fold, FoldStore, FlagMoves, Finalize, WriteRanking, WriteHistory,
     WriteSuspects, planVars, loopVars, CommitSteps
<1>5. CASE WriteManifest \/ Crashes
  BY <1>5, TimesEnd DEF WriteManifest, Crashes, Crash, CrashWhileStaging, CrashWhileDropping,
     CrashWhileWritingManifest
<1>. QED BY <1>1, <1>2, <1>3, <1>4, <1>5, TimesStart, TimesFetchFails, TimesScanPass
     DEF Next, Step

LEMMA TimestampNext ==
  ASSUME TimesInOrder, Inv1, TimesApplied, TimestampCoversDiffs, [Next]_vars
  PROVE  TimestampCoversDiffs'
<1>1. CASE source' = source
  BY <1>1 DEF TimestampCoversDiffs, Committed
<1>2. CASE ~source'.ok
  BY <1>2 DEF TimestampCoversDiffs
<1>3. CASE WriteManifest
  <2>1. /\ pc = "manifest" /\ source' = NewSource
        /\ applied \in 0..MaxSeq /\ current \in 0..MaxSeq /\ appliedTs \in Nat
    BY <1>3 DEF WriteManifest, Inv1, TypeOK, ProcessTypeOK
  <2>2. CASE applied = base \/ ~ (stopped /\ appliedTs > 0)
    <3>1. source'.ts = StateTime[current] /\ source'.seq \in 0..MaxSeq /\ source'.seq <= current
      BY <2>1, <2>2 DEF NewSource, TimesApplied, CommitSteps
    <3>2. \A d \in Committed' : d \in 1..current
      BY <2>1, <3>1 DEF Committed
    <3>. QED BY <2>1, <3>1, <3>2 DEF TimesInOrder, TimestampCoversDiffs
  <2>3. CASE applied # base /\ stopped /\ appliedTs > 0
    BY <2>1, <2>3 DEF NewSource, TimesApplied, TimestampCoversDiffs, Committed
  <2>. QED BY <2>2, <2>3
<1>4. CASE Crashes
  <2>1. source' = source \/ source' = [source EXCEPT !.ok = FALSE]
    BY <1>4 DEF Crashes, Crash, CrashWhileStaging, CrashWhileDropping, CrashWhileWritingManifest
  <2>2. source \in [seq : 0..MaxSeq, ts : Nat, ok : BOOLEAN]
    BY DEF Inv1, TypeOK, DiskTypeOK
  <2>3. source' = [source EXCEPT !.ok = FALSE] => source'.ok = FALSE
    BY <2>2
  <2>. QED BY <1>1, <1>2, <2>1, <2>3
<1>5. CASE UNCHANGED vars \/ Publish
  BY <1>1, <1>5 DEF vars, Publish
<1>6. CASE (\E cap \in Caps : Start(cap)) \/ FetchDiff \/ FetchFails \/ NodePass \/ ScanPass
  BY <1>1, <1>6 DEF Start, FetchDiff, FetchFails, NodePass, ScanPass
<1>7. CASE Merge \/ PersistTagCaches \/ PersistNodeCache
  BY <1>1, <1>7 DEF Merge, MergeYear, DropStaging, MergeThrows, MergeDone, PersistTagCaches,
     PersistNodeCache
<1>8. CASE Fold \/ Finalize
  BY <1>1, <1>8 DEF Fold, FoldStore, FlagMoves, Finalize, WriteRanking, WriteHistory, WriteSuspects
<1>. QED BY <1>3, <1>4, <1>5, <1>6, <1>7, <1>8 DEF Next, Step

\* The recorded timestamp is never before an edit of the recorded diffs, in spite of
\* crashes, of downloads that fail and of a mirror that is behind itself, if the
\* timestamps of the server are in order.
THEOREM TimestampCoversDiffsTheorem ==
  ASSUME TimesInOrder PROVE Spec => []TimestampCoversDiffs
<1>1. Init => TimesApplied /\ TimestampCoversDiffs
  BY DEF Init, Idle, TimesApplied, CommitSteps, TimestampCoversDiffs, Committed
<1>2. Inv1 /\ TimesApplied /\ TimestampCoversDiffs /\ [Next]_vars
        => TimesApplied' /\ TimestampCoversDiffs'
  BY TimesNext, TimestampNext
<1>3. Init => Inv1
  BY Init1
<1>4. Inv1 /\ [Next]_vars => Inv1'
  BY Next1
<1>. QED BY <1>1, <1>2, <1>3, <1>4, PTL DEF Spec

=============================================================================
