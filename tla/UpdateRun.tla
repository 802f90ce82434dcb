----------------------------- MODULE UpdateRun -----------------------------
(***************************************************************************)
(* One dataset advanced by successive runs of `karmamap update [N]`        *)
(* (run_update_mode in src/main.cpp) along a replication stream of diffs   *)
(* numbered 1, 2, ..., MaxSeq.                                             *)
(*                                                                         *)
(* A run downloads the diffs after the sequence recorded in manifest.json, *)
(* merges consecutive ones into batches, stages the counts of each batch   *)
(* and then commits: prior-tag caches, year partitions, suspect stores,    *)
(* users history, node cache, and last of all the manifest.  Every step is *)
(* an action, so a crash (or a thrown exception, which ends the process in *)
(* the same way) can fall between any two of them.                         *)
(*                                                                         *)
(* What is abstracted: the counts themselves.  An output (a year partition,*)
(* a suspect store, the ranking, the history) is the set of the diffs      *)
(* summed into it, and the set of those summed into it more than once.     *)
(* The years, stores and histories a diff contributes to are constants.    *)
(***************************************************************************)
EXTENDS Integers, FiniteSets

CONSTANTS
  MaxSeq,      \* the last diff the server ever publishes
  Years,       \* the year=YYYY partitions of changes/
  Touches,     \* Touches[d]: the <<year, kind>> partitions diff d has rows for
  Feeds,       \* Feeds[d]: the stages (history, suspect filters) d has rows for
  Times,       \* Times[d]: the timestamps of the objects of diff d
  StateTime,   \* StateTime[n]: the timestamp in state.txt at sequence n
  BatchSpan,   \* kUpdateBatchMaxSeconds
  Caps,        \* the values of N in `update [N]`; 0 is no cap
  Published0,  \* the diffs on the server when the dataset was imported
  StaleMirror, \* whether a fetched state.txt may be older than an earlier one
  TornFiles,   \* whether a crash may leave a file half written
  MaxCrashes,  \* bound on crashes
  MaxFailures  \* bound on failed downloads

Seqs   == 1..MaxSeq
Kinds  == {"nodes", "ways"}
Parts  == Years \X Kinds
\* The suspect stores folded during the commit, in this order.
Stores == {"counts", "cells", "tags", "langs"}
Stages == Stores \union {"moves", "history"}
\* The outputs that are sums over the diffs, besides the year partitions.
Sums   == Stores \union {"ranking", "history"}

ASSUME BoundsAssumption ==
  MaxSeq \in Nat /\ MaxCrashes \in Nat /\ MaxFailures \in Nat /\ Published0 \in 0..MaxSeq

ASSUME StreamAssumption ==
  /\ Touches \in [Seqs -> SUBSET Parts]
  /\ Feeds \in [Seqs -> SUBSET Stages]
  /\ \A d \in Seqs : "moves" \in Feeds[d] => "history" \in Feeds[d]
  /\ Times \in [Seqs -> SUBSET Nat]
  /\ StateTime \in [0..MaxSeq -> Nat]
  /\ BatchSpan \in Nat

ASSUME RunAssumption ==
  Caps \subseteq Nat /\ StaleMirror \in BOOLEAN /\ TornFiles \in BOOLEAN

-----------------------------------------------------------------------------
VARIABLES
  \* on disk
  source,      \* manifest.json's source block: sequence, timestamp, readable
  diffs,       \* the <seq>.osc.gz files of the diffs dir
  staging,     \* nodes.<seq>.parquet and ways.<seq>.parquet under changes/
  yearStamp,   \* karmamap_source_seq in the footer of a year's data.parquet
  merged,      \* diffs whose rows are summed into a year's data.parquet
  remerged,    \* those of them summed more than once
  stage,       \* users_history_update_stage and suspect_update_stage
  storeStamp,  \* applied sequence in the header of a suspect store
  folded,      \* diffs summed into a store, the ranking or the history
  refolded,    \* those of them summed more than once
  flagged,     \* diffs whose far moves are flagged in users_history.parquet
  suspects,    \* diffs whose far moves are listed in suspect.parquet
  tagCache,    \* diffs absorbed by the prior-tag caches
  nodeCache,   \* diffs absorbed by the incremental node cache (base + delta)
  \* in the process
  pc,          \* the step the run is at; "idle" when no process runs
  current,     \* the sequence of the fetched state.txt
  base,        \* base_seq
  target,      \* target
  seq,         \* the next diff to download
  applied,     \* applied
  batch,       \* diffs downloaded and not yet applied
  stopped,     \* stopped_early
  appliedTs,   \* applied_ts
  todo,        \* years merge_update_partitions has not finished
  moveFlags,   \* move_flags
  \* outside
  published,   \* the last diff on the server
  crashes, failures

partVars  == <<staging, yearStamp, merged, remerged>>
storeVars == <<storeStamp, folded, refolded>>
flagVars  == <<flagged, suspects>>
cacheVars == <<tagCache, nodeCache>>
planVars  == <<current, base, target>>
loopVars  == <<seq, applied, batch, stopped, appliedTs>>
workVars  == <<todo, moveFlags>>
envVars   == <<published, crashes, failures>>
vars == <<source, diffs, partVars, stage, storeVars, flagVars, cacheVars,
          pc, planVars, loopVars, workVars, envVars>>

\* A staging file holds the rows the diffs of one batch have for a partition.
StagingFile == [part : Parts, seq : Seqs, diffs : SUBSET Seqs, torn : BOOLEAN]
\* A stage directory seq_<n> of one of the run's stages.
StageDir == [seq : Seqs, diffs : SUBSET Seqs]

FetchSteps  == {"fetch", "nodes", "scan"}
CommitSteps == {"tagcache", "merge", "counts", "cells", "tags", "moves", "langs",
                "ranking", "history", "suspects", "nodecache", "manifest"}

DiskTypeOK ==
  /\ source \in [seq : 0..MaxSeq, ts : Nat, ok : BOOLEAN]
  /\ diffs \subseteq Seqs
  /\ staging \subseteq StagingFile
  /\ yearStamp \in [Years -> 0..MaxSeq]
  /\ merged \in [Parts -> SUBSET Seqs]
  /\ remerged \in [Parts -> SUBSET Seqs]
  /\ stage \in [Stages -> SUBSET StageDir]
  /\ storeStamp \in [Stores -> 0..MaxSeq]
  /\ folded \in [Sums -> SUBSET Seqs]
  /\ refolded \in [Sums -> SUBSET Seqs]
  /\ flagged \subseteq Seqs
  /\ suspects \subseteq Seqs
  /\ tagCache \subseteq Seqs
  /\ nodeCache \subseteq Seqs

ProcessTypeOK ==
  /\ pc \in {"idle"} \union FetchSteps \union CommitSteps
  /\ current \in 0..MaxSeq
  /\ base \in 0..MaxSeq
  /\ target \in 0..MaxSeq
  /\ seq \in 0..(MaxSeq + 1)
  /\ applied \in 0..MaxSeq
  /\ batch \subseteq Seqs
  /\ stopped \in BOOLEAN
  /\ appliedTs \in Nat
  /\ todo \subseteq Years
  /\ moveFlags \subseteq Seqs

WorldTypeOK ==
  /\ published \in 0..MaxSeq
  /\ crashes \in 0..MaxCrashes
  /\ failures \in 0..MaxFailures

TypeOK == DiskTypeOK /\ ProcessTypeOK /\ WorldTypeOK

NoStage == [s \in Stages |-> {}]

\* The values the process's variables have while no process runs.
Idle ==
  /\ pc = "idle"
  /\ current = 0 /\ base = 0 /\ target = 0
  /\ seq = 0 /\ applied = 0 /\ batch = {} /\ stopped = FALSE /\ appliedTs = 0
  /\ todo = {} /\ moveFlags = {}

ProcessEnds ==
  /\ pc' = "idle"
  /\ current' = 0 /\ base' = 0 /\ target' = 0
  /\ seq' = 0 /\ applied' = 0 /\ batch' = {} /\ stopped' = FALSE /\ appliedTs' = 0
  /\ todo' = {} /\ moveFlags' = {}

\* A freshly imported dataset prepared with `prepare-update`: the manifest
\* records sequence 0, no store carries a stamp, nothing is staged.
Init ==
  /\ source = [seq |-> 0, ts |-> StateTime[0], ok |-> TRUE]
  /\ diffs = {}
  /\ staging = {}
  /\ yearStamp = [y \in Years |-> 0]
  /\ merged = [p \in Parts |-> {}]
  /\ remerged = [p \in Parts |-> {}]
  /\ stage = NoStage
  /\ storeStamp = [s \in Stores |-> 0]
  /\ folded = [s \in Sums |-> {}]
  /\ refolded = [s \in Sums |-> {}]
  /\ flagged = {} /\ suspects = {}
  /\ tagCache = {} /\ nodeCache = {}
  /\ Idle
  /\ published = Published0
  /\ crashes = 0 /\ failures = 0

-----------------------------------------------------------------------------
(* Summing a set of staged files into an output.                           *)

\* The diffs that have rows in one of the files fs.
Covered(fs) == UNION {f.diffs : f \in fs}

\* The diffs counted again when fs is summed into an output that holds `old`.
Recounted(old, fs) ==
  {d \in Covered(fs) : \/ d \in old
                       \/ \E f, g \in fs : f # g /\ d \in f.diffs /\ d \in g.diffs}

-----------------------------------------------------------------------------
(* Starting a run.                                                         *)

\* The sequence of the state.txt the run fetches.
FetchedState == IF StaleMirror THEN 0..published ELSE {published}

\* Mutant: `update N` may plan past the fetched state.
TargetUnclamped(cur, cap) == IF cap > 0 THEN source.seq + cap ELSE cur

Target(cur, cap) ==
  IF cap > 0 /\ source.seq + cap < cur THEN source.seq + cap ELSE cur

\* `update [N]`: plan the run from the manifest and the fetched state.txt,
\* purge the downloads the manifest covers and drop what a crashed run left
\* in the two stage roots.  Staging under changes/ is not touched.
Start(cap) ==
  /\ pc = "idle"
  /\ source.ok
  /\ \E cur \in FetchedState :
       /\ current' = cur
       /\ base' = source.seq
       /\ target' = Target(cur, cap)
       /\ seq' = source.seq + 1
       /\ applied' = source.seq
       /\ diffs' = {d \in diffs : d > source.seq}
       /\ IF source.seq + 1 > Target(cur, cap)
          THEN pc' = "manifest" /\ UNCHANGED stage
          ELSE pc' = "fetch" /\ stage' = NoStage
  /\ UNCHANGED <<source, partVars, storeVars, flagVars, cacheVars,
                 batch, stopped, appliedTs, workVars, envVars>>

-----------------------------------------------------------------------------
(* The download loop.                                                      *)

BatchTimes(b) == UNION {Times[d] : d \in b}

\* Mutant: the first timestamp of the batch instead of the last.
Earliest(ts) == {t \in ts : \A u \in ts : t <= u}

Latest(ts) == {t \in ts : \A u \in ts : t >= u}

\* The batch spans BatchSpan seconds or more.
TimeBatchFull(b) == \E t, u \in BatchTimes(b) : t - u >= BatchSpan

\* fetch_diff succeeded (or the file was there): the diff joins the batch, and
\* the batch is applied when it is full or the target is reached.
FetchDiff ==
  /\ pc = "fetch"
  /\ diffs' = diffs \union {seq}
  /\ batch' = batch \union {seq}
  /\ seq' = seq + 1
  /\ pc' = IF TimeBatchFull(batch') \/ seq = target THEN "nodes" ELSE "fetch"
  /\ UNCHANGED <<source, partVars, stage, storeVars, flagVars, cacheVars,
                 planVars, applied, stopped, appliedTs, workVars, envVars>>

\* fetch_diff threw: the diffs downloaded so far are applied and committed;
\* with none applied and none to apply the run ends without a commit.
FetchFails ==
  /\ pc = "fetch"
  /\ seq \notin diffs
  /\ failures < MaxFailures
  /\ failures' = failures + 1
  /\ \/ /\ batch = {} /\ applied = base
        /\ ProcessEnds
     \/ /\ batch # {} \/ applied # base
        /\ stopped' = TRUE
        /\ pc' = IF batch # {} THEN "nodes" ELSE "tagcache"
        /\ UNCHANGED <<planVars, seq, applied, batch, appliedTs, workVars>>
  /\ UNCHANGED <<source, diffs, partVars, stage, storeVars, flagVars, cacheVars,
                 published, crashes>>

\* Mutant: every batch is staged under the sequence the run aims at.
BatchSeqIsTarget == target

\* The sequence the batch is staged under: its last diff.
BatchSeq == seq - 1

\* The partitions of one kind the batch has rows for.
BatchParts(kind) == {p \in Parts : p[2] = kind /\ \E d \in batch : p \in Touches[d]}

\* changes/ after the batch's files for the partitions ps were written, those in
\* `torn` without a footer.  A file of the same name is overwritten.
Restaged(ps, torn) ==
  {f \in staging : ~ (f.part \in ps /\ f.seq = BatchSeq)}
    \union {[part |-> p, seq |-> BatchSeq,
             diffs |-> {d \in batch : p \in Touches[d]},
             torn |-> p \in torn] : p \in ps}

\* run_node_update: count the batch's node changes into staging and fold its
\* positions into the in-memory node state.
NodePass ==
  /\ pc = "nodes"
  /\ staging' = Restaged(BatchParts("nodes"), {})
  /\ pc' = "scan"
  /\ UNCHANGED <<source, diffs, yearStamp, merged, remerged, stage, storeVars,
                 flagVars, cacheVars, planVars, loopVars, workVars, envVars>>

\* A move is seen against the position the cache had when the run started, so a
\* diff the cache has already absorbed shows none.
Staged(s) ==
  {d \in batch : s \in Feeds[d] /\ (s = "moves" => d \notin nodeCache)}

\* run_diff_scans and finish_seq: the way counts, the history, suspect and move
\* stages; then the batch's downloads are removed and the batch is applied.
\* applied_ts is only read by a run stopped early, whose batches were all merged.
ScanPass ==
  /\ pc = "scan"
  /\ staging' = Restaged(BatchParts("ways"), {})
  /\ stage' = [s \in Stages |->
                 stage[s] \union {b \in {[seq |-> BatchSeq, diffs |-> Staged(s)]} :
                                    b.diffs # {}}]
  /\ diffs' = diffs \ batch
  /\ applied' = BatchSeq
  /\ batch' = {}
  /\ IF BatchTimes(batch) = {} THEN UNCHANGED appliedTs
                               ELSE appliedTs' \in Latest(BatchTimes(batch))
  /\ pc' = IF stopped \/ seq > target THEN "tagcache" ELSE "fetch"
  /\ UNCHANGED <<source, yearStamp, merged, remerged, storeVars, flagVars, cacheVars,
                 planVars, seq, stopped, workVars, envVars>>

-----------------------------------------------------------------------------
(* The commit.                                                             *)

RunDiffs == (base + 1)..applied

\* Mutant: the node cache is made durable together with the tag caches.
PersistAllCaches ==
  /\ pc = "tagcache"
  /\ tagCache' = tagCache \union RunDiffs
  /\ nodeCache' = nodeCache \union RunDiffs
  /\ todo' = Years
  /\ pc' = "merge"
  /\ UNCHANGED <<source, diffs, partVars, stage, storeVars, flagVars,
                 planVars, loopVars, moveFlags, envVars>>

\* persist_delta of the node, way and relation prior-tag caches.
PersistTagCaches ==
  /\ pc = "tagcache"
  /\ tagCache' = tagCache \union RunDiffs
  /\ todo' = Years
  /\ pc' = "merge"
  /\ UNCHANGED <<source, diffs, partVars, stage, storeVars, flagVars, nodeCache,
                 planVars, loopVars, moveFlags, envVars>>

\* Mutant: staging left by a crashed run that went further is folded too.
FoldableOfAnyRun(y) == {f \in staging : f.part[1] = y}

\* The staging of a year that is not later than the applied sequence.
Foldable(y) == {f \in staging : f.part[1] = y /\ f.seq <= applied}

\* Mutant: a year stamped with the applied sequence itself is merged again.
AlreadyMergedPast(y) == yearStamp[y] > applied

AlreadyMerged(y) == yearStamp[y] >= applied

\* merge_update_partitions on one year: data.parquet becomes itself plus all the
\* staging up to the applied sequence, in one rename, stamped with it.  The years
\* come in the order of a directory listing, which is any.
MergeYear(y) ==
  /\ pc = "merge"
  /\ y \in todo
  /\ Foldable(y) # {}
  /\ ~AlreadyMerged(y)
  /\ \A f \in Foldable(y) : ~f.torn
  /\ yearStamp' = [yearStamp EXCEPT ![y] = applied]
  /\ merged' = [p \in Parts |->
       IF p[1] = y THEN merged[p] \union Covered({f \in Foldable(y) : f.part = p})
                   ELSE merged[p]]
  /\ remerged' = [p \in Parts |->
       IF p[1] = y
       THEN remerged[p] \union Recounted(merged[p], {f \in Foldable(y) : f.part = p})
       ELSE remerged[p]]
  /\ UNCHANGED <<source, diffs, staging, stage, storeVars, flagVars, cacheVars,
                 pc, planVars, loopVars, workVars, envVars>>

\* Mutant: staging later than the applied sequence is kept for another run.
DropMergedStaging(y) ==
  /\ pc = "merge"
  /\ y \in todo
  /\ Foldable(y) = {} \/ AlreadyMerged(y)
  /\ staging' = staging \ Foldable(y)
  /\ todo' = todo \ {y}
  /\ UNCHANGED <<source, diffs, yearStamp, merged, remerged, stage, storeVars, flagVars,
                 cacheVars, pc, planVars, loopVars, moveFlags, envVars>>

\* Mutant: only the node staging is removed after the merge.
DropNodeStaging(y) ==
  /\ pc = "merge"
  /\ y \in todo
  /\ Foldable(y) = {} \/ AlreadyMerged(y)
  /\ staging' = {f \in staging : f.part # <<y, "nodes">>}
  /\ todo' = todo \ {y}
  /\ UNCHANGED <<source, diffs, yearStamp, merged, remerged, stage, storeVars, flagVars,
                 cacheVars, pc, planVars, loopVars, moveFlags, envVars>>

\* remove_staging: after the rename, for a year already at the applied sequence
\* and for one with nothing to fold, all its staging goes, the later one too.
DropStaging(y) ==
  /\ pc = "merge"
  /\ y \in todo
  /\ Foldable(y) = {} \/ AlreadyMerged(y)
  /\ staging' = {f \in staging : f.part[1] # y}
  /\ todo' = todo \ {y}
  /\ UNCHANGED <<source, diffs, yearStamp, merged, remerged, stage, storeVars, flagVars,
                 cacheVars, pc, planVars, loopVars, moveFlags, envVars>>

\* A staging file without a footer cannot be read: the merge throws.
MergeThrows(y) ==
  /\ pc = "merge"
  /\ y \in todo
  /\ ~AlreadyMerged(y)
  /\ \E f \in Foldable(y) : f.torn
  /\ ProcessEnds
  /\ UNCHANGED <<source, diffs, partVars, stage, storeVars, flagVars, cacheVars, envVars>>

MergeDone ==
  /\ pc = "merge"
  /\ todo = {}
  /\ pc' = "counts"
  /\ UNCHANGED <<source, diffs, partVars, stage, storeVars, flagVars, cacheVars,
                 planVars, loopVars, workVars, envVars>>

\* Mutant: the directory after the stamp is taken for one already folded.
NewDirsOneShort(s) == {b \in stage[s] : storeStamp[s] > 0 => b.seq > storeStamp[s] + 1}

\* The stage directories of a store that its stamp does not cover.
NewDirs(s) == {b \in stage[s] : storeStamp[s] > 0 => b.seq > storeStamp[s]}

\* Mutant: the rewritten store keeps its old stamp.
FoldStoreUnstamped(s, next) ==
  /\ pc = s
  /\ IF storeStamp[s] >= applied \/ stage[s] = {}
     THEN UNCHANGED storeVars
     ELSE /\ folded' = [folded EXCEPT ![s] = @ \union Covered(NewDirs(s))]
          /\ refolded' = [refolded EXCEPT ![s] = @ \union Recounted(folded[s], NewDirs(s))]
          /\ UNCHANGED storeStamp
  /\ stage' = [stage EXCEPT ![s] = {}]
  /\ pc' = next
  /\ UNCHANGED <<source, diffs, partVars, flagVars, cacheVars,
                 planVars, loopVars, workVars, envVars>>

\* fold_minute_counts and its siblings: a store already stamped with the applied
\* sequence is left alone, and so is one with nothing staged; else the store
\* becomes itself plus the new directories, stamped with the applied sequence.
FoldStore(s, next) ==
  /\ pc = s
  /\ IF storeStamp[s] >= applied \/ stage[s] = {}
     THEN UNCHANGED storeVars
     ELSE /\ storeStamp' = [storeStamp EXCEPT ![s] = applied]
          /\ folded' = [folded EXCEPT ![s] = @ \union Covered(NewDirs(s))]
          /\ refolded' = [refolded EXCEPT ![s] = @ \union Recounted(folded[s], NewDirs(s))]
  /\ stage' = [stage EXCEPT ![s] = {}]
  /\ pc' = next
  /\ UNCHANGED <<source, diffs, partVars, flagVars, cacheVars,
                 planVars, loopVars, workVars, envVars>>

\* flagged_move_days: the staged moves become this run's flags and the whole
\* suspect stage root is removed.
FlagMoves ==
  /\ pc = "moves"
  /\ moveFlags' = Covered(stage["moves"])
  /\ stage' = [s \in Stages |-> IF s = "history" THEN stage[s] ELSE {}]
  /\ pc' = "langs"
  /\ UNCHANGED <<source, diffs, partVars, storeVars, flagVars, cacheVars,
                 planVars, loopVars, todo, envVars>>

\* Adds the run's history stage to the ranking or to the history.
AddHistoryTo(s) ==
  /\ folded' = [folded EXCEPT ![s] = @ \union Covered(stage["history"])]
  /\ refolded' = [refolded EXCEPT ![s] = @ \union Recounted(folded[s], stage["history"])]

\* run_update_finalize up to the rename of user_ranking.parquet; without a
\* history stage the whole finalize returns at once.
WriteRanking ==
  /\ pc = "ranking"
  /\ IF stage["history"] = {}
     THEN pc' = "nodecache" /\ UNCHANGED <<folded, refolded>>
     ELSE pc' = "history" /\ AddHistoryTo("ranking")
  /\ UNCHANGED <<source, diffs, partVars, stage, storeStamp, flagVars, cacheVars,
                 planVars, loopVars, workVars, envVars>>

\* The co-merged users_history.parquet, its flags the carried ones plus the run's.
WriteHistory ==
  /\ pc = "history"
  /\ AddHistoryTo("history")
  /\ flagged' = flagged \union moveFlags
  /\ pc' = "suspects"
  /\ UNCHANGED <<source, diffs, partVars, stage, storeStamp, suspects, cacheVars,
                 planVars, loopVars, workVars, envVars>>

\* suspect.parquet lists every flagged row of the history; the stage is removed.
WriteSuspects ==
  /\ pc = "suspects"
  /\ suspects' = flagged
  /\ stage' = [stage EXCEPT !["history"] = {}]
  /\ pc' = "nodecache"
  /\ UNCHANGED <<source, diffs, partVars, storeVars, flagged, cacheVars,
                 planVars, loopVars, workVars, envVars>>

\* NodeState::persist_delta: the run's positions become durable.
PersistNodeCache ==
  /\ pc = "nodecache"
  /\ nodeCache' = nodeCache \union RunDiffs
  /\ pc' = "manifest"
  /\ UNCHANGED <<source, diffs, partVars, stage, storeVars, flagVars, tagCache,
                 planVars, loopVars, workVars, envVars>>

\* Mutant: a run that stopped early records the sequence it aimed at.
NewSourceAtTarget ==
  IF applied = base
  THEN [seq |-> current, ts |-> StateTime[current], ok |-> TRUE]
  ELSE [seq |-> target,
        ts |-> IF stopped /\ appliedTs > 0 THEN appliedTs ELSE StateTime[current],
        ok |-> TRUE]

\* The source block a run records.  One with nothing to apply records the
\* fetched state.txt as it is.
NewSource ==
  IF applied = base
  THEN [seq |-> current, ts |-> StateTime[current], ok |-> TRUE]
  ELSE [seq |-> applied,
        ts |-> IF stopped /\ appliedTs > 0 THEN appliedTs ELSE StateTime[current],
        ok |-> TRUE]

\* write_manifest, the commit point of the run.  The compaction of the caches
\* that may follow does not change what they hold.
WriteManifest ==
  /\ pc = "manifest"
  /\ source' = NewSource
  /\ ProcessEnds
  /\ UNCHANGED <<diffs, partVars, stage, storeVars, flagVars, cacheVars, envVars>>

-----------------------------------------------------------------------------
(* The world around the runs.                                              *)

Publish ==
  /\ published < MaxSeq
  /\ published' = published + 1
  /\ UNCHANGED <<source, diffs, partVars, stage, storeVars, flagVars, cacheVars,
                 pc, planVars, loopVars, workVars, crashes, failures>>

\* The process dies between two steps, or throws.
Crash ==
  /\ pc # "idle"
  /\ crashes < MaxCrashes
  /\ crashes' = crashes + 1
  /\ ProcessEnds
  /\ UNCHANGED <<source, diffs, partVars, stage, storeVars, flagVars, cacheVars,
                 published, failures>>

\* The process dies while it writes the staging files of a pass: some years
\* have theirs, some have one without a footer, some still have the old one.
CrashWhileStaging(kind) ==
  /\ TornFiles
  /\ pc = (IF kind = "nodes" THEN "nodes" ELSE "scan")
  /\ crashes < MaxCrashes
  /\ crashes' = crashes + 1
  /\ \E torn \in SUBSET BatchParts(kind) : \E done \in SUBSET (BatchParts(kind) \ torn) :
       staging' = Restaged(torn \union done, torn)
  /\ ProcessEnds
  /\ UNCHANGED <<source, diffs, yearStamp, merged, remerged, stage, storeVars, flagVars,
                 cacheVars, published, failures>>

\* The process dies while it removes the staging of a year, file by file.
CrashWhileDropping(y) ==
  /\ pc = "merge"
  /\ y \in todo
  /\ Foldable(y) = {} \/ AlreadyMerged(y)
  /\ crashes < MaxCrashes
  /\ crashes' = crashes + 1
  /\ \E gone \in SUBSET {f \in staging : f.part[1] = y} : staging' = staging \ gone
  /\ ProcessEnds
  /\ UNCHANGED <<source, diffs, yearStamp, merged, remerged, stage, storeVars, flagVars,
                 cacheVars, published, failures>>

\* manifest.json is rewritten in place: a crash can leave it unreadable.
CrashWhileWritingManifest ==
  /\ TornFiles
  /\ pc = "manifest"
  /\ crashes < MaxCrashes
  /\ crashes' = crashes + 1
  /\ source' = [source EXCEPT !.ok = FALSE]
  /\ ProcessEnds
  /\ UNCHANGED <<diffs, partVars, stage, storeVars, flagVars, cacheVars,
                 published, failures>>

-----------------------------------------------------------------------------
Merge == \/ \E y \in Years : MergeYear(y) \/ DropStaging(y) \/ MergeThrows(y)
         \/ MergeDone

Fold == \/ FoldStore("counts", "cells")
        \/ FoldStore("cells", "tags")
        \/ FoldStore("tags", "moves")
        \/ FlagMoves
        \/ FoldStore("langs", "ranking")

Finalize == WriteRanking \/ WriteHistory \/ WriteSuspects

\* The steps of a running process, in the order of the code.
Step == \/ FetchDiff \/ NodePass \/ ScanPass
        \/ PersistTagCaches \/ Merge \/ Fold \/ Finalize
        \/ PersistNodeCache \/ WriteManifest

Crashes == \/ Crash
           \/ \E kind \in Kinds : CrashWhileStaging(kind)
           \/ \E y \in Years : CrashWhileDropping(y)
           \/ CrashWhileWritingManifest

Next == \/ \E cap \in Caps : Start(cap)
        \/ Step
        \/ FetchFails
        \/ Publish
        \/ Crashes

Spec == Init /\ [][Next]_vars

\* A started run keeps running, a download that does not fail ends, and runs are
\* started again (update is meant to be run periodically).  Nothing is assumed of
\* which cap a run has, of the server or of crashes and failures, which only the
\* bounds limit.
FairSpec ==
  /\ Spec
  /\ WF_vars(Step)
  /\ WF_vars(\E cap \in Caps : Start(cap))
=============================================================================
