# A TLA+ model of KarmaMap's core

KarmaMap turns the edit history of OpenStreetMap into a set of parquet files
that static web pages query: how many edits fell in each H3 cell on each day,
how active each contributor was, and which contributor-days look suspect. The
C++ core (`src/src`) has three verbs:

- `import` reads a full-history file once and builds everything from nothing;
- `prepare-update` collapses the node cache of an import into the incremental
  one that updates need;
- `update [N]` is run periodically and advances the dataset along a stream of
  replication diffs.

This directory holds TLA+ modules of that core, the configurations that check
them with TLC, and proofs that TLAPS checks. Each definition is written from the
source; `PROJECT.json` gives its lines under `map`.

## 1. Inventory

| component | source | state it keeps | operations | what makes it correct |
|---|---|---|---|---|
| update run | `main.cpp` `run_update_mode` | `manifest.json`'s source block; the locals `base_seq`, `target`, `applied`, `stopped_early` | plan, download, batch, stage, merge, fold, finalize, persist, commit | whatever the manifest records is in every output, each diff once; repeated runs catch up |
| partition merge | `sort_pass.cpp` | `changes/year=Y/data.parquet` with a sequence stamp, staging files beside it | `merge_and_sort_partitions` (import), `merge_update_partitions` (update) | counts are summed once; no staging outlives the merge |
| staging writers | `parquet_batch_writer.*`, `partitioned_parquet_writer.hpp` | open parquet files, pending counts | `increment`, `flush`, `close` | every count reaches one file |
| diff stream | `state.*` | `diffs/<seq>.osc.gz` | `fetch`, `fetch_diff`, `parse_state` | a file that is there is whole and is the diff of its name |
| diff batches | `update.*` | `NodeState` (base, overlay, deletions, memo), `DiffMerger` | node pass, way pass, scans, `persist_delta`, `compact` | the state is the node map after the applied diffs; pre/post views are the ones before/after |
| node caches | `node_cache.hpp`, `node_delta.hpp`, `node_cache_handler.hpp` | block-compressed sorted files, delta sidecar | write, `lookup`, `sweep_start`, collapse | lookup answers what was written |
| way pass (import) | `way_processor.hpp` | a batch of refs, slots, the carried geometry | `way`, `flush_batch` | each way version counts its own cells at its own day |
| prior-tag state | `object_tag_state.hpp`, `object_tag_delta.cpp`, `object_tag_store.hpp` | base, overlay, tombstones, sidecar | `pre`, `set_tags`, `remove_tags`, `persist_delta`, `compact` | `pre` is the tags before the change, across runs |
| suspect filters | `suspect.*`, `suspect_tag.cpp`, `suspect_lang.cpp`, their stores | stamped binary stores of per-minute counts; transient stages | scan steps, folds, sliding windows | a store is a prefix of the stream; a day is flagged iff a window exceeds its threshold |
| users history and ranking | `users_history.*`, `ranking.hpp` | `users_history.parquet`, `user_ranking.parquet`, `suspect.parquet` | scan, `run_finalize`, `run_update_finalize` | totals are sums over the stream; flags are monotone; frozen columns stay |
| manifest | `manifest.*` | `manifest.json` | `write_manifest`, `read_source` | the recorded state is one the dataset is in |
| run lock | `file_lock.hpp` | an flock | `acquire`, `release` | runs do not overlap |
| others | `geofabrik_cookie.*`, `country_index.*`, `suspect_atom.*`, `options.*`, `date_utils.hpp`, `h3_utils.hpp`, `arrow_table_io.hpp`, `web/`, `country_s2_index.py` | files read or written whole | I/O, formatting, lookups | — |

**How they interact.** One process at a time (the lock) runs a verb to the end.
A run's parts share the file system and call each other in sequence; there are
no threads. What is concurrent is *time*: a run is interrupted anywhere, by a
signal, an exception, a full disk or a reboot, and the next run finds on disk
whatever the interrupted one left. The server publishes diffs meanwhile and the
operator chooses another cap `N`.

**What is hard.** Crashes between any two of the writes of a commit, each file
renamed into place on its own; re-running with a different target, so that the
stream is cut into different batches with different names; files not written
atomically (staging, the manifest); state that forgets what later steps need
(positions before the diff, tags before the diff); forward-only sweeps and
sliding windows with off-by-one edges; caches that memoize while the state
changes. `PROJECT.json` lists each of them under `hazards` with its line.

## 2. The modules

Written in this order, the behaviour everything else is called from first.

1. `UpdateRun`: the commit protocol of a run and its crashes; `DiffLedger`, the
   abstract specification it implements.
2. `NodeState`: base, overlay, deletions, memo, sidecar, `compact` and
   `prepare-update` with crashes, against the abstract `NodeMap`; `CacheFile`, the
   two loops over the base file that NodeState takes as one step.
3. `Import`, on `WayPass`, on `NodePass`: the import's two passes version by
   version, and its merge, with crashes and exceptions between and inside them.
4. `UserHistory`, on `SuspectFilters`, on `SuspectStores`: what the users' edits
   become, through stages, stores, sliding windows and thresholds, the ranking and
   the three published tables.
5. `TagState`, on `NameTags`: the prior tags with sidecar and compaction, and the
   events a scan finds with them.

Each `X` has `XProperties` where the properties need references of their own, and
`MCX` with the instance that TLC checks. `UpdateRun` and the components meet in the
batches and in the places where a run can be cut: UpdateRun has every way to cut
a run and takes what is folded as sets of diffs, the components have what is
folded and take a run as far as it matters to them.

## 3. The model of a run

`UpdateRun.tla` has one dataset, a server that publishes diffs 1 to `MaxSeq`, and
at most one process. A step of the process is one action; the order is the
code's.

| action | code |
|---|---|
| `Start(cap)` | manifest read, target, purge of committed downloads, removal of the stage roots; or the early return when there is nothing to apply, which still writes the manifest |
| `FetchDiff`, `FetchFails` | the download loop, the batch bound (time span or target), `stopped_early` and its abort |
| `NodePass`, `ScanPass` | `apply_batch`: node staging, way staging, the history and suspect stages, removal of the batch's downloads |
| `PersistTagCaches` | the three `persist_delta` calls of the prior-tag states |
| `MergeYear`, `DropStaging`, `MergeThrows`, `MergeDone` | `merge_update_partitions`, year by year; the rename and the removal of staging are separate steps |
| `FoldStore(s, next)` | `fold_minute_counts`, `fold_cell_counts`, `fold_tag_counts`, `fold_lang_counts` |
| `FlagMoves` | `flagged_move_days`, with the removal of the whole suspect stage root |
| `WriteRanking`, `WriteHistory`, `WriteSuspects` | the three renames of `run_update_finalize`; without a history stage it returns at once |
| `PersistNodeCache` | `NodeState::persist_delta` |
| `WriteManifest` | `new_source` and `write_manifest` |
| `Crash`, `CrashWhileStaging`, `CrashWhileDropping`, `CrashWhileWritingManifest` | the process ends anywhere; in the middle of the writes that are not atomic it leaves some files old, some new, some without a footer |
| `Publish` | the server |

**Abstraction.** Counts are replaced by what was counted: an output is the set of
the diffs summed into it, and the set of those summed into it more than once
(`merged`/`remerged`, `folded`/`refolded`). Adding counts is commutative, so two
orders of summing leave the same file and this is all a property about
completeness or double counting can see. `Touches` and `Feeds` say which outputs a
diff has rows for, so a diff without ways, without suspect activity or without
moves is an input like any other. A store's or a year's sequence stamp is kept as
it is. Time appears as the object timestamps of a diff (`Times`), which bound a
batch, and the timestamps in state.txt (`StateTime`).

What is not in the model: the contents of rows, the country index (a missing one
only empties a column), the Atom feed, console output, and the compaction of the
caches after the manifest, which changes no content. The tag caches of the three
object types become durable in one step. A crash between a store's rename and the
removal of its stage is the crash after both: the next run that reads a stage
removes the roots first.

Years come in the order of a directory listing. The model lets the merges of
different years interleave freely, which includes every sequential order.

### The node positions

`NodeEdits.tla` says what a stream of node edits means: `Replay` folds the edits
between two places into a map of positions, `Collapsed` is what `prepare-update`
makes of a history. `NodeMap.tla` is the abstract specification: a map, and the
place the manifest is at. `NodeState.tla` is the code.

| action | code |
|---|---|
| `Import(place)` | `import`: a new history cache and manifest; base and sidecar of an earlier dataset stay |
| `Collapse`, `RemoveHistory`, `RemoveSidecar` | `run_step4_pass`: base renamed into place, history cache removed, sidecar removed |
| `Start(end)` | `NodeState`'s constructor and the first batch, up to some diff's end |
| `SetPosition`, `RemoveNode` | `NodeUpdateHandler::node` on one version: the prior cell that is compared or counted, then the change of overlay and deletions |
| `NodePassDone`, `ResolveWays(refs)`, `NextBatch(end)` | the way pass and the cell scan memoize base cells for whatever refs the batch has; then the next batch |
| `PersistDelta`, `WriteManifest`, `RenameBase`, `DropDelta` | `persist_delta`, the manifest, and the two steps of `compact` |
| `Crash` | the process ends anywhere; with `PrepareCrashes` also before `RemoveSidecar` |

A cell is a model value, and the `0` of the code is `NoCell`. The base is a map;
that its records are sorted, swept forward and streamed through a rebuild is the
subject of `CacheFile.tla`: `prefetch_base` over the directory's `sweep_start`, and
`rebuild` over `incremental::Writer::add`, an iteration a step.
NodeState takes both as one step (`Remember`, `Rebuilt`).

Assumed of the operator: `update` follows `prepare-update`, as the README of the
repository has it, so `Start` asks for a removed history cache. Assumed of the
input: a version has a location unless it is a deletion, and a deletion has none.
A diff without node edits changes nothing here, and its place is that of the diff
before. An import is one step: until it ends there is no manifest to update from.
Every file but those three is written under a temporary name and renamed, so a
crash in the middle of a write is a crash before it.

### The import

`NodePass` is `NodeCacheHandler` over `node_cache::Writer`, a version a step:
`lastCell` is the handler's, `pending` the writer's held back record, `buffer` the
block being filled. `WayPass` is `WayProcessor`: `ReadVisible` puts a version's
nodes among the batch's `refs`, `ReadDeletionInBatch` a deletion on its slot; `Flush`
resolves the batch, `Sorted` by rank, with `Sweep` and counts it. `Import` puts the passes in processes.

| action | code |
|---|---|
| `Start(verb)`, `NewFile` | `import`, or `--pass` with one of the passes; a second history file into the same directories |
| `BeginNodes`, `StepNodes`, `EndNodes`, `FailNodes` | the node pass: wipes `changes/`, counts and writes the cache; a decreasing day throws |
| `BeginWays`, `StepWays`, `EndWays`, `FailWays` | the way pass: wipes nothing; without a readable cache it throws |
| `BeginSort`, `MergeYear`, `SkipYear`, `RemoveStaging`, `EndSort`, `FailSort` | `merge_and_sort_partitions`: the rename of a year's sum and each removal of a staging file are steps |
| `Crash` | the process ends anywhere, and what was being written lies there under its final name |

After an exception the staging writers' destructors close their files: readable,
without the counts still pending (`FailNodes`). After a crash there is no footer
(`Torn`). A cache that was cut before its first block has a header a reader
accepts, and no records.

### The users' edits

`SuspectStores` has the stores of minutes, cells and tags as sequences of blocks of
rows with a stamp, and what a scan stages for them. `SuspectFilters` has the
filters as functions of a store: `HourSpans` for the edits, `Windows` for cells and
tags, which evict and add row by row as the accumulators do, and the four
`Flagged...Days`. `UserHistory` is the run.

| action | code |
|---|---|
| `Import` | `run_scan`, `run_finalize`: days and totals; a day may be in two rows, one in each stage file the flush cut |
| `StartRun`, `Scan` | stage roots removed, then each batch's stages |
| `FoldMinutes`, `FoldCells`, `FoldTags`, `FoldLangs` | the folds and their stamps |
| `FlagMoves` | `flagged_move_days`, and the removal of the stage root |
| `WriteRanking`, `WriteHistory`, `WriteSuspects` | `run_update_finalize`: the co-merge, the flags, the frozen columns |
| `WriteManifest`, `Crash` | the end of the run, in the end or in between |

A batch is the unit of the stream here, and each run applies as many as it likes.
A percentile rank is an exact fraction (`Unit` is a common denominator) where the
code has doubles. Usernames, first-seen days and the layout of the files are not
in the model.

### The prior tags

`NameTags` is `classify_name_language` with the helpers it calls, the bounded edit
distance included; a value is a short sequence of characters. `TagState` is one
object type's cache: `Import`, `StartRun` (the constructor), `ScanDeletion`,
`ScanCreate`, `ScanModification`, `Persist` (the sidecar), `CommitManifest`,
`RewriteBase` and `DropSidecar` (the two steps of `compact`), `EndRun` and `Crash`.
Files are kept under the names the code builds, since two of its paths differ: the
writers and the sidecar's reader insert the type, the constructor's test for a base
and `compact`'s removal do not. `WriteDelta`/`ReadOverlay` cut a value's length to
its byte.

## 4. What the runs show

The runs of UpdateRun use three diffs over two years (`MCUpdateRun.tla`). Diffs 1 and 2 span
`BatchSpan`, so a batch ends at diff 2, at diff 3, or wherever a cap or a failed
download cuts it: every split of the stream into batches occurs. Diff 1 is
followed by a diff that touches the same year and one that touches another.

| run | bounds | shows |
|---|---|---|
| `update_crashes` | caps 0 and 1, two crashes, one failed download, torn files | `CommittedIsDurable`: whatever the manifest records is in every output and cache. `StampsDelimitContent`: a stamp tells exactly which diffs a file holds. `FarMovesSurvive`: the node cache never absorbs a diff before its far moves are flagged and exported. `MergeConsumesStaging`: no staging survives the merge. `ImplementsAtLeastOnce`: the run refines DiffLedger without the at-most-once clause. `CatchesUp`: every published diff is eventually committed |
| `update_uninterrupted` | caps 0, 1, 2, two failed downloads, no crash | `AtRestIsExactPrefix`, `ImplementsExactlyOnce`: between runs the dataset is exactly the recorded prefix, each diff once. `TimestampCoversDiffs`: the recorded timestamp is never before an edit of the recorded diffs. |
| `update_same_target` | three crashes, torn files, all diffs published at the start | `MergeAppliesOnce`, `StoresFoldOnce`: running again *for the same target* counts nothing twice. |
| `history_rerun` | one crash, all diffs published at the start | the next run, though for the same target, counts diffs twice in the users history (finding) |
| `langs_fold` | nothing fails | `LangsAreFolded` is violated (finding) |
| `node_state` | three nodes, eight edits in four diffs, any batches and runs, one re-import, crashes without bound | `MemoIsOfBase`, `SidecarIsUnambiguous`: what a run holds in memory stays consistent with the files. `CacheHoldsCommitted`: node by node the cache is at or ahead of the manifest. `PostIsTheStream`, `PriorCellIsLastKnown`: the views the counts are taken from. `ImplementsNodeMap`: the refinement |
| `cache_file` | every file of up to six records in blocks of two; every set of refs for a sweep; every overlay and set of deletions for a rebuild | `SweepAnswersLookup`: one forward sweep answers what a lookup of each ref would, and leaves none out. `RebuildIsThePostView`: the rebuilt base is sorted, so that the writer never throws, and is the post view |
| `import` | two node files with every edge of the cache, all sorted files of three way versions out of 19, batches of one, two or all refs; and one file imported in up to four processes, whole or pass by pass, with two crashes, an unsorted file and a second file | `DeletionsCountedInPlace`, `CacheIsTheHistory`: the node pass. `NeverAWrongCell`: the batched sweep gives the documented cell or, in one situation only, none. `WayCountsAsDocumented`: the documented changes, none missing outside that situation, and of the others only deletions of ways that never had nodes (`orphan_deletion` below). `NothingIsLost`, `ImportIsExact`: the merge |
| `way_lookup` | one node, two versions of a way | `LookupIsLastRecord` is violated (finding) |
| `user_history` | two users, two or three batches cut into any runs, one crash; days of three minutes, windows of two | `WindowsAreTheHour`: the sliding sums are sums over the last hour. `StoresAreTheStream`: a stamp tells what a store holds. `FlagsAreTheFilters`, `FlagsOnlyGrow`: a day is flagged if the versions call for it, and stays so. `CountsCoverStream`, `RankingRespectsTotals`, `FilesAgree`, `FrozenColumns`: the published tables; in some of the imports one user leads in every aspect |
| `tag_state` | two objects, any three of 15 versions of one of them, or changes of both; a compaction whenever due; one crash | `PriorsFollowTheStream`: split over runs the scan compares with what one scan would. `PriorsAreTheObjects`: after a crash still with tags the object had. `NoEventWithoutChange`, `RenamesAreNoTypos`: what an event means |
| `prior_tags` | an import and a modification | `PriorTagsAreKnown` is violated (finding) |

Ten more configurations are counterexamples to statements of the documentation, for
section 5: TLC violates their one property within seconds. They are not listed
as runs in `PROJECT.json`; `tlc -config X.cfg M` shows each.

| configuration | module | bounds | violated |
|---|---|---|---|
| `merge_rerun`, `fold_rerun` | `MCUpdateRun` | one crash, two of the three diffs published after the start | `MergeAppliesOnce` and `StoresFoldOnce` |
| `stale_mirror` | `MCUpdateRun` | a mirror that may answer with an older state, no crash | `RecordedIsHighestApplied` |
| `deleted_way` | `MCNodeState` | as `node_state`, without a re-import | `DeletedNodesKeepLastCell` |
| `orphan_deletion` | `MCImport` | a version of a way, then a deletion of another | `OrphanDeletionsSkipped` |
| `import_remerge`, `import_fixup` | `MCImport` | one node and one way; two processes with a crash, or three without | `MergeIsIdempotent`, `FixUpKeepsNodeCounts` |
| `tags_rerun` | `MCTagState` | an import, a modification and a crash | `PriorsInEveryRun` |
| `long_values`, `shared_titles` | `MCTagState` | an import and two modifications | `OverlayAccumulates`, `SwapMovesTitle` |

*Why the bounds are enough.* In UpdateRun a hazard needs a run interrupted between two
writes and a second run that cuts the stream differently: two runs, two diffs in
one batch of the one and in two batches of the other. Three diffs leave one before
and one after that pair. Two crashes allow a second interruption during recovery.
`update_crashes` and `update_same_target` turn deadlock checking off: a torn
manifest refuses every later run, and a torn staging file makes every merge throw,
so that with the crash bound used up nothing may be left to do. The other runs
of UpdateRun check it.

For the node positions the stream has each life a node can have: moved, deleted
and created again; created and deleted; only moved. Since runs and batches end at
any diff and crashes are not bounded, each of them meets every place where a run,
a sidecar or a base can end. An import is at the stream's start or after any
diff, so a node's base cell may be absent, old or current. `CompactShare` is 1
there, not the 10 of the code, because a tenth of at most three records is 0: with
1 a compaction is due in some runs and not in others. A sweep over six ids in
blocks of two has up to three blocks, the last one full or not, and refs before,
in, between and after them; a rebuild has deleted records next to each other and
new nodes before, between and after.

In the import a hazard needs a record at the end of a block, a batch that ends
between a version and its deletion, or a process that ends between two removals:
blocks of two records, batches from one ref on, and four processes with two
crashes have them all. One year has two of the three days, so a year's file may be
absent, staged by one pass or by both. In the user statistics the thresholds are
two or so, and for each filter there are streams just below and just above it, in
one batch and over two; a block of two rows makes a user's rows span blocks, and
an import of three rows in stage files of two days cuts a day in two. Every flag
is reached but the language one, which the code never sets. In the tag state
`LengthLimit` is 4, so that one of the values does not fit its byte. The names have
one, three, four and five characters: the edit distance prunes by length, by a row,
and not at all, and lengths that differ by just the limit are among them.

The runs of NodeState, CacheFile, Import and TagState turn deadlock checking off: the
stream, a sweep, the processes that may be started and the versions come to an end.
`user_history` checks it.

*Fairness.* `FairSpec` assumes that a started process keeps going (weak fairness
of the process's steps) and that runs are started again (weak fairness of
starting), as the README's cron setup has it. Nothing is assumed of the cap, of
the server, of crashes or of failures. `CatchesUp` excepts a dataset with a torn
manifest or staging file, which needs manual repair (`HalfWritten`), and is checked
with `StaleMirror` off. The import, the user statistics and the tag state have
safety properties only: what makes their processes go on is the operator, or
UpdateRun.

Every property has a mutant in `PROJECT.json`: a plausible slip in one definition
(a stamp compared with `>` instead of `>=`, a missing stamp, staging named after
the target, the manifest recording the target) under which the run finds it
violated. The mutated forms stand just before the definitions they replace.

## 5. Findings

Fourteen statements of the documentation that the code does not keep, each with a
configuration that shows it. For `history_rerun`, `langs_fold`, `way_lookup` and
`prior_tags`, which are among the runs, `PROJECT.json` quotes them; for the others
the place is given here.

- `history_rerun`: after a crash the next run counts diffs twice in the users
  history, which has no stamp, even when it has the same target.
- `merge_rerun`: when it has a later one, the year files do so too. The stamp of a year
  is compared with the last sequence of the whole run; the files a crashed run staged
  under other names are summed beside the new ones (`sort_pass.cpp:374`). Against
  `HOW_IT_WORKS.md:226-229`, "a crash after the merge rename (or a rerun of the same
  diff) is a no-op".
- `fold_rerun`: and the suspect stores, when a batch straddles their stamp
  (`suspect.cpp:595`). Against `suspect.hpp:730-733`, "a rerun advancing past the stamp
  re-merges only the newly staged sequences".
- `stale_mirror`: a run that finds nothing to apply records the state it fetched, also
  one older than the dataset (`main.cpp:535`); the next run then applies diffs again.
  Against `HOW_IT_WORKS.md:238-240`, "updated to reflect the highest applied sequence".
- `deleted_way`: a way deleted with its nodes is counted where the base has these, not
  where they last were, if a batch or run moved them since (`update.hpp:190`). Against
  `HOW_IT_WORKS.md:195-196`, "overlay else base = their last known geometry".
- `langs_fold`: language events are never folded, their stage is removed before.
- `way_lookup`: two ways of a batch need a node at different days and the node has
  no record in between. The second finds the sweep past the record, and no cell. A
  smaller `--way-batch-mb` finds more cells.
- `orphan_deletion`: the deletion of a way that never had nodes is counted at the
  geometry of the way read before it, since `way_processor.hpp:70-84` compares no way
  ids. Against `HOW_IT_WORKS.md:55`, "Deleted way with no previously known geometry |
  Skipped".
- `import_remerge`, `import_fixup`: where a staging file is missing the merge takes all
  of `data.parquet` in its place, nodes and ways. A crash between the two removals, or
  a way pass run again over merged years, makes it count the ways twice
  (`sort_pass.cpp:227-253`). Against `HOW_IT_WORKS.md:21-23`, "Idempotent: an existing
  `data.parquet` supplies the merged total of any count whose staging file is already
  gone", and `src/README.md:190-193`, which recommends the fix-up.
- `prior_tags`: the tags an import collects are never read, nor are those of a
  compacted base. As long as the sidecar lives, which no compaction removes, the
  prior tags are those of the object's last *event*.
- `tags_rerun`: after a crash between the sidecar and the manifest, versions are
  compared with what was recorded from themselves, and their events are lost
  (`main.cpp:696`). Against `API.md:297-298` and `HOW_IT_WORKS.md:441-442`, "compared
  against its prior tags".
- `long_values`: a value longer than 255 bytes spoils the sidecar from there on
  (`object_tag_delta.cpp:60`). Against `object_tag_state.hpp:4-10`, a state that holds
  the tags "of every object" and a sidecar with the "overlay accumulated during a run".
- `shared_titles`: an article added in a second language under the same title is an
  event although nothing was moved (`suspect_lang.cpp:213`). Against line 208, "same
  value moved xx -> yy".

Two more of the kind are in the models and contradict no document. An interrupted
`prepare-update` can leave the sidecar of an earlier dataset over the new base
(`main.cpp:430`, with `PrepareCrashes`). And a crash between the folds of minutes and
of tags can lose a day of the tag filter.

## 6. What is proved

Checked by TLAPS for every value of the constants. For a run they satisfy the
assumptions in `UpdateRun.tla` (types of the constants; a diff with moves has history rows,
since a move is an edit). One lemma per action and part of the invariant.

- `DataInduction`: what the proofs below need of induction. A theorem that takes a
  predicate as a parameter cannot be applied by the provers, a set can be: a set
  that holds 0 and, with every number, its successor holds all naturals
  (`NaturalsBySteps`, from the well-foundedness of `<`). With it a recursive
  function is shown to exist, and so to be what its definition says, and a finite
  set of numbers to have a greatest one.
- `UpdateRunProofs`: `TypeInvariant`, `Spec => []TypeOK`. It needs `RunOK`, which
  says what the local variables of a run mean at each step (the batch is the
  interval between the applied and the next sequence, a commit is only reached
  with something applied, nothing goes past what is published).
- `UpdateRunProofs`, from the partitions on: `CommittedIsDurable`,
  `StampsDelimitContent`, `FarMovesSurvive` and `MergeConsumesStaging` are
  invariants. None is inductive: a diff is committed long after it was staged.
  The strengthening, in `UpdateRunInvariants.tla`, follows each diff of the run
  to where its rows are at every step, and falls into three parts that only meet
  in the manifest. `PartInv`: the rows for a year are staged under a sequence not
  past the applied one until the merge folds the year, and in `data.parquet` from
  then on. A later batch never overwrites an earlier one's file, since batch
  sequences grow; staging that the stamp lets the merge drop is covered by the
  stamp. `SumInv`: the same for the stage directories and the stores, where a
  skipped directory is covered by the store's stamp. `CacheInv`: a far move is
  staged, then one of the run's flags, then in the history, then in the export,
  and only then absorbed by the node cache; a run with a far move has a history
  stage, so its finalize is not skipped. TLC found all three to hold on the
  instance of `update_crashes`, and on one with a mirror that goes back, before
  they were proved.
- `UpdateRunProofs`, then: `ImplementsAtLeastOnce`, the refinement of `DiffLedger`
  with `AtMostOnce` off. It assumes `~StaleMirror`, without which it does not hold
  (`stale_mirror` shows why). Every step
  but `WriteManifest` is an `Absorb` or a stutter (`PartsGrow`, `SumsGrow`:
  outputs only grow, by diffs with rows for them); `WriteManifest` is a `Commit`,
  from the invariants above.

- `UpdateRunProofs`, last: what is counted once. `MergeAppliesOnce` and `StoresFoldOnce`
  assume `~StaleMirror` and `Repeatable`: no crash, or runs that all aim at the same
  sequence (one cap, nothing left to publish, no failed download). Then a run after a
  crash must end its batches where the crashed one did, so that it writes over the staging it finds
  and its stamps say what was merged. `Cuts` are these ends: the smallest set that
  holds the start and, with a cut before the target, the next one. That smallest
  set makes up for an induction: what is true of the start and handed on from a cut
  to the next holds for all of them (`OnceInv`: the run is at a cut, staging lies
  between neighbouring cuts, a stamp past the manifest is the goal).
  `AtRestIsExactPrefix` and the refinement of `DiffLedger` with `AtMostOnce` on,
  `ImplementsExactlyOnce`, assume no crash at all; `ExactInv` adds to `OnceInv` what
  has no stamp. `TimestampCoversDiffs` assumes `TimesInOrder`, which is a promise of
  the server: its timestamps are in order (TLC evaluates it for the instance, as an
  assumption of `MCUpdateRun`). Its invariant is `TimesApplied`.

For the node positions the assumptions are those of `NodeEdits.tla` and
`NodeState.tla`: finitely many nodes, a stream of edits, diffs that end in it.

- `NodeStateProofs`: the types, `SidecarIsUnambiguous` and `MemoIsOfBase`. They are
  inductive together with `PhaseOK` (where a verb is, and that places only grow),
  `IdleMemory` and `ChangesKept`, which says that a run never forgets a change it
  loaded and so never leaves an old sidecar behind for having nothing to write.
- `NodeStateProofs`, from the invariant on: `CacheHoldsCommitted`, `PostIsTheStream`, `PriorCellIsLastKnown`
  and `ImplementsNodeMap`, all under `~PrepareCrashes`, without which they would fail. The invariant is `MemoryIsReplay`: the map in memory
  is the one on disk with the run's edits folded in. That alone does not bring a
  run back to the stream when it starts over a sidecar that was ahead of the
  manifest, so `TouchedIsCurrent` adds that a node the run has edited is where the
  stream puts it, and `CacheHoldsCommitted` that any other node is where the
  stream had it at some place not before the manifest's. `DiskKept` shows that
  only an import and a persist change the positions on disk; with it every step
  is one of NodeMap's or a stutter. That the newest of finitely many edits exists
  (`NewestExists`) rests on the well-foundedness of `<` on the naturals.

- `CacheFileProofs`: `SweepAnswersLookup` and `RebuildIsThePostView`, for every base
  file, block size, list of ids, overlay and set of deletions. The sweep may start at
  a block because the bisection keeps what lies below its interval below the id and
  what lies above it not below (`SweepStartsBelow`, over the rounds as `RoundsExist`
  unfolds them). `SweepInv` says that what is known and absent are the ids before
  the loop's place, and that no record the loop has passed is still to be
  asked for. `RebuildInv` says that what is written is the view of the ids that both
  sources are past, in order, and below all that is to come.

For the prior tags it is assumed that the histories are sequences of versions
(`StreamsAreHistories`), that a version has one value per key (`OneValuePerKey`, as
OpenStreetMap guarantees) and that a sidecar is not mistaken for a missing file
(`AbsentIsNoFile`).

- `TagStateProofs`: `PriorsAreTheObjects`. The invariant adds to it what the scan
  gets its tags from: the overlay and the sidecar hold tags of versions only, a
  deletion counting as none, and no base is ever loaded, because no file lies at
  the path the constructor tests. The lemma `PathsDiffer` is where the four names
  matter. `PriorsFollowTheStream` compares with `KnownAfter`, a recursive function;
  that it exists and steps as it is written (`KnownSteps`) is an induction over the
  versions. Its invariant,
  `StreamInv`, says that the sidecar is what is known after the version it was
  written at, and that a run never forgets an entry it loaded (`OverlayKept`): a run
  with nothing to write leaves the file alone, which is right only because there was
  nothing in it. `NoEventWithoutChange` needs of the behaviour only that an event is
  the classifier's; the rest is `SameTagsNoEvent`, about the classifier for all tags.

For the import it is assumed that what is imported are files (`InputsAreFiles`: a node
file is a sequence of versions in which a deletion stands among the versions of its
node; located versions may be out of order, and then the node pass throws), that the ways
of a file are sorted by id (`WaysAreSorted`) and that no
staging file is mistaken for a missing or a torn one (`FilesAreThere`).

- `ImportProofs`: the six properties below, each with an invariant of its own over
  `Types`, which also says what a crash may have left.
  `NothingIsLost` and `ImportIsExact` need to know what the counters
  of a pass have to do with the files on disk long after it ended: `WaysInv` says that
  the counters are those of the passes in `staged`, `SortInv` where a merge is between
  its rename and its removals, `KeptInv` that each year's changes are in the files the
  next merge reads. `ExactInv` replaces "at least" by "exactly" and has to
  follow a year through the forms it may have (staged by one pass or both, merged with
  none, one or both of its staging files removed: `YearExact`), which is where the two
  exceptions of the property come from. TLC found these invariants to hold on the
  instance of `import` first.
  `DeletionsCountedInPlace`: `CountInv` says what the handler's last cell is: the last
  known one of the node just read, because a deletion stands among the versions of its
  node. `CacheIsTheHistory`: the records of the blocks, the buffer and the held back
  record make one sequence; `CacheInv` says of it that it ascends and holds, for
  every node and day it has got to, the last position (`Tells`, `Holds`), and
  `FileHolds` carries that over to the finished file, whose records are found by
  division and remainder (`Record`). `NeverAWrongCell`: refs put by rank are
  in order (`SortedIs`), the sweep starts before the first one's records
  (`SweepStartIs`) and, ref by ref, has passed only records the ref may not need or an
  earlier ref of the batch needed (`SweepAnswers`), by induction over the refs.
  `WayCountsAsDocumented`: a flush counts slots, the documentation counts versions,
  and a deletion may come a batch after its version. `WayTells` says that the versions
  up to some `q` are flushed and the others in the batch: a rendered version's slot is
  the number of rendered versions since `q` (`SlotIs`), a deletion has the slot of the
  version before it or, before the first slot, the carried geometry. What a batch
  counts is then, for any geometries of its slots, a number of versions
  (`SlotsTell`; `VersionCounts` and `DeletionCounts` are the two steps). A flush puts
  in the geometries that the sweep gives: never a cell the version does not have, and
  every one when no node is needed on two days (`BatchCellsCover`). The counts are
  exact in that case only. The handler knows no way ids, so a deletion is attributed
  to the geometry last rendered; because the files are sorted (`WaysAreSorted`) that is
  its own way's whenever this has one (`OwnIsLast`), and what is left are the
  deletions of ways that never had any (`AttributedIsDocumented`), which the property
  counts as the code does and `orphan_deletion` holds against the documentation.

For the users' edits the streams are sequences of versions with finitely many cells
and tags (`StreamsAreVersions`), the spans and thresholds are natural numbers, those
the code divides by or compares a presence with not 0 (`SpansArePositive`,
`ThresholdsAreNumbers`, `RankingIsInPoints`), and no store or table is mistaken for a
missing one (`AbsentIsNoStore`, `AbsentIsNoTable`).

- `SuspectProofs`: what the operators of the stores and filters give. The model sums,
  counts and filters everywhere, so everything is brought to one form: the weight of a
  sequence (`Weigh`), the sum over its places of a weight of its elements. A count is
  the weight by ones, a part of a sequence (`At`) weighs what the sequence does within
  the part (`WeighAt`), and the weights of joined sequences add up (`WeighFlatten`). `ReadsBack`: the
  records read from the blocks of a written store, by division and remainder, are the
  counts in the order of their keys, whatever the block size. `TallyIs`: a scan's
  count of a key is the weight of the versions with the key. `SpansHold`,
  `WindowsAre`: the sliding sums hold the rows after the head, and the head is where
  the hour begins, because the rows of a user are in the order of their minutes.
- `UserHistoryProofs`: the properties of the run. `RunIsSound`, on which
  all others build, says what is staged in each phase: for each root the batches after
  the manifest that have rows, until a fold removes them.
  `StoresHoldThePrefix` needs `StoresAreSound`: a store is `Written` of the tally of a prefix, and
  the batches between its stamp and what a run has behind it had no rows for it, so
  that a fold may skip what the stamp covers and must add the rest once.
  `TablesCoverTheStream`: `CountsAreSound` says of the history and of the totals up to
  which batch they count at least everything, and exactly if nothing crashed; the
  import may have put a day into two rows, and `ImportWrites` adds them up again.
  `TablesAgree`: the history is one row a day after a finalize, and the suspect table
  has rows of a history that the present one only adds to (`FilesAgreeInvariant`). `HistoryFlagsOnlyGrow`
  is a property of the one step that writes the history. `ColumnsAreFrozen`:
  `MovesAreTheRun` says that the moves of a run in memory are the far moves of the
  run's batches. `RankingFollowsTotals` is arithmetic for any totals: `Unit`, a
  factorial, is a multiple of each number of others (`FactorialIs`), so the points of an
  aspect grow with the total and the rounding keeps the order. `WindowsHoldTheHour`
  is `SpansHold` and `WindowsAre` for the stores that `StoresAreSound` describes.

  `FlagsFollowTheFilters` joins them. A store weighs what the prefix it holds weighs
  (`StoreWeighs`), so the days that its filter flags are the days that the filter
  flags over that prefix (`FlaggedDaysAre`, `CellDaysAre`, `TagDaysAre`). The sums of
  filters 2 and 4 only grow with the prefix (`HoursGrow`, `PartsGrow`); filter 5 is a
  share, which may fall again, so its days are stated for equal prefixes only
  (`CoverSame`). `StampsAreSound`: cells and tags are never stamped ahead of the
  minutes, whose rows are all edits (`RowsAreEdits`), and without a crash no stamp
  passes the target. The inductive invariant is `FlagsAreSound`: the history has every day
  that the filters flag up to `HistoryMark`, and only days they flag for some prefix up to
  `Reach`. Filter 1 needs `RankingIsSound`: a user who creates nothing keeps zero
  totals, and a day of the import never gets the bit.

Only model-checked: `RenamesAreNoTypos`, for which
the bounded Levenshtein distance would have to be proved right; and, for good,
`CatchesUp` (fairness and ENABLED are outside the prover's reach).

## 7. Not modelled

- The Geofabrik login, the country index, the Atom feed, the options, the date and
  table helpers and the web viewers have no state that the dataset's correctness
  depends on: a fixed order of requests, a lookup, a formatter.
- The run lock is an assumption: one process at a time on a dataset.
- File formats: varints, zstd blocks, block directories, parquet row groups and
  their statistics. A file is the sequence or the map of its records, in blocks
  where a block's edge decides something.
- H3 and the distance of a move: cells are values, a move is a number of metres.
- libosmium's sort and merge of the diffs of a batch: the stream's order is taken.
- The store of language events and its flags, which never see an event, and a
  re-import over the suspect stores of an earlier dataset; the documentation
  re-imports into a fresh directory (`HOW_IT_WORKS.md:251`).
