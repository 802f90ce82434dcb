---------------------------- MODULE UserHistory ----------------------------
(***************************************************************************)
(* The user statistics of a dataset: the import's user tables, then update  *)
(* runs that stage every batch's counts, fold them into the suspect stores, *)
(* derive the flagged days and rebuild the three published tables           *)
(* (user_ranking, users_history, suspect), with a crash between any two     *)
(* file-system effects. A batch is the unit of the stream here (UpdateRun   *)
(* has the batching); a file is replaced by a rename, so one step each.     *)
(***************************************************************************)
EXTENDS SuspectFilters

CONSTANTS
  Streams,     \* histories: [imported, batches], sequences of versions
  TopTags,     \* kTop12TagKeys, among the tags
  Caps,        \* kCaps by aspect: 1 node, 2 way, 3 relation, 3 + t a top tag
  LowRanking,  \* kFilter1RankingThreshold
  Country,     \* the country index: cell -> country
  FlushRows,   \* kFlushThreshold: rows of the accumulator per stage file
  MaxCrashes

ASSUME FlushRowsIsPositive == FlushRows \in Nat \ {0}
ASSUME TagsAreNumbers == TopTags \subseteq Nat \ {0} /\ IsFiniteSet(TopTags)
ASSUME StreamsAreVersions ==
  \A s \in Streams : s.imported \in Seq(Versions) /\ s.batches \in Seq(Seq(Versions))
ASSUME RankingIsInPoints ==
  LowRanking \in Nat \ {0} /\ \A a \in {1, 2, 3} \cup {3 + t : t \in TopTags} : Caps[a] \in Nat

VARIABLES
  imported,  \* the full history file's versions
  batches,   \* the batches of the replication stream
  manifest,  \* batches applied, as the manifest records
  stores,    \* the suspect stores, by root
  totals,    \* user_ranking: created totals by uid and aspect
  history,   \* users_history: rows [key, count, flags] in file order
  suspects,  \* suspect: rows by <<uid, day>>
  stage,     \* the batches with stage files, by root
  moves,     \* move_flags of the running update
  target,    \* the last batch the running update applies
  pos,       \* batches scanned by this run and those before
  phase,
  crashes

tables == <<totals, history, suspects>>
vars == <<imported, batches, manifest, stores, tables, stage, moves, target, pos, phase, crashes>>

Uid(k) == k[1]
Aspects == {1, 2, 3} \cup {3 + t : t \in TopTags}
NoTotals == [a \in Aspects |-> 0]
NoDays == [k \in {} |-> 0]
Flags == {"edits", "moves", "spread", "tags", "langs", "ranking"}
HistoryRows == [key : Seq(Int), count : Nat, flags : SUBSET Flags]
Uids == UNION {{s.imported[i].uid : i \in DOMAIN s.imported}
                 \cup UNION {{s.batches[b][i].uid : i \in DOMAIN s.batches[b]} : b \in DOMAIN s.batches}
               : s \in Streams}

\* A table that is there is not Absent.
ASSUME AbsentIsNoTable ==
  /\ Absent \notin Seq(HistoryRows)
  /\ \A U \in SUBSET Uids : Absent \notin [U -> [Aspects -> Nat]]

Init ==
  /\ \E s \in Streams : imported = s.imported /\ batches = s.batches
  /\ manifest = 0 /\ pos = 0 /\ target = 0 /\ phase = "none" /\ crashes = 0
  /\ stores = [r \in Roots |-> Absent]
  /\ totals = Absent /\ history = Absent /\ suspects = Absent
  /\ stage = [r \in Roots \cup {"moves", "history"} |-> {}] /\ moves = NoDays

-----------------------------------------------------------------------------
(* UserEventStats *)

DayKey(v) == <<v.uid, Day(v.minute)>>

\* Every version counts for its day; the ranking counts creates, and the top
\* tags on them.
DayCounts(versions) ==
  [k \in {DayKey(versions[i]) : i \in DOMAIN versions} |->
     Cardinality({i \in DOMAIN versions : DayKey(versions[i]) = k})]

AspectsOf(v) ==
  IF v.action # "create" THEN {}
  ELSE {CASE v.kind = "node" -> 1 [] v.kind = "way" -> 2 [] v.kind = "relation" -> 3}
         \cup {3 + t : t \in v.tags \cap TopTags}

Totals(versions) ==
  [u \in {versions[i].uid : i \in DOMAIN versions} |->
     [a \in Aspects |->
        Cardinality({i \in DOMAIN versions : versions[i].uid = u /\ a \in AspectsOf(versions[i])})]]

\* The import's scan cuts its rows into files: as soon as the accumulator holds
\* FlushRows days it is written out and cleared, so a day may be in several.
Flushed(versions) ==
  LET acc[n \in 0..Len(versions)] ==
        IF n = 0 THEN [files |-> <<>>, open |-> <<>>]
        ELSE LET open == Append(acc[n - 1].open, versions[n])
             IN  IF Cardinality(DOMAIN DayCounts(open)) >= FlushRows
                 THEN [files |-> Append(acc[n - 1].files, open), open |-> <<>>]
                 ELSE [acc[n - 1] EXCEPT !.open = open]
  IN  acc[Len(versions)]

\* Without finish(): the rows left in the accumulator are lost.
StageFilesUnfinished(versions) == Flushed(versions).files

StageFiles(versions) ==
  LET end == Flushed(versions)
  IN  IF end.open = <<>> THEN end.files ELSE Append(end.files, end.open)

-----------------------------------------------------------------------------
(* ranking::compute *)

Active(t, a) == {u \in DOMAIN t : t[u][a] > 0}
FewerOrBefore(t, a, u) ==
  Cardinality({w \in Active(t, a) : t[w][a] < t[u][a] \/ (t[w][a] = t[u][a] /\ w < u)})
FewerThan(t, a, u) == Cardinality({w \in Active(t, a) : t[w][a] < t[u][a]})

\* The points of an aspect, in parts of Unit: the share of the other active
\* users that have less, or the whole cap without any other.
Unit(t) ==
  LET product[n \in 0..Cardinality(DOMAIN t)] == IF n = 0 THEN 1 ELSE n * product[n - 1]
  IN  product[Cardinality(DOMAIN t)]
Points(t, a, u) ==
  LET others == Cardinality(Active(t, a)) - 1
  IN  IF u \notin Active(t, a) THEN 0
      ELSE IF others = 0 THEN Caps[a] * Unit(t)
      ELSE Caps[a] * FewerThan(t, a, u) * (Unit(t) \div others)

\* The sum, rounded to the nearest.
Ranking(t, u) ==
  LET sum == SumFunction([a \in Aspects |-> Points(t, a, u)])
  IN  Min({100, (2 * sum + Unit(t)) \div (2 * Unit(t))})

-----------------------------------------------------------------------------
(* Import: run_scan and run_finalize *)

\* The rows in (uid, day) order, those of one day next to each other.
RowsOf(files) ==
  LET at(f, k) == [key |-> k, count |-> DayCounts(files[f])[k], flags |-> {}]
      slots == UNION {{<<k[1], k[2], f>> : k \in DOMAIN DayCounts(files[f])} : f \in DOMAIN files}
      order == InOrder(slots, Before)
  IN  [i \in DOMAIN order |-> at(order[i][3], <<order[i][1], order[i][2]>>)]

Import ==
  /\ phase = "none"
  /\ phase' = "idle"
  /\ IF imported = <<>> THEN UNCHANGED <<totals, history>>
     ELSE totals' = Totals(imported) /\ history' = RowsOf(StageFiles(imported))
  /\ UNCHANGED <<imported, batches, manifest, stores, suspects, stage, moves, target, pos, crashes>>

-----------------------------------------------------------------------------
(* The run: stage roots, scans and folds *)

\* A run applies any number of the batches the server has.
StartRun ==
  /\ phase = "idle"
  /\ target' \in manifest + 1..Len(batches)
  /\ stage' = [r \in DOMAIN stage |-> {}]
  /\ pos' = manifest /\ moves' = NoDays /\ phase' = "scan"
  /\ UNCHANGED <<imported, batches, manifest, stores, tables, crashes>>

\* No file is written for a scan without rows.
HasRows(root, b) ==
  CASE root = "history" -> batches[b] # <<>>
    [] root = "moves"   -> FarMoves(batches[b]) # <<>>
    [] root \in Roots   -> Tally(root, batches[b]) # NoRows

Scan ==
  /\ phase = "scan" /\ pos < target
  /\ pos' = pos + 1
  /\ stage' = [r \in DOMAIN stage |-> IF HasRows(r, pos + 1) THEN stage[r] \cup {pos + 1} ELSE stage[r]]
  /\ phase' = (IF pos + 1 = target THEN "minutes" ELSE "scan")
  /\ UNCHANGED <<imported, batches, manifest, stores, tables, moves, target, crashes>>

\* Without the stamp: every staged batch is added.
MergedAgain(root) ==
  LET base == Contents(stores[root])
      rows(b) == Tally(root, batches[b])
  IN  [k \in DOMAIN base \cup UNION {DOMAIN rows(b) : b \in stage[root]} |->
         CountOf(base, k) + SumFunction([b \in stage[root] |-> CountOf(rows(b), k)])]

\* The store's records and the staged rows of the batches after its stamp.
Merged(root) ==
  LET base == Contents(stores[root])
      stamp == AppliedSeqOf(stores[root])
      fresh == {b \in stage[root] : stamp = 0 \/ b > stamp}
      rows(b) == Tally(root, batches[b])
  IN  [k \in DOMAIN base \cup UNION {DOMAIN rows(b) : b \in fresh} |->
         CountOf(base, k) + SumFunction([b \in fresh |-> CountOf(rows(b), k)])]

AlreadyFolded(root) == stores[root] # Absent /\ AppliedSeqOf(stores[root]) >= target

\* fold_minute_counts, fold_cell_counts, fold_tag_counts, fold_lang_counts: the
\* stage is removed whatever happens.
Fold(root, next) ==
  /\ phase = root
  /\ stores' = IF AlreadyFolded(root) \/ stage[root] = {} THEN stores
               ELSE [stores EXCEPT ![root] = Written(Merged(root), target)]
  /\ stage' = [stage EXCEPT ![root] = {}]
  /\ phase' = next
  /\ UNCHANGED <<imported, batches, manifest, tables, moves, target, pos, crashes>>

FoldMinutes == Fold("minutes", "cells")
FoldCells == Fold("cells", "tags")
FoldTags == Fold("tags", "moves")
FoldLangs == Fold("langs", "ranking")

Staged(root) ==
  LET order == InOrder(stage[root], LAMBDA a, b : a < b)
  IN  FlattenSeq([i \in DOMAIN order |-> batches[order[i]]])

\* flagged_move_days: the whole suspect stage goes, the languages' as well.
FlagMoves ==
  /\ phase = "moves"
  /\ LET far == FarMoves(Staged("moves"))
         of(k) == {i \in DOMAIN far : DayKey(far[i]) = k}
     IN  moves' = [k \in {DayKey(far[i]) : i \in DOMAIN far} |->
                     [count |-> Cardinality(of(k)), longest |-> Max({far[i].move : i \in of(k)})]]
  /\ stage' = [r \in DOMAIN stage |-> IF r = "history" THEN stage[r] ELSE {}]
  /\ phase' = "langs"
  /\ UNCHANGED <<imported, batches, manifest, stores, tables, target, pos, crashes>>

-----------------------------------------------------------------------------
(* run_update_finalize: three tables, each replaced by a rename *)

TotalsOf(u) == IF totals = Absent THEN NoTotals ELSE IF u \in DOMAIN totals THEN totals[u] ELSE NoTotals
Users == IF totals = Absent THEN {} ELSE DOMAIN totals

\* Without stage files nothing at all is finalized.
WriteRanking ==
  /\ phase = "ranking"
  /\ LET delta == Totals(Staged("history"))
         at(u, a) == TotalsOf(u)[a] + (IF u \in DOMAIN delta THEN delta[u][a] ELSE 0)
     IN  IF stage["history"] = {} THEN phase' = "manifest" /\ UNCHANGED totals
         ELSE /\ phase' = "history"
              /\ totals' = [u \in Users \cup DOMAIN delta |-> [a \in Aspects |-> at(u, a)]]
  /\ UNCHANGED <<imported, batches, manifest, stores, history, suspects, stage, moves, target, pos, crashes>>

BaseRows == IF history = Absent THEN <<>> ELSE history

\* The rows of one day in the base become one.
Base ==
  LET of(k) == At(BaseRows, {i \in DOMAIN BaseRows : BaseRows[i].key = k})
  IN  [k \in {BaseRows[i].key : i \in DOMAIN BaseRows} |->
         [count |-> CountsIn(of(k)), flags |-> UNION {of(k)[i].flags : i \in DOMAIN of(k)}]]

\* The days that the stores and the run's moves give a bit.
FlagDays ==
  [edits  |-> DOMAIN FlaggedDays(stores["minutes"]),
   moves  |-> DOMAIN moves,
   spread |-> DOMAIN FlaggedCellDays(stores["cells"], stores["minutes"]),
   tags   |-> DOMAIN FlaggedTagDays(stores["tags"], stores["minutes"]),
   langs  |-> DOMAIN FlaggedLangDays(stores["langs"])]
DayFlags(days, k) == {flag \in DOMAIN days : k \in days[flag]}

\* Filter 1 marks only a day the base does not have.
NewDayFlags(k) == IF Ranking(totals, Uid(k)) < LowRanking THEN {"ranking"} ELSE {}

\* The base's flags forgotten: only what this run can still derive.
MergedRowRederived(base, delta, days, k) ==
  [key |-> k, count |-> (IF k \in DOMAIN base THEN base[k].count ELSE 0) + CountOf(delta, k),
   flags |-> DayFlags(days, k)]

\* Filter 1 applied to every day of a low-ranking user.
MergedRowLowRanking(base, delta, days, k) ==
  IF k \in DOMAIN base
  THEN [key |-> k, count |-> base[k].count + CountOf(delta, k),
        flags |-> base[k].flags \cup DayFlags(days, k) \cup NewDayFlags(k)]
  ELSE [key |-> k, count |-> delta[k], flags |-> DayFlags(days, k) \cup NewDayFlags(k)]

MergedRow(base, delta, days, k) ==
  IF k \in DOMAIN base
  THEN [key |-> k, count |-> base[k].count + CountOf(delta, k),
        flags |-> base[k].flags \cup DayFlags(days, k)]
  ELSE [key |-> k, count |-> delta[k], flags |-> DayFlags(days, k) \cup NewDayFlags(k)]

WriteHistory ==
  /\ phase = "history"
  /\ LET base == Base
         delta == DayCounts(Staged("history"))
         days == FlagDays
         order == InOrder(DOMAIN base \cup DOMAIN delta, Before)
     IN  history' = [i \in DOMAIN order |-> MergedRow(base, delta, days, order[i])]
  /\ phase' = "suspects"
  /\ UNCHANGED <<imported, batches, manifest, stores, totals, suspects, stage, moves, target, pos, crashes>>

\* The countries of the day's cells.
CountriesOf(k) ==
  {Country[r[3]] : r \in {s \in DOMAIN Contents(stores["cells"]) :
     <<s[1], Day(s[2])>> = k /\ s[3] \in DOMAIN Country}}

\* The columns of this run's moves and ranking, whatever was exported before.
FrozenThisRun(k) ==
  [moves |-> IF k \in DOMAIN moves THEN moves[k].count ELSE 0,
   longest |-> IF k \in DOMAIN moves THEN moves[k].longest ELSE 0,
   ranking |-> IF Uid(k) \in DOMAIN totals THEN Ranking(totals, Uid(k)) ELSE 0]

\* The moves and the ranking are those of the run that first exported the day.
Frozen(k) ==
  IF suspects # Absent /\ k \in DOMAIN suspects
  THEN [moves |-> suspects[k].moves, longest |-> suspects[k].longest, ranking |-> suspects[k].ranking]
  ELSE [moves |-> IF k \in DOMAIN moves THEN moves[k].count ELSE 0,
        longest |-> IF k \in DOMAIN moves THEN moves[k].longest ELSE 0,
        ranking |-> IF Uid(k) \in DOMAIN totals THEN Ranking(totals, Uid(k)) ELSE 0]

SuspectRow(row) ==
  LET k == row.key
      edits == FlaggedDays(stores["minutes"])
      spreads == FlaggedCellDays(stores["cells"], stores["minutes"])
      covers == FlaggedTagDays(stores["tags"], stores["minutes"])
      frozen == Frozen(k)
  IN  [flags |-> row.flags, changes |-> row.count,
       maxEdits |-> CountOf(edits, k), spread |-> CountOf(spreads, k),
       keys |-> IF k \in DOMAIN covers THEN covers[k] ELSE {},
       countries |-> CountriesOf(k),
       moves |-> frozen.moves, longest |-> frozen.longest, ranking |-> frozen.ranking,
       events |-> CountOf(FlaggedLangDays(stores["langs"]), k)]

\* Every day with a flag. The stage is removed at the end.
WriteSuspects ==
  /\ phase = "suspects"
  /\ LET flagged == {history[i] : i \in {j \in DOMAIN history : history[j].flags # {}}}
     IN  suspects' = [k \in {r.key : r \in flagged} |->
                        SuspectRow(CHOOSE r \in flagged : r.key = k)]
  /\ stage' = [stage EXCEPT !["history"] = {}]
  /\ phase' = "manifest"
  /\ UNCHANGED <<imported, batches, manifest, stores, totals, history, moves, target, pos, crashes>>

WriteManifest ==
  /\ phase = "manifest"
  /\ manifest' = target /\ phase' = "idle" /\ moves' = NoDays
  /\ UNCHANGED <<imported, batches, stores, tables, stage, target, pos, crashes>>

-----------------------------------------------------------------------------

\* The process ends between two effects: the files stay, the memory goes.
Crash ==
  /\ phase \notin {"none", "idle"} /\ crashes < MaxCrashes
  /\ crashes' = crashes + 1 /\ phase' = "idle" /\ moves' = NoDays
  /\ UNCHANGED <<imported, batches, manifest, stores, tables, stage, target, pos>>

Done == phase = "idle" /\ manifest = Len(batches) /\ UNCHANGED vars

Next ==
  \/ Import \/ StartRun \/ Scan
  \/ FoldMinutes \/ FoldCells \/ FoldTags \/ FlagMoves \/ FoldLangs
  \/ WriteRanking \/ WriteHistory \/ WriteSuspects \/ WriteManifest
  \/ Crash \/ Done

Spec == Init /\ [][Next]_vars

=============================================================================
