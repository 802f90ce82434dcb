----------------------- MODULE UserHistoryProperties -----------------------
(***************************************************************************)
(* What the user statistics promise, against references computed from the   *)
(* stream itself: sums over all versions and hours counted version by       *)
(* version, without stores, stamps, windows or base tables.                 *)
(***************************************************************************)
EXTENDS UserHistory

-----------------------------------------------------------------------------
(* The windows *)

InHour(series, minute) ==
  At(series, {i \in DOMAIN series : MinuteOf(series[i]) > minute - Span /\ MinuteOf(series[i]) <= minute})

WindowIsTheHour(w, objects, rows) ==
  /\ w.total = CountsIn(InHour(objects, w.minute))
  /\ DOMAIN w.counts = {r.key[3] : r \in Range(InHour(rows, w.minute))}
  /\ \A k \in DOMAIN w.counts :
       LET hour == InHour(rows, w.minute)
       IN  w.counts[k] = CountsIn(At(hour, {i \in DOMAIN hour : hour[i].key[3] = k}))

\* suspect.hpp: "hour_span sums modified_deleted over the trailing
\* kHourSpanMinutes minutes ending at minute". Whatever the gaps, the peaks and
\* the rows that share a minute, the three sliding sums (filters 2, 4 and 5)
\* hold the rows of (minute - Span, minute] and nothing else.
WindowsAreTheHour ==
  phase = "moves" =>
    /\ \A u \in UidsIn(stores["minutes"]) :
         LET series == SeriesOf(stores["minutes"], u)
         IN  \A i \in DOMAIN series :
               HourSpans(series)[i] = CountsIn(InHour(series, MinuteOf(series[i])))
    /\ \A root \in {"cells", "tags"} : \A u \in UidsIn(stores[root]) \cap UidsIn(stores["minutes"]) :
         LET objects == SeriesOf(stores["minutes"], u)
             rows == SeriesOf(stores[root], u)
             windows == Windows(objects, rows)
         IN  \A i \in DOMAIN windows : WindowIsTheHour(windows[i], objects, rows)

-----------------------------------------------------------------------------
(* The stores *)

Prefix(n) == FlattenSeq(SubSeq(batches, 1, n))

\* suspect.cpp: "The store always holds a prefix of the replication stream". A
\* store stamped s holds the counts of batches 1..s, each once, through crashes
\* between a fold and the manifest and reruns to another target; at rest, the
\* batches of the manifest it is not stamped with had nothing for it.
StoresAreTheStream ==
  \A r \in {"minutes", "cells", "tags"} :
    LET stamp == AppliedSeqOf(stores[r])
    IN  /\ Contents(stores[r]) = Tally(r, Prefix(stamp))
        /\ phase = "idle" => \A b \in stamp+1..manifest : ~HasRows(r, b)

-----------------------------------------------------------------------------
(* The flags *)

Edits(n) ==
  LET versions == Prefix(n) IN At(versions, {i \in DOMAIN versions : versions[i].action # "create"})
HourOf(versions, uid, minute) ==
  LET inHour(v) == v.uid = uid /\ v.minute > minute - Span /\ v.minute <= minute
  IN  At(versions, {i \in DOMAIN versions : inHour(versions[i])})
DayKeys(versions) == {DayKey(versions[i]) : i \in DOMAIN versions}

\* The days with an edit whose last hour satisfies Test.
DaysWith(n, Test(_)) ==
  LET edits == Edits(n)
  IN  {DayKey(v) : v \in {w \in Range(edits) : Test(HourOf(edits, w.uid, w.minute))}}

EditDays(n) == LET many(vs) == Len(vs) > HourEdits IN DaysWith(n, many)

SpreadDays(n) ==
  LET cellsOf(vs) == UNION {IF v.kind = "relation" THEN {} ELSE v.cells : v \in Range(vs)}
      wide(vs) == /\ Len(vs) >= SpreadEdits
                  /\ Cardinality(cellsOf(vs)) >= SpreadCells
                  /\ Cardinality(cellsOf(vs)) * CellArea >= SpreadArea
  IN  DaysWith(n, wide)

MoveDays(n) == DayKeys(FarMoves(Prefix(n)))

\* A tag on more than the share of an hour's edits, of a prefix n of the edits
\* and a prefix p of their tags.
CoverDays(n, p) ==
  LET with(vs, t) == Cardinality({i \in DOMAIN vs : t \in vs[i].tags})
      both == {v \in Range(Edits(n) \o Edits(p)) : TRUE}
      covers(v) == LET all == HourOf(Edits(n), v.uid, v.minute)
                       tagged == HourOf(Edits(p), v.uid, v.minute)
                   IN  /\ Len(all) >= CoverEdits
                       /\ \E t \in UNION {w.tags : w \in Range(tagged)} :
                            with(tagged, t) * 10 > Len(all) * CoverTenths
  IN  {DayKey(v) : v \in {w \in both : covers(w)}}

\* The days that any two prefixes up to n cover.
CoverDaysUpTo(n) == UNION {CoverDays(a, b) : a, b \in 0..n}

Flagged(flag) == {k \in DOMAIN Base : flag \in Base[k].flags}
Created(u, versions) == \E i \in DOMAIN versions : versions[i].uid = u /\ versions[i].action = "create"
Newcomers(n) == {k \in DayKeys(Prefix(n)) \ DayKeys(imported) : ~Created(Uid(k), imported \o Prefix(Len(batches)))}

\* At rest a day carries the bit of a filter if the diffs of the manifest call
\* for it, and only if the stream does: a crash may have shown the filters a
\* longer prefix, never an edit twice. Filter 5 is a share and not monotonic, so
\* only a history without a crash must hold all its days. Filter 1 marks no day
\* of the import, and every new day of a user who created nothing
\* (users_history.cpp: "A contributor who created nothing ranks 0").
FlagsAreTheFilters ==
  phase = "idle" =>
    LET reach == Max({manifest, AppliedSeqOf(stores["minutes"])})
    IN  /\ EditDays(manifest) \subseteq Flagged("edits") /\ Flagged("edits") \subseteq EditDays(reach)
        /\ SpreadDays(manifest) \subseteq Flagged("spread") /\ Flagged("spread") \subseteq SpreadDays(reach)
        /\ MoveDays(manifest) \subseteq Flagged("moves") /\ Flagged("moves") \subseteq MoveDays(Len(batches))
        /\ crashes = 0 => CoverDays(manifest, manifest) \subseteq Flagged("tags")
        /\ Flagged("tags") \subseteq CoverDaysUpTo(reach)
        /\ Newcomers(manifest) \subseteq Flagged("ranking")
        /\ Flagged("ranking") \cap DayKeys(imported) = {}

\* users_history.cpp: "Base rows are never masked or re-flagged, so a flag once
\* written persists and a ranking drop is never applied retroactively."
FlagsOnlyGrow ==
  [][\A k \in DOMAIN Base :
       /\ k \in DOMAIN Base'
       /\ Base[k].flags \subseteq Base'[k].flags
       /\ "ranking" \in Base'[k].flags => "ranking" \in Base[k].flags]_history

-----------------------------------------------------------------------------
(* The tables *)

\* A day's count and a user's totals cover every version of the import and the
\* manifest's diffs, the days an import cut in two included; exactly, as long
\* as no run was interrupted (after a crash a diff may count twice).
CountsCoverStream ==
  phase = "idle" =>
    LET versions == imported \o Prefix(manifest)
        days == DayCounts(versions)
        sums == Totals(versions)
    IN  /\ \A k \in DOMAIN days : k \in DOMAIN Base /\ Base[k].count >= days[k]
        /\ \A u \in DOMAIN sums : u \in Users /\ \A a \in Aspects : totals[u][a] >= sums[u][a]
        /\ crashes = 0 => /\ DOMAIN Base = DOMAIN days /\ Users = DOMAIN sums
                          /\ \A k \in DOMAIN days : Base[k].count = days[k]
                          /\ \A u \in Users : totals[u] = sums[u]

\* ranking.hpp: "a zero total scores 0, a sole contributor gets the full cap,
\* and equal totals share the same rank". Who created at least as much in every
\* aspect never ranks lower.
RankingRespectsTotals ==
  \A u, w \in Users :
    /\ (\A a \in Aspects : totals[u][a] <= totals[w][a]) => Ranking(totals, u) <= Ranking(totals, w)
    /\ totals[u] = NoTotals => Ranking(totals, u) = 0
    /\ (\A a \in Aspects : /\ totals[w][a] > 0
                           /\ \A o \in Users \ {w} : totals[o][a] < totals[w][a])
         => Ranking(totals, w) = Min({100, SumFunction([a \in Aspects |-> Caps[a]])})

\* users_history.hpp: "so the two always agree". The suspect table never holds
\* a day, a flag or a count the history does not, in any state; once both are
\* written and no run was interrupted, they are the same days.
FilesAgree ==
  suspects # Absent =>
    /\ \A k \in DOMAIN suspects : /\ k \in DOMAIN Base
                                  /\ suspects[k].flags \subseteq Base[k].flags
                                  /\ suspects[k].changes <= Base[k].count
    /\ crashes = 0 /\ phase \in {"idle", "manifest"} =>
         \A k \in DOMAIN Base : Base[k].flags # {} =>
           k \in DOMAIN suspects /\ suspects[k].flags = Base[k].flags /\ suspects[k].changes = Base[k].count

RunMoves(k) ==
  LET far == FarMoves(FlattenSeq(SubSeq(batches, manifest + 1, target)))
  IN  At(far, {i \in DOMAIN far : DayKey(far[i]) = k})

\* API.md: "Frozen: stamped when the day is newly flagged and carried unchanged
\* from the base file on every later update". A day's move columns are the far
\* moves of the diffs applied by the run that first exported it, and neither
\* they nor its ranking change afterwards, whatever crashes and reruns follow.
FrozenColumns ==
  [][\A k \in (IF suspects' = Absent THEN {} ELSE DOMAIN suspects') :
       IF suspects # Absent /\ k \in DOMAIN suspects
       THEN /\ suspects'[k].moves = suspects[k].moves
            /\ suspects'[k].longest = suspects[k].longest
            /\ suspects'[k].ranking = suspects[k].ranking
       ELSE /\ suspects'[k].moves = Len(RunMoves(k))
            /\ \A v \in Range(RunMoves(k)) : suspects'[k].longest >= v.move]_suspects

=============================================================================
