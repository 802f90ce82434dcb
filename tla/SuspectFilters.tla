--------------------------- MODULE SuspectFilters ---------------------------
(***************************************************************************)
(* The suspect filters: what the scans count of a diff, and the flagged     *)
(* days the update derives from the stores. A version is                    *)
(*   [uid, minute, kind, action, cells, tags, lang, move]: kind "node",     *)
(* "way" or "relation"; action "create" (visible, version 1), "modify" or   *)
(* "delete"; cells those of its nodes that have a position; tags its keys;  *)
(* lang the language of its name event, NoLang without one; move the meters *)
(* a node moved, 0 if it did not or its earlier place is not known.         *)
(***************************************************************************)
EXTENDS SuspectStores

CONSTANTS
  Span,           \* kHourSpanMinutes
  DayMinutes,     \* minutes of a day (1440)
  HourEdits,      \* kFilter2Threshold
  FarMeters,      \* kFilter3Threshold
  SpreadEdits,    \* kFilter4MinCount
  SpreadCells,    \* kFilter4MinCells
  SpreadArea,     \* kFilter4SpreadKm2
  CellArea,       \* the area of a cell
  CoverEdits,     \* kFilter5MinObjects
  CoverTenths     \* kFilter5TagCoverage, in tenths

ASSUME SpansArePositive == Span \in Nat \ {0} /\ DayMinutes \in Nat \ {0}
ASSUME ThresholdsAreNumbers ==
  /\ {HourEdits, FarMeters, SpreadEdits, SpreadArea, CellArea, CoverEdits, CoverTenths} \subseteq Nat
  /\ SpreadCells \in Nat \ {0}

Roots == {"minutes", "cells", "tags", "langs"}
NoLang == 0
NoRows == [k \in {} |-> 0]

\* What the scans read of a version: its cells, its changed tags, its language
\* and how far it moved, with what it is and whose.
Versions ==
  {v \in [uid : Int, minute : Nat, kind : {"node", "way", "relation"},
          action : {"create", "modify", "delete"},
          cells : SUBSET Int, tags : SUBSET Nat, lang : Nat, move : Nat] :
     IsFiniteSet(v.cells) /\ IsFiniteSet(v.tags)}
Day(minute) == minute \div DayMinutes

-----------------------------------------------------------------------------
(* The scans *)

\* Creates counted among the hour's edits.
MinuteKeysOfAll(v) == {<<v.uid, v.minute>>}
\* Creates are in no bucket; relations are in no cell.
MinuteKeys(v) == IF v.action = "create" THEN {} ELSE {<<v.uid, v.minute>>}
CellKeys(v) ==
  IF v.action = "create" \/ v.kind = "relation" THEN {}
  ELSE {<<v.uid, v.minute, c>> : c \in v.cells}
TagKeys(v) ==
  IF v.action = "create" THEN {} ELSE {<<v.uid, v.minute, t>> : t \in v.tags}
LangKeys(v) ==
  IF v.action = "create" \/ v.lang = NoLang THEN {} ELSE {<<v.uid, Day(v.minute), v.lang>>}

KeysOf(root, v) ==
  CASE root = "minutes" -> MinuteKeys(v)
    [] root = "cells"   -> CellKeys(v)
    [] root = "tags"    -> TagKeys(v)
    [] root = "langs"   -> LangKeys(v)

\* The rows staged for a diff: for each key, the versions that have it.
Tally(root, versions) ==
  LET all == {versions[i] : i \in DOMAIN versions}
  IN  [k \in UNION {KeysOf(root, v) : v \in all} |->
         Cardinality({i \in DOMAIN versions : k \in KeysOf(root, versions[i])})]

\* Only moves beyond the threshold are staged.
FarMoves(versions) ==
  LET far(v) == v.kind = "node" /\ v.action = "modify" /\ v.move > FarMeters
  IN  At(versions, {i \in DOMAIN versions : far(versions[i])})

-----------------------------------------------------------------------------
(* Filter 2: hour_spans and flagged_days *)

\* One uid's records, in minute order.
SeriesOf(store, uid) ==
  LET records == Records(store)
  IN  At(records, {i \in DOMAIN records : records[i].key[1] = uid})
MinuteOf(r) == r.key[2]
\* Evicts one minute late: the window is Span + 1 minutes.
GoneLate(r, minute) == MinuteOf(r) + Span < minute
Gone(r, minute) == MinuteOf(r) + Span <= minute

\* The trailing window at each row: a head that only advances, and the sum of
\* the rows from the head on.
HourSpans(series) ==
  LET span[i \in 0..Len(series)] ==
        IF i = 0 THEN [head |-> 1, window |-> 0]
        ELSE LET before == span[i - 1]
                 gone == {j \in before.head..i : Gone(series[j], MinuteOf(series[i]))}
             IN  [head |-> before.head + Cardinality(gone),
                  window |-> before.window + series[i].count
                               - SumFunction([j \in gone |-> series[j].count])]
  IN  [i \in DOMAIN series |-> span[i].window]

UidsIn(store) == {k[1] : k \in DOMAIN Contents(store)}

\* The largest value among the entries of each day.
Peaks(entries) ==
  [k \in {e.key : e \in entries} |-> Max({e.value : e \in {f \in entries : f.key = k}})]

FlaggedDays(minutes) ==
  Peaks(UNION {LET series == SeriesOf(minutes, u)
                   spans == HourSpans(series)
               IN  {[key |-> <<u, Day(MinuteOf(series[i]))>>, value |-> spans[i]] :
                      i \in {j \in DOMAIN series : spans[j] > HourEdits}}
                 : u \in UidsIn(minutes)})

-----------------------------------------------------------------------------
(* Filters 4 and 5: the sliding accumulators *)

EmptyWindow == [objects |-> <<>>, total |-> 0, rows |-> <<>>, counts |-> NoRows]
CountsIn(rows) == SumFunction([i \in DOMAIN rows |-> rows[i].count])

\* add_object, then add_cell or add_tag, then evict. A key whose count falls to
\* nothing is erased from the counts.
Slid(w, minute, objects, rows) ==
  LET now(s) == At(s, {i \in DOMAIN s : MinuteOf(s[i]) = minute})
      all == w.rows \o now(rows)
      queue == w.objects \o now(objects)
      kept(s) == At(s, {i \in DOMAIN s : ~Gone(s[i], minute)})
      gone(s) == At(s, {i \in DOMAIN s : Gone(s[i], minute)})
      of(s, k) == CountsIn(At(s, {i \in DOMAIN s : s[i].key[3] = k}))
      left(k) == CountOf(w.counts, k) + of(now(rows), k) - of(gone(all), k)
      keys == DOMAIN w.counts \cup {all[i].key[3] : i \in DOMAIN all}
  IN  [objects |-> kept(queue),
       total |-> w.total + CountsIn(now(objects)) - CountsIn(gone(queue)),
       rows |-> kept(all),
       counts |-> [k \in {l \in keys : left(l) > 0} |-> left(k)]]

\* cell_spreads and tag_coverages: one window for each minute of either series.
Windows(objects, rows) ==
  LET minutes == {MinuteOf(objects[i]) : i \in DOMAIN objects}
                   \cup {MinuteOf(rows[i]) : i \in DOMAIN rows}
      order == InOrder(minutes, LAMBDA a, b : a < b)
      slide[i \in 0..Len(order)] ==
        IF i = 0 THEN EmptyWindow ELSE Slid(slide[i - 1], order[i], objects, rows)
  IN  [i \in DOMAIN order |->
         [minute |-> order[i], total |-> slide[i].total, counts |-> slide[i].counts]]

\* A uid must be in both stores to be looked at.
WindowsOf(keyed, minutes) ==
  UNION {LET w == Windows(SeriesOf(minutes, u), SeriesOf(keyed, u))
         IN  {[key |-> <<u, Day(w[i].minute)>>, at |-> w[i]] : i \in DOMAIN w}
           : u \in UidsIn(keyed) \cap UidsIn(minutes)}

Spread(w) == Cardinality(DOMAIN w.counts) * CellArea
IsSpread(w) ==
  /\ w.total >= SpreadEdits
  /\ Cardinality(DOMAIN w.counts) >= SpreadCells
  /\ Spread(w) >= SpreadArea

FlaggedCellDays(cells, minutes) ==
  Peaks({[key |-> e.key, value |-> Spread(e.at)] :
           e \in {f \in WindowsOf(cells, minutes) : IsSpread(f.at)}})

Covering(w) ==
  IF w.total < CoverEdits THEN {}
  ELSE {t \in DOMAIN w.counts : w.counts[t] * 10 > w.total * CoverTenths}

FlaggedTagDays(tags, minutes) ==
  LET flagged == {e \in WindowsOf(tags, minutes) : Covering(e.at) # {}}
  IN  [k \in {e.key : e \in flagged} |->
         UNION {Covering(e.at) : e \in {f \in flagged : f.key = k}}]

-----------------------------------------------------------------------------
(* Name-language days: any event flags the day, the column counts them all *)

FlaggedLangDays(langs) ==
  LET rows == Contents(langs)
  IN  [d \in {<<k[1], k[2]>> : k \in DOMAIN rows} |->
         SumFunction([k \in {l \in DOMAIN rows : <<l[1], l[2]>> = d} |-> rows[k]])]

=============================================================================
