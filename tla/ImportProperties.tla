-------------------------- MODULE ImportProperties --------------------------
(***************************************************************************)
(* What the import promises: cells looked up as documented, changes counted *)
(* once, and counts that survive an interrupted or resumed import.          *)
(***************************************************************************)
EXTENDS Import

-----------------------------------------------------------------------------
(* The node pass *)

\* The last position the input gives a node up to a day.
Located(node, day) ==
  {i \in DOMAIN nodeFile : /\ nodeFile[i].id = node /\ nodeFile[i].day <= day
                           /\ nodeFile[i].cell # NoCell}
LastOf(S) == CHOOSE i \in S : \A j \in S : j <= i
CellAt(node, day) ==
  IF Located(node, day) = {} THEN NoCell ELSE nodeFile[LastOf(Located(node, day))].cell

\* A deletion is counted where its own node last was, never where another
\* node's version, the one read before it, was; a node without a known
\* position is not counted (node_cache_handler.hpp).
CellOfVersion(i) ==
  LET before == {j \in 1..i : nodeFile[j].id = nodeFile[i].id /\ nodeFile[j].cell # NoCell}
  IN  IF before = {} THEN NoCell ELSE nodeFile[LastOf(before)].cell
DeletionsCountedInPlace ==
  phase = "nodes" =>
    \A k \in Keys : nodeCounts[k] =
      Cardinality({i \in 1..nodePos : CellOfVersion(i) = k[1] /\ nodeFile[i].day = k[2]})

\* The finished cache answers, for every node and day, with the node's last
\* position up to that day, also where a node's records span two blocks or a
\* day holds several versions; its records ascend by node and day.
CacheIsTheHistory ==
  (Readable(cache) /\ "nodes" \in staged) =>
    LET all == 0..(Records(cache) - 1)
        upTo(n, d) == {i \in all : Record(cache, i).node = n /\ Record(cache, i).day <= d}
    IN  /\ \A i, j \in all : i < j =>
             \/ Record(cache, i).node < Record(cache, j).node
             \/ /\ Record(cache, i).node = Record(cache, j).node
                /\ Record(cache, i).day < Record(cache, j).day
        /\ \A v \in {nodeFile[i].id : i \in DOMAIN nodeFile}, d \in Days :
             CellAt(v, d) = IF upTo(v, d) = {} THEN NoCell
                            ELSE Record(cache, LastOf(upTo(v, d))).cell

-----------------------------------------------------------------------------
(* The way pass *)

\* The documented position of a ref.
DocCell(r) == CellAt(r.node, r.day)

Resolving == phase = "ways" /\ refs # <<>> /\ "nodes" \in staged

\* A batch's sweep never gives a ref a cell that is not the node's position on
\* the way's day, and it leaves out a position only if an earlier day of the
\* same batch needed the node too, with no newer record in between.
NeverAWrongCell ==
  Resolving =>
    LET order == Sorted(refs)
        answer == Sweep(order)
    IN  \A i \in DOMAIN refs :
          \/ answer[i].cell = DocCell(order[i])
          \/ /\ answer[i].cell = NoCell
             /\ \E j \in 1..(i - 1) : /\ order[j].node = order[i].node
                                      /\ order[j].day < order[i].day
                                      /\ DocCell(order[j]) = DocCell(order[i])

\* "A node's position is its last cache record with day <= the way's day."
LookupIsLastRecord ==
  Resolving => LET order == Sorted(refs)
               IN  \A i \in DOMAIN refs : Sweep(order)[i].cell = DocCell(order[i])

\* The documented counts: a visible version in the cells of its nodes on its
\* day, a deletion in those of the last version of its way with nodes, and in
\* none without one ("Deleted way with no previously known geometry | Skipped").
Geometry(i) == {CellAt(wayFile[i].nodes[n], wayFile[i].day) : n \in DOMAIN wayFile[i].nodes}
               \ {NoCell}
IsRendered(i) == wayFile[i].visible /\ wayFile[i].nodes # <<>>
RenderedUpTo(i) == {j \in 1..i : IsRendered(j)}
OwnRendered(i) == {j \in RenderedUpTo(i) : wayFile[j].id = wayFile[i].id}
LastKnown(S) == IF S = {} THEN {} ELSE Geometry(LastOf(S))
DocGeometry(i) == IF wayFile[i].visible THEN Geometry(i) ELSE LastKnown(OwnRendered(i))
DocCount(k) ==
  Cardinality({i \in DOMAIN wayFile : wayFile[i].day = k[2] /\ k[1] \in DocGeometry(i)})

\* Deletions of a way without such a version, counted where the way before it was.
IsOrphan(i) == ~wayFile[i].visible /\ OwnRendered(i) = {}
Misplaced(k) ==
  Cardinality({i \in DOMAIN wayFile : /\ IsOrphan(i) /\ wayFile[i].day = k[2]
                                      /\ k[1] \in LastKnown(RenderedUpTo(i))})

\* No node is needed on two days.
OneDayPerNode ==
  \A i, j \in DOMAIN wayFile :
    wayFile[i].day # wayFile[j].day =>
      {wayFile[i].nodes[n] : n \in DOMAIN wayFile[i].nodes} \cap
      {wayFile[j].nodes[n] : n \in DOMAIN wayFile[j].nodes} = {}

WaysRead == phase = "ways" /\ WayPassDone /\ "nodes" \in staged

\* Of every file, wherever the batches end and in whichever batch a deletion
\* comes, the pass counts what is documented, or less where a node is needed on
\* two days, and nothing else but the orphan deletions, each at the geometry
\* last rendered: in the batch, carried over its end, or none.
WayCountsAsDocumented ==
  WaysRead => \A k \in Keys :
    /\ wayCounts[k] <= DocCount(k) + Misplaced(k)
    /\ OneDayPerNode => wayCounts[k] = DocCount(k) + Misplaced(k)

\* "Deleted way with no previously known geometry | Skipped" (HOW_IT_WORKS.md):
\* nothing is counted beyond the documented changes.
OrphanDeletionsSkipped == WaysRead => \A k \in Keys : wayCounts[k] <= DocCount(k)

-----------------------------------------------------------------------------
(* The sort pass *)

\* What the two passes staged for a year.
Truth(y) == Plus(Of(nodeCounts, y), Of(wayCounts, y))

BothStaged == {"nodes", "ways"} \subseteq staged
DataIsTruth(y) == changes[y].data = (IF Truth(y) = NoCounts THEN Absent ELSE Truth(y))

\* An import is exact, whatever crashed processes left behind, and also when it
\* is resumed pass by pass: the sort pass ends with every change in
\* data.parquet once, and no staging. Not so if a crash left a merged year with
\* one of its staging files, or the way pass ran over merged years: see
\* MergeIsIdempotent and FixUpKeepsNodeCounts.
ImportIsExact ==
  [][(EndSort /\ BothStaged /\ ~fixedUp /\ ~halfRemoved) =>
       \A y \in Years : Unmerged(y) = {} /\ DataIsTruth(y)]_vars

\* "Idempotent: an existing data.parquet supplies the merged total of any count
\* whose staging file is already gone" (HOW_IT_WORKS.md): merging again what a
\* crash left of a merged year gives the year's counts.
MergeIsIdempotent ==
  (BothStaged /\ ~fixedUp) => \A y \in Years : Unmerged(y) = {} => DataIsTruth(y)

\* "A way-only fix-up after a completed run re-runs --pass 2 ... then --pass 3,
\* sourcing node counts from the existing data.parquet" (README.md).
FixUpKeepsNodeCounts ==
  (BothStaged /\ ~halfRemoved) => \A y \in Years : Unmerged(y) = {} => DataIsTruth(y)

\* Once both passes staged their counts, every change stays counted somewhere
\* a merge reads, whatever crashes, removals and resumed passes follow.
NothingIsLost ==
  (BothStaged /\ phase # "ways") =>
    \A y \in Years : \A k \in Keys :
      Truth(y)[k] <= (IF Unmerged(y) = {} THEN Source(y, "data") ELSE Merged(y))[k]
=============================================================================
