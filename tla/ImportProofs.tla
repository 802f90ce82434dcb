---------------------------- MODULE ImportProofs ----------------------------
(***************************************************************************)
(* Theorems about the import, for every history file, size of blocks and   *)
(* of batches, and every sequence of processes and crashes: nothing that   *)
(* was staged is lost, a resumed import is exact, and the passes count and *)
(* look up what the file says.                                             *)
(***************************************************************************)
EXTENDS ImportProperties, DataInduction

-----------------------------------------------------------------------------
(* Types *)

Counts == [Keys -> Nat]
Refs == [node : Int, day : Days, slot : Nat]
Slots == [day : Days, deletions : Seq(Days)]

InputTypes ==
  IsNodeFile(nodeFile) /\ wayFile \in Seq(WayVersions) /\ batchRefs \in Nat \ {0}

NodeTypes ==
  /\ nodePos \in Nat
  /\ lastCell \in Cells \cup {NoCell}
  /\ blocks \in CacheFiles /\ buffer \in Seq(CacheRecords)
  /\ pending \in Seq(CacheRecords) /\ Len(pending) <= 1
  /\ nodeCounts \in Counts

WayTypes ==
  /\ wayPos \in Nat
  /\ refs \in Seq(Refs) /\ slots \in Seq(Slots)
  /\ wayCounts \in Counts

FileTypes ==
  /\ cache \in CacheFiles \cup {Absent, Torn}
  /\ changes \in [Years -> [nodes : Counts \cup {Absent, Torn},
                            ways  : Counts \cup {Absent, Torn},
                            data  : Counts \cup {Absent}]]

RunTypes ==
  /\ phase \in {"idle", "nodes", "ways", "sort"}
  /\ staged \subseteq {"nodes", "ways", "sort"}
  /\ todo \subseteq Years
  /\ removing \in Seq([year : Years, kind : {"nodes", "ways"}])
  /\ removing # <<>> => phase = "sort"
  /\ phase = "nodes" => staged = {}
  /\ phase = "ways" => "ways" \notin staged

Types == InputTypes /\ NodeTypes /\ WayTypes /\ FileTypes /\ RunTypes

LEMMA NoCountsCount == NoCounts \in Counts /\ \A y : Of(NoCounts, y) = NoCounts
BY DEF NoCounts, Counts, Of, Keys

LEMMA OfCounts ==
  ASSUME NEW c \in Counts, NEW y PROVE Of(c, y) \in Counts
BY DEF Counts, Of

LEMMA PlusCounts ==
  ASSUME NEW c \in Counts, NEW d \in Counts
  PROVE  /\ Plus(c, d) \in Counts
         /\ \A k \in Keys : Plus(c, d)[k] = c[k] + d[k]
BY DEF Counts, Plus

\* Counting one more.
LEMMA CountedCounts ==
  ASSUME NEW c \in Counts, NEW k \in Keys PROVE Counted(c, k) \in Counts
BY DEF Counts, Counted

LEMMA BatchCountsCount ==
  ASSUME NEW ways \in Seq(Slots), NEW rendered, wayFile \in Seq(WayVersions)
  PROVE  BatchCounts(ways, rendered) \in Counts
<1> SUFFICES ASSUME NEW k \in Keys PROVE BatchCounts(ways, rendered)[k] \in Nat
  BY DEF BatchCounts, Counts
<1> DEFINE here == {s \in DOMAIN ways : k[1] \in rendered[s]}
           V == {s \in here : ways[s].day = k[2]}
           D == {d \in here \X (1..Len(wayFile)) :
                   /\ d[2] \in DOMAIN ways[d[1]].deletions
                   /\ ways[d[1]].deletions[d[2]] = k[2]}
<1>1. BatchCounts(ways, rendered)[k] = Cardinality(V) + Cardinality(D)
  BY DEF BatchCounts
<1>2. IsFiniteSet(1..Len(ways)) /\ IsFiniteSet(1..Len(wayFile))
  BY FS_Interval, Len(ways) \in Int, Len(wayFile) \in Int, 1 \in Int
<1>3. IsFiniteSet(here)
  <2>1. here \subseteq 1..Len(ways)
    OBVIOUS
  <2>. QED BY <1>2, <2>1, FS_Subset
<1>4. IsFiniteSet(here \X (1..Len(wayFile)))
  BY <1>2, <1>3, FS_Product
<1>5. IsFiniteSet(V)
  BY <1>3, FS_Subset
<1>6. IsFiniteSet(D)
  <2>1. D \subseteq here \X (1..Len(wayFile))
    OBVIOUS
  <2>. QED BY <1>4, <2>1, FS_Subset
<1>7. Cardinality(V) \in Nat /\ Cardinality(D) \in Nat
  BY <1>5, <1>6, FS_CardinalityType
<1>. QED BY <1>1, <1>7

LEMMA TypesInit == Init => Types
<1> SUFFICES ASSUME Init PROVE Types
  OBVIOUS
<1>1. PICK i \in Inputs : /\ nodeFile = i.nodes /\ wayFile = i.ways /\ batchRefs = i.batch
  BY DEF Init
<1>2. InputTypes
  BY <1>1, InputsAreFiles DEF InputTypes
<1>3. NodeTypes
  BY <1>2, NoCountsCount DEF Init, NodeTypes, CacheFiles, InputTypes, IsNodeFile
<1>4. WayTypes
  BY NoCountsCount DEF Init, WayTypes
<1>5. FileTypes
  BY DEF Init, FileTypes, NoYear
<1>6. RunTypes
  BY DEF Init, RunTypes
<1>. QED BY <1>2, <1>3, <1>4, <1>5, <1>6 DEF Types

LEMMA FilledRecords ==
  ASSUME NodeTypes PROVE Filled \in Seq(CacheRecords)
BY DEF NodeTypes, Filled

LEMMA FlushPendingTypes ==
  ASSUME NodeTypes, FlushPending
  PROVE  blocks' \in CacheFiles /\ buffer' \in Seq(CacheRecords)
<1>1. Filled \in Seq(CacheRecords)
  BY FilledRecords
<1>2. CASE Len(Filled) = BlockSize
  <2> DEFINE T == Seq(CacheRecords)
  <2>1. blocks \in Seq(T) /\ Filled \in T
    BY <1>1 DEF NodeTypes, CacheFiles
  <2> HIDE DEF T
  <2>2. Append(blocks, Filled) \in Seq(T)
    BY <2>1
  <2>3. blocks' \in CacheFiles
    BY <1>2, <2>2 DEF FlushPending, CacheFiles, T
  <2>4. buffer' \in Seq(CacheRecords)
    BY <1>2 DEF FlushPending
  <2>. QED BY <2>3, <2>4
<1>3. CASE Len(Filled) # BlockSize
  BY <1>1, <1>3 DEF FlushPending, NodeTypes, CacheFiles
<1>. QED BY <1>2, <1>3

\* The version read is one of the file's.
LEMMA VersionTypes ==
  ASSUME InputTypes, NodeTypes, MoreNodes
  PROVE  /\ Version \in NodeVersions /\ nodePos + 1 \in DOMAIN nodeFile
         /\ Version.cell # NoCell => RecordOf(Version) \in CacheRecords
<1>1. nodePos + 1 \in 1..Len(nodeFile) /\ nodeFile \in Seq(NodeVersions)
  BY DEF InputTypes, NodeTypes, MoreNodes, IsNodeFile
<1>2. Version \in NodeVersions
  BY <1>1 DEF Version
<1>. QED BY <1>1, <1>2 DEF NodeVersions, RecordOf, CacheRecords

LEMMA ReadNodeTypes ==
  ASSUME InputTypes, NodeTypes, ReadNode, UNCHANGED nodeFile PROVE NodeTypes'
<1>1. MoreNodes /\ nodePos' = nodePos + 1
  BY DEF ReadNode, ReadLocated, ReadDeleted
<1>2. Version \in NodeVersions /\ nodePos' \in Nat
  BY <1>1, VersionTypes DEF NodeTypes
<1>3. CASE ReadLocated
  <2>1. RecordOf(Version) \in CacheRecords /\ Version.cell \in Cells /\ Version.day \in Days
    BY <1>1, <1>2, <1>3, VersionTypes DEF ReadLocated, NodeVersions
  <2>2. nodeCounts' \in Counts
    <3>1. <<Version.cell, Version.day>> \in Keys
      BY <2>1 DEF Keys
    <3>. QED BY <1>3, <3>1, CountedCounts DEF ReadLocated, NodeTypes
  <2>3. blocks' \in CacheFiles /\ buffer' \in Seq(CacheRecords)
    BY <1>3, FlushPendingTypes DEF ReadLocated, Add, NodeTypes
  <2>4. pending' = <<RecordOf(Version)>>
    BY <1>3 DEF ReadLocated, Add
  <2>5. pending' \in Seq(CacheRecords) /\ Len(pending') = 1
    BY <2>1, <2>4
  <2>. QED BY <1>2, <1>3, <2>1, <2>2, <2>3, <2>5 DEF NodeTypes, ReadLocated
<1>4. CASE ReadDeleted
  <2>1. KnownCell \in Cells \cup {NoCell}
    BY DEF KnownCell, NodeTypes
  <2>2. nodeCounts' \in Counts
    <3>1. CASE KnownCell = NoCell
      BY <1>4, <3>1 DEF ReadDeleted, NodeTypes
    <3>2. CASE KnownCell # NoCell
      <4>1. <<KnownCell, Version.day>> \in Keys
        BY <1>2, <2>1, <3>2 DEF Keys, NodeVersions
      <4>. QED BY <1>4, <3>2, <4>1, CountedCounts DEF ReadDeleted, NodeTypes
    <3>. QED BY <3>1, <3>2
  <2>. QED BY <1>2, <1>4, <2>1, <2>2 DEF NodeTypes, ReadDeleted, cacheVars
<1>. QED BY <1>3, <1>4 DEF ReadNode

LEMMA FinishedTypes ==
  ASSUME NodeTypes PROVE Finished \in CacheFiles
BY FilledRecords DEF NodeTypes, Finished, CacheFiles

-----------------------------------------------------------------------------
(* The way pass takes each step from where it is: it is deterministic. *)

WayNow ==
  [pos |-> wayPos, refs |-> refs, slots |-> slots, carry |-> carry, counts |-> wayCounts]
WayStart ==
  [pos |-> 0, refs |-> <<>>, slots |-> <<>>, carry |-> {}, counts |-> NoCounts]

\* The refs of a version in a slot.
NewRefs(v, slot) ==
  [i \in DOMAIN v.nodes |-> [node |-> v.nodes[i], day |-> v.day, slot |-> slot]]

AfterVersion(w, v) ==
  IF v.visible
  THEN IF v.nodes = <<>> THEN [w EXCEPT !.pos = w.pos + 1]
       ELSE [w EXCEPT !.pos = w.pos + 1,
                      !.refs = w.refs \o NewRefs(v, Len(w.slots) + 1),
                      !.slots = Append(w.slots, [day |-> v.day, deletions |-> <<>>])]
  ELSE IF w.slots # <<>>
  THEN [w EXCEPT !.pos = w.pos + 1,
                 !.slots = [w.slots EXCEPT ![Len(w.slots)].deletions = Append(@, v.day)]]
  ELSE [w EXCEPT !.pos = w.pos + 1,
                 !.counts = [k \in Keys |->
                    w.counts[k] + (IF k[2] = v.day /\ k[1] \in UNION w.carry THEN 1 ELSE 0)]]

AfterFlush(w) ==
  LET rendered == Rendered(w.refs, w.slots)
  IN  [w EXCEPT !.refs = <<>>, !.slots = <<>>,
                !.carry = LastGeometry(rendered),
                !.counts = Plus(w.counts, BatchCounts(w.slots, rendered))]

AfterWay(w) ==
  IF w.pos < Len(wayFile) /\ ~(Len(w.refs) >= batchRefs)
  THEN AfterVersion(w, wayFile[w.pos + 1])
  ELSE IF w.slots # <<>> THEN AfterFlush(w) ELSE w

LEMMA ReadWayIsAfterWay ==
  ASSUME ReadWay PROVE WayNow' = AfterWay(WayNow)
<1>1. CASE ReadVisible
  BY <1>1 DEF ReadVisible, WayNow, AfterWay, AfterVersion, NewRefs, MoreWays, BatchIsFull, Way
<1>2. CASE ReadDeletionInBatch
  BY <1>2 DEF ReadDeletionInBatch, WayNow, AfterWay, AfterVersion, MoreWays, BatchIsFull, Way
<1>3. CASE ReadDeletionAfterBatch
  BY <1>3 DEF ReadDeletionAfterBatch, WayNow, AfterWay, AfterVersion, MoreWays, BatchIsFull, Way
<1>4. CASE EndBatch
  BY <1>4 DEF EndBatch, Flush, WayNow, AfterWay, AfterFlush, MoreWays, BatchIsFull
<1>. QED BY <1>1, <1>2, <1>3, <1>4 DEF ReadWay

WayShape(w) ==
  /\ w = [pos |-> w.pos, refs |-> w.refs, slots |-> w.slots, carry |-> w.carry,
          counts |-> w.counts]
  /\ w.pos \in Nat /\ w.refs \in Seq(Refs) /\ w.slots \in Seq(Slots)
  /\ w.counts \in Counts

LEMMA ShapeOf ==
  ASSUME NEW p \in Nat, NEW r \in Seq(Refs), NEW s \in Seq(Slots), NEW g, NEW c \in Counts
  PROVE  LET w == [pos |-> p, refs |-> r, slots |-> s, carry |-> g, counts |-> c]
         IN  WayShape(w) /\ w.counts = c
BY DEF WayShape

LEMMA NewRefsTypes ==
  ASSUME NEW v \in WayVersions, NEW slot \in Nat PROVE NewRefs(v, slot) \in Seq(Refs)
<1>1. v.nodes \in Seq(Int) /\ v.day \in Days
  BY DEF WayVersions
<1>2. /\ Len(v.nodes) \in Nat /\ DOMAIN v.nodes = 1..Len(v.nodes)
      /\ \A i \in 1..Len(v.nodes) : v.nodes[i] \in Int
  BY <1>1
<1> DEFINE L == Len(v.nodes)
<1>3. NewRefs(v, slot) = [i \in 1..L |-> [node |-> v.nodes[i], day |-> v.day, slot |-> slot]]
  BY <1>2 DEF NewRefs
<1>4. \A i \in 1..L : [node |-> v.nodes[i], day |-> v.day, slot |-> slot] \in Refs
  BY <1>1, <1>2 DEF Refs
<1>5. NewRefs(v, slot) \in [1..L -> Refs] /\ L \in Nat
  BY <1>2, <1>3, <1>4
<1> HIDE DEF L
<1>. QED BY <1>5

LEMMA NewDeletions ==
  ASSUME NEW ways, NEW L, NEW z
  PROVE  [ways EXCEPT ![L].deletions = z] = [ways EXCEPT ![L] = [ways[L] EXCEPT !.deletions = z]]
OBVIOUS

LEMMA SlotOf ==
  ASSUME NEW s \in Slots, NEW z \in Seq(Days) PROVE [s EXCEPT !.deletions = z] \in Slots
BY DEF Slots

LEMMA DeletionTypes ==
  ASSUME NEW ways \in Seq(Slots), ways # <<>>, NEW d \in Days
  PROVE  [ways EXCEPT ![Len(ways)].deletions = Append(@, d)] \in Seq(Slots)
<1> DEFINE L == Len(ways)
           z == Append(ways[L].deletions, d)
           s == [ways[L] EXCEPT !.deletions = z]
<1>1. L \in 1..L /\ ways[L] \in Slots /\ L \in Nat /\ ways \in [1..L -> Slots]
  OBVIOUS
<1>2. z \in Seq(Days)
  BY <1>1 DEF Slots
<1>3. [ways EXCEPT ![Len(ways)].deletions = Append(@, d)] = [ways EXCEPT ![L].deletions = z]
  OBVIOUS
<1> HIDE DEF L, z
<1>4. s \in Slots
  BY <1>1, <1>2, SlotOf
<1>5. [ways EXCEPT ![L].deletions = z] = [ways EXCEPT ![L] = s]
  BY NewDeletions
<1> HIDE DEF s
<1>6. [ways EXCEPT ![L] = s] \in [1..L -> Slots]
  BY <1>1, <1>4
<1>7. [ways EXCEPT ![L] = s] \in Seq(Slots)
  BY <1>1, <1>6
<1>. QED BY <1>3, <1>5, <1>7

\* A step of the way pass keeps its types and takes no count back.
LEMMA AfterWayTypes ==
  ASSUME InputTypes, NEW w, WayShape(w)
  PROVE  WayShape(AfterWay(w)) /\ \A k \in Keys : w.counts[k] <= AfterWay(w).counts[k]
<1> DEFINE n == AfterWay(w)
           v == wayFile[w.pos + 1]
<1>0. /\ w = [pos |-> w.pos, refs |-> w.refs, slots |-> w.slots, carry |-> w.carry,
              counts |-> w.counts]
      /\ w.pos \in Nat /\ w.refs \in Seq(Refs) /\ w.slots \in Seq(Slots)
      /\ w.counts \in Counts /\ \A k \in Keys : w.counts[k] \in Nat
  BY DEF WayShape, Counts
<1>1. CASE w.pos < Len(wayFile) /\ ~(Len(w.refs) >= batchRefs)
  <2>1. n = AfterVersion(w, v)
    BY <1>1 DEF AfterWay
  <2>2. v \in WayVersions /\ v.day \in Days
    <3>1. w.pos + 1 \in 1..Len(wayFile) /\ wayFile \in Seq(WayVersions)
      BY <1>0, <1>1 DEF InputTypes
    <3>2. v \in WayVersions
      BY <3>1
    <3>. QED BY <3>2 DEF WayVersions
  <2> HIDE DEF v
  <2>3. CASE v.visible /\ v.nodes = <<>>
    <3>1. n = [pos |-> w.pos + 1, refs |-> w.refs, slots |-> w.slots, carry |-> w.carry,
               counts |-> w.counts]
      BY <1>0, <2>1, <2>3 DEF AfterVersion
    <3> HIDE DEF n
    <3>2. WayShape(n) /\ n.counts = w.counts
      BY <1>0, <3>1, w.pos + 1 \in Nat, ShapeOf
    <3>. QED BY <1>0, <3>2 DEF n
  <2>4. CASE v.visible /\ v.nodes # <<>>
    <3> DEFINE s == [day |-> v.day, deletions |-> <<>>]
               r == NewRefs(v, Len(w.slots) + 1)
    <3>1. n = [pos |-> w.pos + 1, refs |-> w.refs \o r, slots |-> Append(w.slots, s),
               carry |-> w.carry, counts |-> w.counts]
      BY <1>0, <2>1, <2>4 DEF AfterVersion
    <3>2. s \in Slots
      BY <2>2 DEF Slots
    <3>3. r \in Seq(Refs)
      BY <1>0, <2>2, NewRefsTypes, Len(w.slots) + 1 \in Nat
    <3> HIDE DEF n, s, r
    <3>4. Append(w.slots, s) \in Seq(Slots) /\ w.refs \o r \in Seq(Refs) /\ w.pos + 1 \in Nat
      BY <1>0, <3>2, <3>3
    <3>5. WayShape(n) /\ n.counts = w.counts
      BY <1>0, <3>1, <3>4, ShapeOf
    <3>. QED BY <1>0, <3>5 DEF n
  <2>5. CASE ~v.visible /\ w.slots # <<>>
    <3> DEFINE s == [w.slots EXCEPT ![Len(w.slots)].deletions = Append(@, v.day)]
    <3>1. n = [pos |-> w.pos + 1, refs |-> w.refs, slots |-> s, carry |-> w.carry,
               counts |-> w.counts]
      BY <1>0, <2>1, <2>5 DEF AfterVersion
    <3>2. s \in Seq(Slots) /\ w.pos + 1 \in Nat
      BY <1>0, <2>2, <2>5, DeletionTypes
    <3> HIDE DEF n, s
    <3>3. WayShape(n) /\ n.counts = w.counts
      BY <1>0, <3>1, <3>2, ShapeOf
    <3>. QED BY <1>0, <3>3 DEF n
  <2>6. CASE ~v.visible /\ ~(w.slots # <<>>)
    <3> DEFINE c == [k \in Keys |->
                       w.counts[k] + (IF k[2] = v.day /\ k[1] \in UNION w.carry THEN 1 ELSE 0)]
    <3>1. n = [pos |-> w.pos + 1, refs |-> w.refs, slots |-> w.slots, carry |-> w.carry,
               counts |-> c]
      BY <1>0, <2>1, <2>6 DEF AfterVersion
    <3>2. c \in Counts /\ (\A k \in Keys : w.counts[k] <= c[k]) /\ w.pos + 1 \in Nat
      BY <1>0 DEF Counts
    <3> HIDE DEF n, c
    <3>3. WayShape(n) /\ n.counts = c
      BY <1>0, <3>1, <3>2, ShapeOf
    <3>. QED BY <3>2, <3>3 DEF n
  <2>. QED BY <2>3, <2>4, <2>5, <2>6
<1>2. CASE ~(w.pos < Len(wayFile) /\ ~(Len(w.refs) >= batchRefs)) /\ w.slots # <<>>
  <2> DEFINE rendered == Rendered(w.refs, w.slots)
             c == BatchCounts(w.slots, rendered)
  <2>1. n = AfterFlush(w)
    BY <1>2 DEF AfterWay
  <2>2. n = [pos |-> w.pos, refs |-> <<>>, slots |-> <<>>, carry |-> LastGeometry(rendered),
             counts |-> Plus(w.counts, c)]
    BY <1>0, <2>1 DEF AfterFlush
  <2>3. c \in Counts
    BY <1>0, BatchCountsCount DEF InputTypes
  <2> HIDE DEF n, c, rendered
  <2>4. Plus(w.counts, c) \in Counts /\ \A k \in Keys : w.counts[k] <= Plus(w.counts, c)[k]
    <3>1. \A k \in Keys : c[k] \in Nat
      BY <2>3 DEF Counts
    <3>. QED BY <1>0, <2>3, <3>1, PlusCounts
  <2>5. WayShape(n) /\ n.counts = Plus(w.counts, c)
    BY <1>0, <2>2, <2>4, ShapeOf, <<>> \in Seq(Refs), <<>> \in Seq(Slots)
  <2>. QED BY <2>4, <2>5 DEF n
<1>3. CASE ~(w.pos < Len(wayFile) /\ ~(Len(w.refs) >= batchRefs)) /\ ~(w.slots # <<>>)
  <2>1. n = w
    BY <1>3 DEF AfterWay
  <2>. QED BY <1>0, <2>1
<1>. QED BY <1>1, <1>2, <1>3

LEMMA ReadWayTypes ==
  ASSUME InputTypes, WayTypes, ReadWay, UNCHANGED <<wayFile, batchRefs, cache>> PROVE WayTypes'
<1>1. WayShape(WayNow)
  BY DEF WayTypes, WayShape, WayNow
<1>2. WayShape(WayNow')
  BY <1>1, ReadWayIsAfterWay, AfterWayTypes
<1>. QED BY <1>2 DEF WayTypes, WayShape, WayNow

LEMMA StagingTypes ==
  ASSUME NEW c \in Counts, NEW y, NEW old \in Counts \cup {Absent, Torn}
  PROVE  Staging(c, y, old) \in Counts \cup {Absent, Torn}
BY OfCounts DEF Staging

LEMMA SourceTypes ==
  ASSUME FileTypes, NEW y \in Years, NEW kind \in {"nodes", "ways"}, changes[y][kind] # Torn
  PROVE  Source(y, kind) \in Counts
BY NoCountsCount DEF FileTypes, Source

LEMMA MergedTypes ==
  ASSUME FileTypes, NEW y \in Years, \A kind \in Unmerged(y) : changes[y][kind] # Torn
  PROVE  Source(y, "nodes") \in Counts /\ Source(y, "ways") \in Counts /\ Merged(y) \in Counts
<1>1. \A kind \in {"nodes", "ways"} : changes[y][kind] # Torn
  BY FilesAreThere DEF Unmerged
<1>2. Source(y, "nodes") \in Counts /\ Source(y, "ways") \in Counts
  BY <1>1, SourceTypes
<1>. QED BY <1>2, PlusCounts DEF Merged

LEMMA ToRemoveTypes ==
  ASSUME NEW y \in Years
  PROVE  LET r == ToRemove(y, "nodes") \o ToRemove(y, "ways")
         IN  /\ r \in Seq([year : Years, kind : {"nodes", "ways"}])
             /\ \A i \in DOMAIN r : r[i].year = y
<1> DEFINE R == [year : Years, kind : {"nodes", "ways"}]
           n == [year |-> y, kind |-> "nodes"]
           w == [year |-> y, kind |-> "ways"]
<1>1. n \in R /\ w \in R /\ n.year = y /\ w.year = y
  OBVIOUS
<1>2. /\ ToRemove(y, "nodes") \in {<<>>, <<n>>}
      /\ ToRemove(y, "ways") \in {<<>>, <<w>>}
  BY DEF ToRemove
<1> HIDE DEF R, n, w
<1> DEFINE OK(r) == r \in Seq(R) /\ \A i \in DOMAIN r : r[i].year = y
<1>3. OK(<<>>) /\ OK(<<n>>) /\ OK(<<w>>)
  BY <1>1
<1> HIDE DEF OK
<1>4. OK(ToRemove(y, "nodes")) /\ OK(ToRemove(y, "ways"))
  BY <1>2, <1>3
<1>5. /\ ToRemove(y, "nodes") \in Seq(R) /\ ToRemove(y, "ways") \in Seq(R)
      /\ \A i \in DOMAIN ToRemove(y, "nodes") : ToRemove(y, "nodes")[i].year = y
      /\ \A i \in DOMAIN ToRemove(y, "ways") : ToRemove(y, "ways")[i].year = y
  BY <1>4 DEF OK
<1>. QED BY <1>5 DEF R

LEMMA TypesStep == ASSUME Types, [Next]_vars PROVE Types'
<1>. USE DEF Types, inputs
<1>1. ASSUME NEW verb \in Verbs, Start(verb) PROVE Types'
  BY <1>1 DEF Start, InputTypes, NodeTypes, WayTypes, FileTypes, RunTypes, nodeVars, wayVars, history
<1>2. CASE NewFile
  <2>1. InputTypes'
    BY <1>2, InputsAreFiles DEF NewFile, InputTypes
  <2>. QED BY <1>2, <2>1 DEF NewFile, NodeTypes, WayTypes, FileTypes, RunTypes, nodeVars, wayVars, io
<1>3. CASE BeginNodes
  BY <1>3, NoCountsCount DEF BeginNodes, NodePassStart, InputTypes, NodeTypes, WayTypes, FileTypes, RunTypes,
      wayVars, NoYear, CacheFiles
<1>4. CASE StepNodes
  <2>1. NodeTypes'
    BY <1>4, ReadNodeTypes DEF StepNodes
  <2>. QED BY <1>4, <2>1 DEF StepNodes, InputTypes, WayTypes, FileTypes, RunTypes, wayVars, io, history
<1>5. CASE EndNodes
  BY <1>5, FinishedTypes, StagingTypes
     DEF EndNodes, InputTypes, NodeTypes, WayTypes, FileTypes, RunTypes, wayVars, nodeVars
<1>6. CASE FailNodes
  BY <1>6, NoCountsCount DEF FailNodes, End, InputTypes, NodeTypes, WayTypes, FileTypes, RunTypes, wayVars, nodeVars,
       history, CacheFiles
<1>7. CASE BeginWays
  BY <1>7, NoCountsCount DEF BeginWays, WayPassStart, InputTypes, NodeTypes, WayTypes, FileTypes, RunTypes, nodeVars
<1>8. CASE FailWays
  BY <1>8 DEF FailWays, End, InputTypes, NodeTypes, WayTypes, FileTypes, RunTypes, nodeVars, wayVars, history
<1>9. CASE StepWays
  <2>1. WayTypes'
    BY <1>9, ReadWayTypes DEF StepWays
  <2>. QED BY <1>9, <2>1 DEF StepWays, InputTypes, NodeTypes, FileTypes, RunTypes, nodeVars, io, history
<1>10. CASE EndWays
  BY <1>10, StagingTypes
     DEF EndWays, InputTypes, NodeTypes, WayTypes, FileTypes, RunTypes, wayVars, nodeVars
<1>11. CASE BeginSort
  BY <1>11 DEF BeginSort, InputTypes, NodeTypes, WayTypes, FileTypes, RunTypes, wayVars, nodeVars, history
<1>12. ASSUME NEW y \in Years, SkipYear(y) PROVE Types'
  BY <1>12 DEF SkipYear, InputTypes, NodeTypes, WayTypes, FileTypes, RunTypes, wayVars, nodeVars, history
<1>13. ASSUME NEW y \in Years, MergeYear(y) PROVE Types'
  <2>1. FileTypes'
    BY <1>13, MergedTypes DEF MergeYear, FileTypes
  <2>2. RunTypes'
    BY <1>13, ToRemoveTypes DEF MergeYear, RunTypes
  <2>. QED BY <1>13, <2>1, <2>2 DEF MergeYear, InputTypes, NodeTypes, WayTypes, wayVars, nodeVars
<1>14. ASSUME NEW y \in Years, FailSort(y) PROVE Types'
  BY <1>14 DEF FailSort, End, InputTypes, NodeTypes, WayTypes, FileTypes, RunTypes, wayVars, nodeVars, history
<1>15. CASE RemoveStaging
  <2>1. Head(removing) \in [year : Years, kind : {"nodes", "ways"}]
    <3> DEFINE R == [year : Years, kind : {"nodes", "ways"}]
    <3>1. removing \in Seq(R) /\ removing # <<>>
      BY <1>15 DEF RemoveStaging, RunTypes
    <3> HIDE DEF R
    <3>2. Head(removing) \in R
      BY <3>1
    <3>. QED BY <3>2 DEF R
  <2>2. FileTypes'
    BY <1>15, <2>1 DEF RemoveStaging, FileTypes
  <2>3. RunTypes'
    BY <1>15 DEF RemoveStaging, RunTypes, history
  <2>. QED BY <1>15, <2>2, <2>3 DEF RemoveStaging, InputTypes, NodeTypes, WayTypes, wayVars, nodeVars
<1>16. CASE EndSort
  BY <1>16 DEF EndSort, InputTypes, NodeTypes, WayTypes, FileTypes, RunTypes, wayVars, nodeVars, history
<1>17. CASE Crash
  <2>1. FileTypes'
    BY <1>17 DEF Crash, FileTypes, RunTypes, CacheFiles
  <2>. QED BY <1>17, <2>1 DEF Crash, End, InputTypes, NodeTypes, WayTypes, RunTypes, wayVars, nodeVars
<1>18. CASE UNCHANGED vars
  BY <1>18 DEF vars, InputTypes, NodeTypes, WayTypes, FileTypes, RunTypes, wayVars, nodeVars, io, history
<1>. QED BY <1>1, <1>2, <1>3, <1>4, <1>5, <1>6, <1>7, <1>8, <1>9, <1>10, <1>11, <1>12, <1>13, <1>14,
            <1>15, <1>16, <1>17, <1>18 DEF Next

-----------------------------------------------------------------------------
(* Runs of the way pass *)

\* f is what m steps of the way pass go through.
WayRun(f, m) == f = [n \in 0..m |-> IF n = 0 THEN WayStart ELSE AfterWay(f[n - 1])]

WayDone(w) == ~(w.pos < Len(wayFile)) /\ w.slots = <<>>

LEMMA WayRunSteps ==
  ASSUME NEW m \in Nat, NEW f, WayRun(f, m)
  PROVE  /\ f[0] = WayStart
         /\ \A n \in Nat : n < m => f[n + 1] = AfterWay(f[n])
<1>1. f[0] = WayStart
  BY DEF WayRun
<1>2. ASSUME NEW n \in Nat, n < m PROVE f[n + 1] = AfterWay(f[n])
  <2>1. n + 1 \in 0..m /\ n + 1 # 0 /\ (n + 1) - 1 = n
    BY <1>2
  <2>2. f[n + 1] = IF n + 1 = 0 THEN WayStart ELSE AfterWay(f[(n + 1) - 1])
    BY <2>1 DEF WayRun
  <2>. QED BY <2>1, <2>2
<1>. QED BY <1>1, <1>2

LEMMA WayRunStarts ==
  \E m \in Nat : \E f : WayRun(f, m) /\ f[m] = WayStart
<1> DEFINE f == [n \in 0..0 |-> WayStart]
<1>1. WayRun(f, 0) /\ f[0] = WayStart
  BY DEF WayRun
<1>. QED BY <1>1

LEMMA WayRunGoes ==
  ASSUME NEW m \in Nat, NEW f, WayRun(f, m)
  PROVE  \E g : WayRun(g, m + 1) /\ g[m + 1] = AfterWay(f[m])
<1> DEFINE next(n, w) == IF n = 0 THEN WayStart ELSE AfterWay(w)
           g == [n \in 0..(m + 1) |-> next(n, f[n - 1])]
<1>1. f = [n \in 0..m |-> next(n, f[n - 1])]
  BY DEF WayRun
<1>2. g[m + 1] = AfterWay(f[m])
  OBVIOUS
<1> HIDE DEF next
<1>3. \A n \in 0..m : g[n] = f[n]
  BY <1>1
<1>4. \A n \in 0..(m + 1) : next(n, g[n - 1]) = next(n, f[n - 1])
  <2> SUFFICES ASSUME NEW n \in 0..(m + 1) PROVE next(n, g[n - 1]) = next(n, f[n - 1])
    OBVIOUS
  <2>1. CASE n = 0
    BY <2>1 DEF next
  <2>2. CASE n # 0
    <3>1. n - 1 \in 0..m
      BY <2>2
    <3>. QED BY <1>3, <3>1
  <2>. QED BY <2>1, <2>2
<1>5. g = [n \in 0..(m + 1) |-> next(n, g[n - 1])]
  BY <1>4
<1>6. WayRun(g, m + 1)
  BY <1>5 DEF WayRun, next
<1>. QED BY <1>2, <1>6

LEMMA WayRunShapes ==
  ASSUME InputTypes, NEW m \in Nat, NEW f, WayRun(f, m)
  PROVE  \A n \in 0..m : WayShape(f[n])
<1> DEFINE S == {n \in Nat : n <= m => WayShape(f[n])}
<1>1. 0 \in S
  <2>1. WayShape(WayStart)
    BY NoCountsCount DEF WayShape, WayStart
  <2>. QED BY <2>1, WayRunSteps
<1>2. ASSUME NEW n \in S PROVE n + 1 \in S
  <2>1. n \in Nat
    OBVIOUS
  <2> SUFFICES ASSUME n + 1 <= m PROVE WayShape(f[n + 1])
    BY <2>1
  <2>2. f[n + 1] = AfterWay(f[n]) /\ WayShape(f[n])
    BY <2>1, WayRunSteps
  <2>. QED BY <2>2, AfterWayTypes
<1>3. Nat \subseteq S
  <2> HIDE DEF S
  <2>. QED BY <1>1, <1>2, NaturalsBySteps
<1>. QED BY <1>3

LEMMA ShapesCount ==
  ASSUME NEW w, WayShape(w), NEW k \in Keys PROVE w.counts[k] \in Nat
BY DEF WayShape, Counts

\* The way pass only counts on.
LEMMA WayRunGrows ==
  ASSUME InputTypes, NEW m \in Nat, NEW f, WayRun(f, m), NEW i \in 0..m, NEW k \in Keys
  PROVE  f[i].counts[k] <= f[m].counts[k]
<1> DEFINE S == {n \in Nat : i + n <= m => f[i].counts[k] <= f[i + n].counts[k]}
<1>0. \A n \in 0..m : f[n].counts[k] \in Nat
  BY WayRunShapes, ShapesCount
<1>1. 0 \in S
  BY <1>0
<1>2. ASSUME NEW n \in S PROVE n + 1 \in S
  <2>1. n \in Nat
    OBVIOUS
  <2> SUFFICES ASSUME i + (n + 1) <= m PROVE f[i].counts[k] <= f[i + (n + 1)].counts[k]
    BY <2>1
  <2>2. i + n \in 0..m /\ i + n < m /\ i + n \in Nat /\ i + (n + 1) = (i + n) + 1 /\ i + (n + 1) \in 0..m
    BY <2>1
  <2>3. f[(i + n) + 1] = AfterWay(f[i + n]) /\ WayShape(f[i + n])
    BY <2>2, WayRunSteps, WayRunShapes
  <2>4. f[i + n].counts[k] <= f[(i + n) + 1].counts[k]
    BY <2>3, AfterWayTypes
  <2>5. f[i].counts[k] <= f[i + n].counts[k]
    BY <2>1, <2>2
  <2>. QED BY <1>0, <2>2, <2>4, <2>5
<1>3. Nat \subseteq S
  <2> HIDE DEF S
  <2>. QED BY <1>1, <1>2, NaturalsBySteps
<1>4. m - i \in S /\ i + (m - i) = m
  BY <1>3
<1>. QED BY <1>4

LEMMA WayRunsAgree ==
  ASSUME NEW m \in Nat, NEW f, WayRun(f, m), NEW n \in Nat, NEW g, WayRun(g, n), m <= n
  PROVE  f[m] = g[m]
<1> DEFINE S == {i \in Nat : i <= m => f[i] = g[i]}
<1>1. 0 \in S
  BY WayRunSteps
<1>2. ASSUME NEW i \in S PROVE i + 1 \in S
  <2>1. i \in Nat
    OBVIOUS
  <2> SUFFICES ASSUME i + 1 <= m PROVE f[i + 1] = g[i + 1]
    BY <2>1
  <2>2. f[i + 1] = AfterWay(f[i])
    BY <2>1, WayRunSteps
  <2>3. g[i + 1] = AfterWay(g[i])
    BY <2>1, WayRunSteps
  <2>. QED BY <2>1, <2>2, <2>3
<1>3. Nat \subseteq S
  <2> HIDE DEF S
  <2>. QED BY <1>1, <1>2, NaturalsBySteps
<1>. QED BY <1>3

\* A finished way pass has counted whatever any run of it, however cut, did.
LEMMA WayRunEnds ==
  ASSUME InputTypes, NEW m \in Nat, NEW f, WayRun(f, m), WayDone(f[m]),
         NEW n \in Nat, NEW g, WayRun(g, n), NEW k \in Keys
  PROVE  g[n].counts[k] <= f[m].counts[k]
<1>1. CASE n <= m
  <2>1. g[n] = f[n]
    BY <1>1, WayRunsAgree
  <2>. QED BY <1>1, <2>1, WayRunGrows
<1>2. CASE m < n
  <2> DEFINE S == {i \in Nat : m + i <= n => g[m + i] = f[m]}
  <2>1. 0 \in S
    <3>1. f[m] = g[m]
      BY <1>2, WayRunsAgree
    <3>. QED BY <3>1
  <2>2. ASSUME NEW i \in S PROVE i + 1 \in S
    <3>1. i \in Nat
      OBVIOUS
    <3> SUFFICES ASSUME m + (i + 1) <= n PROVE g[m + (i + 1)] = f[m]
      BY <3>1
    <3>2. g[m + i] = f[m] /\ m + i \in Nat /\ m + i < n /\ m + (i + 1) = (m + i) + 1
      BY <3>1
    <3>3. g[(m + i) + 1] = AfterWay(g[m + i])
      BY <3>2, WayRunSteps
    <3>4. AfterWay(f[m]) = f[m]
      BY DEF AfterWay, WayDone
    <3>. QED BY <3>2, <3>3, <3>4
  <2>3. Nat \subseteq S
    <3> HIDE DEF S
    <3>. QED BY <2>1, <2>2, NaturalsBySteps
  <2>4. g[n] = f[m]
    <3>1. n - m \in Nat /\ m + (n - m) = n
      BY <1>2
    <3>2. n - m \in S
      BY <2>3, <3>1
    <3>. QED BY <3>1, <3>2
  <2>5. f[m].counts[k] \in Nat
    BY WayRunShapes, ShapesCount, m \in 0..m
  <2>. QED BY <2>4, <2>5
<1>. QED BY <1>1, <1>2

-----------------------------------------------------------------------------
(* What lies in changes/ *)

Leq(c, d) == \A k \in Keys : c[k] <= d[k]
Present(counts) == IF counts = NoCounts THEN Absent ELSE counts
Data(files) == IF files.data = Absent THEN NoCounts ELSE files.data

\* A year keeps what was staged: a count is in a staging file or in the data.
YearKept(files, n, w, both) ==
  /\ files.nodes \in {Absent, n}
  /\ files.nodes = Absent => Leq(n, Data(files))
  /\ both => /\ files.ways \in {Absent, w}
             /\ files.ways = Absent => Leq(w, Data(files))
             /\ files.nodes = Absent /\ files.ways = Absent => Leq(Plus(n, w), Data(files))

\* What may be removed is in the data.
YearCopied(files, n, w, both) ==
  Leq(n, Data(files)) /\ (both => Leq(Plus(n, w), Data(files)))

KeptInv ==
  "nodes" \in staged =>
    /\ \A y \in Years :
         YearKept(changes[y], Of(nodeCounts, y), Of(wayCounts, y), "ways" \in staged)
    /\ removing # <<>> =>
         LET y == removing[1].year
         IN  YearCopied(changes[y], Of(nodeCounts, y), Of(wayCounts, y), "ways" \in staged)

\* The sort pass removes the staging of the year it merged last.
Removal(y) == ToRemove(y, "nodes") \o ToRemove(y, "ways")
SortInv ==
  phase = "sort" =>
    IF removing = <<>> THEN \A y \in Years \ todo : Unmerged(y) = {}
    ELSE \E y \in Years \ todo : /\ removing = Removal(y)
                                 /\ \A z \in Years \ todo : z # y => Unmerged(z) = {}

\* A year as the passes staged it, and merged exactly. Only while its staging is
\* being removed it may have half of it.
Untouched(files, n, w) ==
  files.nodes = Present(n) /\ files.ways = Present(w) /\ files.data = Absent
MergedOnce(files, n, w, inRemoval) ==
  /\ files.data = Plus(n, w) /\ files.data # NoCounts
  /\ files.nodes \in {Absent, n} /\ files.ways \in {Absent, w}
  /\ inRemoval \/ (files.nodes = Absent <=> files.ways = Absent)
YearExact(files, n, w, inRemoval) ==
  \/ Untouched(files, n, w) /\ ~inRemoval
  \/ MergedOnce(files, n, w, inRemoval)
InRemoval(y) == removing # <<>> /\ removing[1].year = y

ExactInv ==
  ("nodes" \in staged /\ ~fixedUp) =>
    /\ phase = "ways" => "sort" \notin staged
    /\ removing # <<>> => "sort" \in staged
    /\ "sort" \notin staged =>
         \A y \in Years :
           /\ changes[y].nodes = Present(Of(nodeCounts, y)) /\ changes[y].data = Absent
           /\ "ways" \in staged => changes[y].ways = Present(Of(wayCounts, y))
    /\ ({"sort", "ways"} \subseteq staged /\ ~halfRemoved) =>
         \A y \in Years : YearExact(changes[y], Of(nodeCounts, y), Of(wayCounts, y), InRemoval(y))

\* Where a file of the way pass lies, a run of the pass has counts for it.
Covered(y) ==
  changes[y].ways # Absent =>
    \E m \in Nat : \E f : WayRun(f, m) /\ Of(f[m].counts, y) # NoCounts

WaysInv ==
  /\ phase = "nodes" => \A y \in Years : changes[y] = NoYear
  /\ phase = "ways" => \E m \in Nat : \E f : WayRun(f, m) /\ f[m] = WayNow
  /\ "nodes" \in staged => \A y \in Years : Covered(y)

LEMMA AfterWayStays ==
  ASSUME UNCHANGED <<wayFile, batchRefs, cache>>, NEW w PROVE AfterWay(w)' = AfterWay(w)
BY DEF AfterWay, AfterVersion, AfterFlush, Rendered, Sweep, Resolved, Beyond, BatchCounts

LEMMA WayRunStays ==
  ASSUME UNCHANGED <<wayFile, batchRefs, cache>>, NEW m, NEW f, WayRun(f, m) PROVE WayRun(f, m)'
BY AfterWayStays DEF WayRun

LEMMA CoveredStays ==
  ASSUME UNCHANGED <<wayFile, batchRefs, cache>>, NEW y, Covered(y),
         changes'[y].ways \in {Absent, changes[y].ways}
  PROVE  Covered(y)'
BY WayRunStays DEF Covered

LEMMA WaysInit == Init => WaysInv
BY DEF Init, WaysInv

\* What the passes see stays, and no file of the way pass comes up.
LEMMA WaysKept ==
  ASSUME WaysInv, UNCHANGED <<wayFile, batchRefs, cache>>,
         "nodes" \in staged' => "nodes" \in staged,
         phase' \notin {"nodes", "ways"},
         \A y \in Years : changes'[y].ways \in {Absent, changes[y].ways}
  PROVE  WaysInv'
BY CoveredStays DEF WaysInv

\* A file that the running way pass leaves behind is covered by its run.
LEMMA WayFilesCovered ==
  ASSUME WaysInv, phase = "ways", UNCHANGED <<wayFile, batchRefs, cache>>, "nodes" \in staged,
         NEW y \in Years,
         changes'[y].ways # Absent => Of(wayCounts, y) # NoCounts \/ changes[y].ways # Absent
  PROVE  Covered(y)'
<1>1. CASE Of(wayCounts, y) # NoCounts
  <2>1. PICK m \in Nat : \E f : WayRun(f, m) /\ f[m] = WayNow
    BY DEF WaysInv
  <2>2. PICK f : WayRun(f, m) /\ f[m] = WayNow
    BY <2>1
  <2>3. WayRun(f, m)' /\ Of(f[m].counts, y) # NoCounts
    BY <1>1, <2>2, WayRunStays DEF WayNow
  <2>. QED BY <2>3 DEF Covered
<1>2. CASE Of(wayCounts, y) = NoCounts /\ changes[y].ways # Absent
  <2>1. PICK m \in Nat : \E f : WayRun(f, m) /\ Of(f[m].counts, y) # NoCounts
    BY <1>2 DEF WaysInv, Covered
  <2>2. PICK f : WayRun(f, m) /\ Of(f[m].counts, y) # NoCounts
    BY <2>1
  <2>. QED BY <2>2, WayRunStays DEF Covered
<1>3. CASE Of(wayCounts, y) = NoCounts /\ changes[y].ways = Absent
  BY <1>3 DEF Covered
<1>. QED BY <1>1, <1>2, <1>3

LEMMA WaysStep == ASSUME Types, WaysInv, [Next]_vars PROVE WaysInv'
<1>. USE DEF inputs
<1>0. /\ phase = "nodes" => staged = {}
      /\ phase \in {"idle", "nodes", "ways", "sort"} /\ DOMAIN changes = Years
      /\ \A y \in Years : DOMAIN changes[y] = {"nodes", "ways", "data"}
  BY DEF Types, RunTypes, FileTypes
<1>1. ASSUME NEW verb \in Verbs, Start(verb) PROVE WaysInv'
  BY <1>1, WaysKept DEF Start, history
<1>2. CASE NewFile
  BY <1>2 DEF NewFile, WaysInv, io
<1>3. CASE BeginNodes
  BY <1>3 DEF BeginNodes, WaysInv, NoYear
<1>4. CASE StepNodes
  BY <1>0, <1>4 DEF StepNodes, WaysInv, io, history
<1>5. CASE EndNodes
  <2>1. \A y \in Years : changes'[y].ways = Absent
    BY <1>5 DEF EndNodes, WaysInv, NoYear
  <2>. QED BY <1>5, <2>1 DEF EndNodes, WaysInv, Covered
<1>6. CASE FailNodes
  BY <1>0, <1>6 DEF FailNodes, WaysInv, End, history
<1>7. CASE BeginWays
  <2>1. PICK m \in Nat : \E f : WayRun(f, m) /\ f[m] = WayStart
    BY WayRunStarts
  <2>2. PICK f : WayRun(f, m) /\ f[m] = WayStart
    BY <2>1
  <2>3. WayRun(f, m)' /\ f[m] = WayNow'
    BY <1>7, <2>2, WayRunStays DEF BeginWays, WayPassStart, WayStart, WayNow
  <2>4. "nodes" \in staged' => \A y \in Years : Covered(y)'
    BY <1>7, CoveredStays DEF BeginWays, WaysInv
  <2>. QED BY <1>7, <2>3, <2>4 DEF BeginWays, WaysInv
<1>8. CASE FailWays
  BY <1>8, WaysKept DEF FailWays, End, history
<1>9. CASE StepWays
  <2>1. PICK m \in Nat : \E f : WayRun(f, m) /\ f[m] = WayNow
    BY <1>9 DEF StepWays, WaysInv
  <2>2. PICK f : WayRun(f, m) /\ f[m] = WayNow
    BY <2>1
  <2>3. PICK g : WayRun(g, m + 1) /\ g[m + 1] = AfterWay(f[m])
    BY <2>2, WayRunGoes
  <2>4. WayRun(g, m + 1)' /\ g[m + 1] = WayNow' /\ m + 1 \in Nat
    BY <1>9, <2>2, <2>3, WayRunStays, ReadWayIsAfterWay DEF StepWays
  <2>5. "nodes" \in staged' => \A y \in Years : Covered(y)'
    BY <1>9, CoveredStays DEF StepWays, WaysInv, io, history
  <2>. QED BY <1>9, <2>4, <2>5 DEF StepWays, WaysInv, io, history
<1>10. CASE EndWays
  <2>1. \A y \in Years : changes'[y].ways = Staging(wayCounts, y, changes[y].ways)
    BY <1>0, <1>10 DEF EndWays
  <2>2. "nodes" \in staged' => \A y \in Years : Covered(y)'
    BY <1>10, <2>1, WayFilesCovered DEF EndWays, Staging
  <2>. QED BY <1>10, <2>2 DEF EndWays, WaysInv
<1>11. CASE BeginSort
  BY <1>11, WaysKept DEF BeginSort, history
<1>12. ASSUME NEW y \in Years, SkipYear(y) PROVE WaysInv'
  BY <1>12, WaysKept DEF SkipYear, history
<1>13. ASSUME NEW y \in Years, MergeYear(y) PROVE WaysInv'
  <2>1. \A z \in Years : changes'[z].ways = changes[z].ways
    BY <1>0, <1>13 DEF MergeYear
  <2>. QED BY <1>13, <2>1, WaysKept DEF MergeYear
<1>14. ASSUME NEW y \in Years, FailSort(y) PROVE WaysInv'
  BY <1>14, WaysKept DEF FailSort, End, history
<1>15. CASE RemoveStaging
  <2>1. \A z \in Years : changes'[z].ways \in {Absent, changes[z].ways}
    BY <1>0, <1>15 DEF RemoveStaging
  <2>. QED BY <1>15, <2>1, WaysKept DEF RemoveStaging, history
<1>16. CASE EndSort
  BY <1>16, WaysKept DEF EndSort, history
<1>17. CASE Crash
  <2>1. CASE phase = "nodes"
    BY <1>0, <1>17, <2>1 DEF Crash, WaysInv, End
  <2>2. CASE phase = "ways"
    <3>1. \A y \in Years : changes'[y].ways = IF Of(wayCounts, y) = NoCounts THEN changes[y].ways ELSE Torn
      BY <1>0, <1>17, <2>2 DEF Crash
    <3>2. "nodes" \in staged' => \A y \in Years : Covered(y)'
      BY <1>17, <2>2, <3>1, WayFilesCovered DEF Crash
    <3>. QED BY <1>17, <3>2 DEF Crash, WaysInv, End
  <2>3. CASE phase = "sort"
    <3>1. \A y \in Years : changes'[y] = changes[y]
      BY <1>17, <2>3 DEF Crash
    <3>. QED BY <1>17, <2>3, <3>1, WaysKept DEF Crash, End
  <2>. QED BY <1>0, <1>17, <2>1, <2>2, <2>3 DEF Crash
<1>18. CASE UNCHANGED vars
  <2>1. "nodes" \in staged' => \A y \in Years : Covered(y)'
    BY <1>18, CoveredStays DEF vars, wayVars, io, history, WaysInv
  <2>2. phase' = "ways" => \E m \in Nat : \E f : WayRun(f, m)' /\ f[m] = WayNow'
    BY <1>18, WayRunStays DEF vars, wayVars, io, history, WaysInv, WayNow
  <2>. QED BY <1>18, <2>1, <2>2 DEF vars, io, history, WaysInv
<1>. QED BY <1>1, <1>2, <1>3, <1>4, <1>5, <1>6, <1>7, <1>8, <1>9, <1>10, <1>11, <1>12, <1>13, <1>14,
            <1>15, <1>16, <1>17, <1>18 DEF Next

LEMMA SortInit == Init => SortInv
BY DEF Init, SortInv

\* The staging files there are, the nodes' first.
RemovalOf(y, files) ==
  IF files.nodes # Absent
  THEN IF files.ways # Absent
       THEN <<[year |-> y, kind |-> "nodes"], [year |-> y, kind |-> "ways"]>>
       ELSE <<[year |-> y, kind |-> "nodes"]>>
  ELSE IF files.ways # Absent THEN <<[year |-> y, kind |-> "ways"]>> ELSE <<>>

LEMMA RemovalParts ==
  ASSUME NEW y
  PROVE  /\ Removal(y) = RemovalOf(y, changes[y])
         /\ Removal(y)' = RemovalOf(y, changes'[y])
         /\ Unmerged(y) = {} <=> changes[y].nodes = Absent /\ changes[y].ways = Absent
         /\ Unmerged(y)' = {} <=> changes'[y].nodes = Absent /\ changes'[y].ways = Absent
<1> DEFINE R == {[year |-> y, kind |-> "nodes"], [year |-> y, kind |-> "ways"]}
<1>1. ASSUME NEW n \in R, NEW w \in R
      PROVE  /\ <<n>> \o <<w>> = <<n, w>> /\ <<n>> \o <<>> = <<n>> /\ <<>> \o <<w>> = <<w>>
             /\ <<>> \o <<>> = <<>>
  <2>1. <<n>> \in Seq(R) /\ <<w>> \in Seq(R) /\ <<>> \in Seq(R)
    OBVIOUS
  <2> HIDE DEF R
  <2>2. <<n>> \o <<w>> = <<n, w>>
    <3> DEFINE s == <<n>> \o <<w>>
               t == <<n, w>>
    <3>1. s \in Seq(R) /\ Len(s) = 2 /\ s[1] = n /\ s[2] = w
      BY <2>1
    <3>2. t \in Seq(R) /\ Len(t) = 2 /\ t[1] = n /\ t[2] = w
      OBVIOUS
    <3> HIDE DEF s, t
    <3>3. s = t
      BY <3>1, <3>2
    <3>. QED BY <3>3 DEF s, t
  <2>3. <<n>> \o <<>> = <<n>>
    BY <2>1
  <2>4. <<>> \o <<w>> = <<w>>
    BY <2>1
  <2>5. <<>> \o <<>> = <<>>
    BY <2>1
  <2>. QED BY <2>2, <2>3, <2>4, <2>5
<1>2. Removal(y) = RemovalOf(y, changes[y])
  BY <1>1 DEF Removal, ToRemove, Unmerged, RemovalOf
<1>3. Removal(y)' = RemovalOf(y, changes'[y])
  BY <1>1 DEF Removal, ToRemove, Unmerged, RemovalOf
<1>. QED BY <1>2, <1>3 DEF Unmerged

\* What is removed next is of a year that was looked at, and what is left to
\* remove after it is that year's other staging file.
LEMMA RemovalGoesOn ==
  ASSUME Types, SortInv, RemoveStaging
  PROVE  \E y \in Years \ todo :
           /\ removing = Removal(y) /\ removing[1].year = y
           /\ changes' = [changes EXCEPT ![y][removing[1].kind] = Absent]
           /\ removing[1].kind \in {"nodes", "ways"}
           /\ removing' = Removal(y)' /\ (removing' # <<>> => removing'[1].year = y)
           /\ Unmerged(y)' = {} <=> removing' = <<>>
           /\ \A z \in Years \ todo : z # y => Unmerged(z) = {}
<1>1. phase = "sort" /\ removing # <<>> /\ removing' = Tail(removing) /\ FileTypes
      /\ changes' = [changes EXCEPT ![removing[1].year][removing[1].kind] = Absent]
  <2>1. Head(removing) = removing[1]
    BY DEF RemoveStaging, Types, RunTypes
  <2>. QED BY <2>1 DEF RemoveStaging, Types, RunTypes
<1>2. PICK y \in Years \ todo : removing = Removal(y) /\ \A z \in Years \ todo : z # y => Unmerged(z) = {}
  BY <1>1 DEF SortInv
<1> DEFINE n == [year |-> y, kind |-> "nodes"]
           w == [year |-> y, kind |-> "ways"]
<1>4. n.year = y /\ n.kind = "nodes" /\ w.year = y /\ w.kind = "ways"
  OBVIOUS
<1>5. Removal(y) = IF changes[y].nodes # Absent
                   THEN IF changes[y].ways # Absent THEN <<n, w>> ELSE <<n>>
                   ELSE IF changes[y].ways # Absent THEN <<w>> ELSE <<>>
  BY RemovalParts DEF RemovalOf
<1>6. Removal(y)' = IF changes'[y].nodes # Absent
                    THEN IF changes'[y].ways # Absent THEN <<n, w>> ELSE <<n>>
                    ELSE IF changes'[y].ways # Absent THEN <<w>> ELSE <<>>
  BY RemovalParts DEF RemovalOf
<1>7. Unmerged(y)' = {} <=> changes'[y].nodes = Absent /\ changes'[y].ways = Absent
  BY RemovalParts
<1>8. changes[y] = [nodes |-> changes[y].nodes, ways |-> changes[y].ways, data |-> changes[y].data]
      /\ y \in DOMAIN changes
  BY <1>1 DEF FileTypes
<1> HIDE DEF n, w
<1>9. CASE changes[y].nodes # Absent /\ changes[y].ways # Absent
  <2>1. removing = <<n, w>>
    BY <1>2, <1>5, <1>9
  <2>2. removing' = <<w>> /\ removing[1] = n /\ removing'[1] = w
    BY <1>1, <2>1
  <2>3. changes' = [changes EXCEPT ![y].nodes = Absent]
    BY <1>1, <1>4, <2>2
  <2>4. changes'[y].nodes = Absent /\ changes'[y].ways = changes[y].ways
    BY <1>8, <2>3
  <2>5. removing' = Removal(y)' /\ Unmerged(y)' # {} /\ removing' # <<>>
    BY <1>6, <1>7, <1>9, <2>2, <2>4
  <2>. QED BY <1>1, <1>2, <1>4, <2>2, <2>5
<1>10. CASE changes[y].nodes # Absent /\ ~(changes[y].ways # Absent)
  <2>1. removing = <<n>>
    BY <1>2, <1>5, <1>10
  <2>2. removing' = <<>> /\ removing[1] = n
    BY <1>1, <2>1
  <2>3. changes' = [changes EXCEPT ![y].nodes = Absent]
    BY <1>1, <1>4, <2>2
  <2>4. changes'[y].nodes = Absent /\ changes'[y].ways = changes[y].ways
    BY <1>8, <2>3
  <2>5. removing' = Removal(y)' /\ Unmerged(y)' = {}
    BY <1>6, <1>7, <1>10, <2>2, <2>4
  <2>. QED BY <1>1, <1>2, <1>4, <2>2, <2>5
<1>11. CASE ~(changes[y].nodes # Absent) /\ changes[y].ways # Absent
  <2>1. removing = <<w>>
    BY <1>2, <1>5, <1>11
  <2>2. removing' = <<>> /\ removing[1] = w
    BY <1>1, <2>1
  <2>3. changes' = [changes EXCEPT ![y].ways = Absent]
    BY <1>1, <1>4, <2>2
  <2>4. changes'[y].ways = Absent /\ changes'[y].nodes = changes[y].nodes
    BY <1>8, <2>3
  <2>5. removing' = Removal(y)' /\ Unmerged(y)' = {}
    BY <1>6, <1>7, <1>11, <2>2, <2>4
  <2>. QED BY <1>1, <1>2, <1>4, <2>2, <2>5
<1>12. CASE ~(changes[y].nodes # Absent) /\ ~(changes[y].ways # Absent)
  BY <1>1, <1>2, <1>5, <1>12
<1>. QED BY <1>9, <1>10, <1>11, <1>12

LEMMA UnmergedStays ==
  ASSUME NEW y, changes'[y] = changes[y] PROVE Unmerged(y)' = Unmerged(y)
BY DEF Unmerged

LEMMA SortStep == ASSUME Types, SortInv, [Next]_vars PROVE SortInv'
<1>. USE DEF inputs
<1>0. FileTypes /\ (removing # <<>> => phase = "sort")
  BY DEF Types, RunTypes
<1>1. CASE phase' # "sort"
  BY <1>1 DEF SortInv
<1>2. CASE BeginSort
  <2>1. removing' = <<>> /\ Years \ todo' = {}
    BY <1>0, <1>2 DEF BeginSort
  <2>. QED BY <2>1 DEF SortInv
<1>3. ASSUME NEW y \in Years, SkipYear(y) PROVE SortInv'
  BY <1>3, UnmergedStays DEF SkipYear, SortInv
<1>4. ASSUME NEW y \in Years, MergeYear(y) PROVE SortInv'
  <2>1. /\ removing = <<>> /\ y \in todo /\ todo' = todo \ {y} /\ phase = "sort" /\ Unmerged(y) # {}
        /\ removing' = Removal(y) /\ changes' = [changes EXCEPT ![y].data = Merged(y)]
    BY <1>4 DEF MergeYear, Removal
  <2>3. changes'[y].nodes = changes[y].nodes /\ changes'[y].ways = changes[y].ways
    BY <1>0, <2>1 DEF FileTypes
  <2>4. removing' = Removal(y)'
    BY <2>1, <2>3, RemovalParts DEF RemovalOf
  <2>5. removing' # <<>>
    <3>1. ~(changes[y].nodes = Absent /\ changes[y].ways = Absent)
      BY <2>1, RemovalParts
    <3>2. RemovalOf(y, changes[y]) # <<>>
      BY <3>1 DEF RemovalOf
    <3>. QED BY <2>1, <3>2, RemovalParts
  <2>6. \A z \in Years \ todo' : z # y => Unmerged(z)' = {}
    <3> SUFFICES ASSUME NEW z \in Years \ todo', z # y PROVE Unmerged(z)' = {}
      OBVIOUS
    <3>1. Unmerged(z) = {} /\ changes'[z] = changes[z]
      BY <2>1 DEF SortInv
    <3>. QED BY <3>1, UnmergedStays
  <2>. QED BY <2>1, <2>4, <2>5, <2>6 DEF SortInv
<1>5. CASE RemoveStaging
  <2>1. PICK y \in Years \ todo :
           /\ removing = Removal(y) /\ removing[1].year = y
           /\ changes' = [changes EXCEPT ![y][removing[1].kind] = Absent]
           /\ removing' = Removal(y)' /\ (Unmerged(y)' = {} <=> removing' = <<>>)
           /\ \A z \in Years \ todo : z # y => Unmerged(z) = {}
    BY <1>5, RemovalGoesOn
  <2>2. todo' = todo
    BY <1>5 DEF RemoveStaging
  <2>3. \A z \in Years \ todo' : z # y => Unmerged(z)' = {}
    BY <2>1, <2>2, UnmergedStays
  <2>. QED BY <2>1, <2>2, <2>3 DEF SortInv
<1>6. CASE phase' = phase /\ removing' = removing /\ todo' = todo /\ changes' = changes
  <2>1. \A y : Unmerged(y)' = Unmerged(y) /\ Removal(y)' = Removal(y)
    BY <1>6 DEF Unmerged, Removal, ToRemove
  <2>. QED BY <1>6, <2>1 DEF SortInv
<1>7. CASE Next /\ phase' = "sort"
  <2>1. CASE \E verb \in Verbs : Start(verb)
    BY <1>6, <2>1 DEF Start
  <2>2. CASE NewFile
    BY <1>6, <2>2 DEF NewFile, io
  <2>3. CASE BeginNodes \/ StepNodes \/ EndNodes \/ FailNodes \/ BeginWays \/ FailWays \/ StepWays \/ EndWays
    BY <1>7, <2>3 DEF BeginNodes, StepNodes, EndNodes, FailNodes, BeginWays, FailWays, StepWays, EndWays, End, io
  <2>4. CASE EndSort \/ Crash \/ \E y \in Years : FailSort(y)
    BY <1>7, <2>4 DEF EndSort, Crash, FailSort, End
  <2>. QED BY <1>2, <1>3, <1>4, <1>5, <1>7, <2>1, <2>2, <2>3, <2>4 DEF Next
<1>8. CASE UNCHANGED vars
  BY <1>6, <1>8 DEF vars, io
<1>. QED BY <1>1, <1>7, <1>8

-----------------------------------------------------------------------------
(* Nothing is lost *)

YearFiles ==
  [nodes : Counts \cup {Absent, Torn}, ways : Counts \cup {Absent, Torn}, data : Counts \cup {Absent}]
SourceOf(file, files) == IF file # Absent THEN file ELSE Data(files)

LEMMA LeqPlus ==
  ASSUME NEW c \in Counts, NEW d \in Counts, NEW e \in Counts
  PROVE  /\ Leq(c, c) /\ Leq(NoCounts, c) /\ Leq(c, Plus(c, d)) /\ Leq(d, Plus(c, d))
         /\ Leq(Plus(c, d), e) => Leq(c, e) /\ Leq(d, e)
         /\ Leq(c, NoCounts) => c = NoCounts
BY DEF Leq, Plus, Counts, NoCounts

LEMMA LeqSums ==
  ASSUME NEW c \in Counts, NEW d \in Counts, NEW e \in Counts, NEW f \in Counts,
         Leq(c, e), Leq(d, f)
  PROVE  Leq(Plus(c, d), Plus(e, f))
BY DEF Leq, Plus, Counts

\* Merging a year puts into its data what its staging holds, and what is not in
\* the staging was in the data.
LEMMA MergeKeeps ==
  ASSUME NEW files \in YearFiles, NEW n \in Counts, NEW w \in Counts, NEW both \in BOOLEAN,
         YearKept(files, n, w, both),
         SourceOf(files.nodes, files) \in Counts, SourceOf(files.ways, files) \in Counts,
         NEW new, new.nodes = files.nodes, new.ways = files.ways,
         new.data = Plus(SourceOf(files.nodes, files), SourceOf(files.ways, files))
  PROVE  YearKept(new, n, w, both) /\ YearCopied(new, n, w, both)
<1> DEFINE sn == SourceOf(files.nodes, files)
           sw == SourceOf(files.ways, files)
<1>1. Data(new) = Plus(sn, sw)
  BY PlusCounts, FilesAreThere DEF Data, Counts
<1>2. Leq(n, sn)
  BY LeqPlus DEF YearKept, SourceOf
<1>3. both => Leq(w, sw)
  BY LeqPlus DEF YearKept, SourceOf
<1> HIDE DEF sn, sw
<1>4. sn \in Counts /\ sw \in Counts
  BY DEF sn, sw
<1>5. Leq(n, Plus(sn, sw))
  BY <1>2, <1>4 DEF Leq, Counts, Plus
<1>6. both => Leq(Plus(n, w), Plus(sn, sw)) /\ Leq(w, Plus(sn, sw))
  <2> SUFFICES ASSUME both PROVE Leq(Plus(n, w), Plus(sn, sw)) /\ Leq(w, Plus(sn, sw))
    OBVIOUS
  <2>1. Leq(Plus(n, w), Plus(sn, sw)) /\ Plus(sn, sw) \in Counts
    BY <1>2, <1>3, <1>4, LeqSums, PlusCounts
  <2>. QED BY <2>1, LeqPlus
<1>. QED BY <1>1, <1>5, <1>6 DEF YearKept, YearCopied

\* A staging file whose counts are in the data may go.
LEMMA RemoveKeeps ==
  ASSUME NEW files \in YearFiles, NEW n \in Counts, NEW w \in Counts, NEW both \in BOOLEAN,
         YearKept(files, n, w, both), YearCopied(files, n, w, both),
         NEW new, new.nodes \in {Absent, files.nodes}, new.ways \in {Absent, files.ways},
         new.data = files.data
  PROVE  YearKept(new, n, w, both) /\ YearCopied(new, n, w, both)
<1>1. Data(new) = Data(files) /\ Data(files) \in Counts
  BY NoCountsCount DEF Data, YearFiles
<1>2. both => Leq(w, Data(files))
  BY <1>1, LeqPlus DEF YearCopied
<1>. QED BY <1>1, <1>2 DEF YearKept, YearCopied

LEMMA OfGrows ==
  ASSUME NEW c \in Counts, NEW d \in Counts, Leq(c, d), NEW y, Of(c, y) # NoCounts
  PROVE  Of(d, y) # NoCounts
<1>1. PICK k \in Keys : YearOf[k[2]] = y /\ c[k] # 0
  BY DEF Of, NoCounts
<1>2. c[k] \in Nat /\ d[k] \in Nat /\ c[k] <= d[k]
  BY DEF Counts, Leq
<1>3. Of(d, y)[k] # 0
  BY <1>1, <1>2 DEF Of
<1>. QED BY <1>3 DEF NoCounts

\* What an earlier, interrupted way pass left is replaced by one that finishes.
LEMMA EndWaysReplaces ==
  ASSUME Types, WaysInv, EndWays, "nodes" \in staged, NEW y \in Years
  PROVE  changes'[y] = [changes[y] EXCEPT !.ways = Present(Of(wayCounts, y))]
<1>1. changes'[y] = [changes[y] EXCEPT !.ways = Staging(wayCounts, y, changes[y].ways)]
  BY DEF EndWays
<1>2. CASE Of(wayCounts, y) # NoCounts
  BY <1>1, <1>2 DEF Staging, Present
<1>3. CASE Of(wayCounts, y) = NoCounts
  <2>1. changes[y].ways = Absent
    <3> SUFFICES ASSUME changes[y].ways # Absent PROVE FALSE
      OBVIOUS
    <3>1. PICK n \in Nat : \E g : WayRun(g, n) /\ Of(g[n].counts, y) # NoCounts
      BY DEF WaysInv, Covered
    <3>2. PICK g : WayRun(g, n) /\ Of(g[n].counts, y) # NoCounts
      BY <3>1
    <3>3. PICK m \in Nat : \E f : WayRun(f, m) /\ f[m] = WayNow
      BY DEF EndWays, WaysInv
    <3>4. PICK f : WayRun(f, m) /\ f[m] = WayNow
      BY <3>3
    <3>5. WayDone(f[m]) /\ f[m].counts = wayCounts
      BY <3>4 DEF EndWays, WayPassDone, MoreWays, WayDone, WayNow
    <3>6. \A k \in Keys : g[n].counts[k] <= wayCounts[k]
      BY <3>2, <3>4, <3>5, WayRunEnds DEF Types
    <3>7. g[n].counts \in Counts /\ wayCounts \in Counts
      <4>1. WayShape(g[n])
        BY <3>2, WayRunShapes DEF Types
      <4>. QED BY <4>1 DEF WayShape, Types, WayTypes
    <3>. QED BY <1>3, <3>2, <3>6, <3>7, OfGrows DEF Leq
  <2>. QED BY <1>1, <1>3, <2>1 DEF Staging, Present
<1>. QED BY <1>2, <1>3

LEMMA FreshIsKept ==
  ASSUME NEW n \in Counts, NEW w \in Counts, NEW files, files = [NoYear EXCEPT !.nodes = Present(n)]
  PROVE  YearKept(files, n, w, FALSE)
<1>1. files.nodes = Present(n) /\ Data(files) = NoCounts
  BY DEF NoYear, Data
<1>2. CASE n = NoCounts
  BY <1>1, <1>2, LeqPlus, NoCountsCount DEF YearKept, Present
<1>3. CASE n # NoCounts
  BY <1>1, <1>3, FilesAreThere DEF YearKept, Present, Counts
<1>. QED BY <1>2, <1>3

LEMMA KeptInit == Init => KeptInv
BY DEF Init, KeptInv

LEMMA FilesOf ==
  ASSUME FileTypes, NEW y \in Years
  PROVE  /\ changes[y] \in YearFiles /\ Data(changes[y]) \in Counts
         /\ Source(y, "nodes") = SourceOf(changes[y].nodes, changes[y])
         /\ Source(y, "ways") = SourceOf(changes[y].ways, changes[y])
         /\ Source(y, "data") = Data(changes[y])
BY NoCountsCount DEF FileTypes, YearFiles, Data, Source, SourceOf

LEMMA KeptStep == ASSUME Types, WaysInv, SortInv, KeptInv, [Next]_vars PROVE KeptInv'
<1>. USE DEF inputs
<1> DEFINE N(y) == Of(nodeCounts, y)
           W(y) == Of(wayCounts, y)
           both == "ways" \in staged
<1>0. /\ phase = "nodes" => staged = {} 
      /\ phase = "ways" => "ways" \notin staged
      /\ removing # <<>> => phase = "sort"
      /\ phase \in {"idle", "nodes", "ways", "sort"} /\ FileTypes
      /\ nodeCounts \in Counts /\ wayCounts \in Counts
      /\ \A y \in Years : changes[y] \in YearFiles
  BY FilesOf DEF Types, RunTypes, NodeTypes, WayTypes
<1>00. \A y : N(y) \in Counts /\ W(y) \in Counts
  BY <1>0, OfCounts
\* Staging and counts stay, and at most the way pass begins again.
<1>1. ASSUME changes' = changes, staged' \in {staged, staged \ {"ways"}}, removing' \in {removing, <<>>},
             nodeCounts' = nodeCounts, "ways" \in staged' => wayCounts' = wayCounts
      PROVE  KeptInv'
  BY <1>1 DEF KeptInv, YearKept, YearCopied
<1>2. CASE \E verb \in Verbs : Start(verb)
  BY <1>1, <1>2 DEF Start, nodeVars, wayVars, history
<1>3. CASE NewFile \/ BeginNodes
  BY <1>3 DEF NewFile, BeginNodes, KeptInv
<1>4. CASE StepNodes \/ FailNodes
  BY <1>0, <1>4 DEF StepNodes, FailNodes, KeptInv, history
<1>5. CASE EndNodes
  <2>1. removing' = <<>> /\ staged' = {"nodes"} /\ nodeCounts' = nodeCounts /\ wayCounts' = wayCounts
    BY <1>0, <1>5 DEF EndNodes, nodeVars, wayVars
  <2>2. \A y \in Years : changes'[y] = [NoYear EXCEPT !.nodes = Present(N(y))]
    BY <1>5 DEF EndNodes, WaysInv, Staging, Present, NoYear
  <2>3. ASSUME NEW y \in Years PROVE YearKept(changes'[y], N(y), W(y), FALSE)
    BY <2>2, <1>00, FreshIsKept
  <2>4. \A y : Of(nodeCounts', y) = N(y) /\ Of(wayCounts', y) = W(y)
    BY <2>1
  <2>5. ("ways" \in staged') = FALSE
    BY <2>1
  <2> HIDE DEF N, W
  <2>. QED BY <2>1, <2>3, <2>4, <2>5 DEF KeptInv
<1>6. CASE BeginWays
  BY <1>1, <1>6 DEF BeginWays, nodeVars, io
<1>7. CASE FailWays
  BY <1>1, <1>7 DEF FailWays, End, nodeVars, wayVars, history
<1>8. CASE StepWays
  BY <1>0, <1>1, <1>8 DEF StepWays, nodeVars, io, history
<1>9. CASE EndWays
  <2>1. /\ removing' = <<>> /\ staged' = staged \cup {"ways"} /\ nodeCounts' = nodeCounts
        /\ wayCounts' = wayCounts
    BY <1>0, <1>9 DEF EndWays, nodeVars, wayVars
  <2> SUFFICES ASSUME "nodes" \in staged, NEW y \in Years
               PROVE  YearKept(changes'[y], N(y), W(y), TRUE)
    BY <2>1 DEF KeptInv
  <2>2. changes'[y] = [changes[y] EXCEPT !.ways = Present(W(y))]
    BY <1>9, EndWaysReplaces
  <2>3. /\ changes'[y].nodes = changes[y].nodes /\ changes'[y].ways = Present(W(y))
        /\ Data(changes'[y]) = Data(changes[y]) /\ Data(changes[y]) \in Counts
    BY <1>0, <2>2, FilesOf DEF FileTypes, Data
  <2>4. /\ changes[y].nodes \in {Absent, N(y)}
        /\ changes[y].nodes = Absent => Leq(N(y), Data(changes[y]))
    BY DEF KeptInv, YearKept
  <2>5. CASE W(y) = NoCounts
    <3>1. Plus(N(y), W(y)) = N(y)
      BY <1>00, <2>5 DEF Plus, NoCounts, Counts
    <3>. QED BY <1>00, <2>3, <2>4, <2>5, <3>1, LeqPlus DEF YearKept, Present
  <2>6. CASE W(y) # NoCounts
    <3>1. W(y) # Absent
      BY <1>00, FilesAreThere DEF Counts
    <3>. QED BY <2>3, <2>4, <2>6, <3>1 DEF YearKept, Present
  <2>. QED BY <2>5, <2>6
<1>10. CASE BeginSort \/ EndSort \/ \E y \in Years : SkipYear(y) \/ FailSort(y)
  BY <1>1, <1>10 DEF BeginSort, EndSort, SkipYear, FailSort, End, nodeVars, wayVars, history
<1>11. ASSUME NEW y \in Years, MergeYear(y) PROVE KeptInv'
  <2>1. /\ removing' = Removal(y) /\ staged' = staged \cup {"sort"} /\ nodeCounts' = nodeCounts
        /\ wayCounts' = wayCounts /\ changes' = [changes EXCEPT ![y].data = Merged(y)]
        /\ \A kind \in Unmerged(y) : changes[y][kind] # Torn
    BY <1>11 DEF MergeYear, nodeVars, wayVars, Removal
  <2> SUFFICES ASSUME "nodes" \in staged PROVE KeptInv'
    BY <2>1 DEF KeptInv
  <2>2. /\ changes'[y].nodes = changes[y].nodes /\ changes'[y].ways = changes[y].ways
        /\ changes'[y].data = Plus(SourceOf(changes[y].nodes, changes[y]), SourceOf(changes[y].ways, changes[y]))
        /\ \A z \in Years : z # y => changes'[z] = changes[z]
    BY <1>0, <2>1, FilesOf DEF FileTypes, Merged
  <2>3. SourceOf(changes[y].nodes, changes[y]) \in Counts /\ SourceOf(changes[y].ways, changes[y]) \in Counts
    BY <1>0, <2>1, MergedTypes, FilesOf
  <2>4. YearKept(changes[y], N(y), W(y), both)
    BY DEF KeptInv
  <2>5. YearKept(changes'[y], N(y), W(y), both) /\ YearCopied(changes'[y], N(y), W(y), both)
    <3>1. changes[y] \in YearFiles /\ N(y) \in Counts /\ W(y) \in Counts /\ both \in BOOLEAN
      BY <1>0, <1>00
    <3> HIDE DEF N, W, both
    <3>. QED BY <2>2, <2>3, <2>4, <3>1, MergeKeeps
  <2>6. removing' # <<>> => removing'[1].year = y
    BY <2>1, RemovalParts DEF RemovalOf
  <2>7. "nodes" \in staged' /\ ("ways" \in staged') = both
    BY <2>1
  <2>. QED BY <2>1, <2>2, <2>5, <2>6, <2>7 DEF KeptInv
<1>12. CASE RemoveStaging
  <2>1. PICK y \in Years \ todo :
           /\ removing[1].year = y
           /\ changes' = [changes EXCEPT ![y][removing[1].kind] = Absent]
           /\ removing[1].kind \in {"nodes", "ways"}
           /\ removing' # <<>> => removing'[1].year = y
    BY <1>12, RemovalGoesOn
  <2>2. /\ staged' = staged /\ nodeCounts' = nodeCounts /\ wayCounts' = wayCounts /\ removing # <<>>
    BY <1>12 DEF RemoveStaging, nodeVars, wayVars, history
  <2> SUFFICES ASSUME "nodes" \in staged PROVE KeptInv'
    BY <2>2 DEF KeptInv
  <2>3. /\ changes'[y].nodes \in {Absent, changes[y].nodes} /\ changes'[y].ways \in {Absent, changes[y].ways}
        /\ changes'[y].data = changes[y].data
        /\ \A z \in Years : z # y => changes'[z] = changes[z]
    BY <1>0, <2>1 DEF FileTypes
  <2>4. YearKept(changes[y], N(y), W(y), both) /\ YearCopied(changes[y], N(y), W(y), both)
    BY <2>1, <2>2 DEF KeptInv
  <2>5. YearKept(changes'[y], N(y), W(y), both) /\ YearCopied(changes'[y], N(y), W(y), both)
    <3>1. changes[y] \in YearFiles /\ N(y) \in Counts /\ W(y) \in Counts /\ both \in BOOLEAN
      BY <1>0, <1>00
    <3> HIDE DEF N, W, both
    <3>. QED BY <2>3, <2>4, <3>1, RemoveKeeps
  <2>. QED BY <2>1, <2>2, <2>3, <2>5 DEF KeptInv
<1>13. CASE Crash
  <2>1. CASE phase = "nodes"
    BY <1>0, <1>13, <2>1 DEF Crash, KeptInv
  <2>2. CASE phase # "nodes"
    <3>1. /\ removing' = <<>> /\ staged' = staged /\ nodeCounts' = nodeCounts /\ wayCounts' = wayCounts
      BY <1>13 DEF Crash, End, nodeVars, wayVars
    <3>2. \A y \in Years : /\ changes'[y].nodes = changes[y].nodes /\ changes'[y].data = changes[y].data
                           /\ both => changes'[y].ways = changes[y].ways
      BY <1>0, <1>13, <2>2 DEF Crash, FileTypes
    <3>. QED BY <3>1, <3>2 DEF KeptInv, YearKept, Data
  <2>. QED BY <2>1, <2>2
<1>14. CASE UNCHANGED vars
  BY <1>1, <1>14 DEF vars, nodeVars, wayVars, io, history
<1>. QED BY <1>2, <1>3, <1>4, <1>5, <1>6, <1>7, <1>8, <1>9, <1>10, <1>11, <1>12, <1>13, <1>14 DEF Next

\* A count that was staged stays in a staging file or in the data, whatever
\* crashes, is resumed, or is merged again (sort_pass.cpp, merge_one_year).
THEOREM NothingIsLostTheorem == Spec => []NothingIsLost
<1> DEFINE I == Types /\ WaysInv /\ SortInv /\ KeptInv
<1>1. Init => I
  BY TypesInit, WaysInit, SortInit, KeptInit
<1>2. I /\ [Next]_vars => I'
  BY TypesStep, WaysStep, SortStep, KeptStep
<1>3. I => NothingIsLost
  <2> SUFFICES ASSUME I, {"nodes", "ways"} \subseteq staged, NEW y \in Years, NEW k \in Keys
               PROVE  Truth(y)[k] <= (IF Unmerged(y) = {} THEN Source(y, "data") ELSE Merged(y))[k]
    BY DEF NothingIsLost, BothStaged
  <2> DEFINE n == Of(nodeCounts, y)
             w == Of(wayCounts, y)
             files == changes[y]
  <2>1. n \in Counts /\ w \in Counts /\ Truth(y) = Plus(n, w)
    BY OfCounts DEF Types, NodeTypes, WayTypes, Truth
  <2>2. YearKept(files, n, w, TRUE)
    BY DEF KeptInv
  <2>3. /\ Data(files) \in Counts
        /\ Source(y, "data") = Data(files)
        /\ Merged(y) = Plus(SourceOf(files.nodes, files), SourceOf(files.ways, files))
        /\ Unmerged(y) = {} <=> files.nodes = Absent /\ files.ways = Absent
    BY FilesOf, RemovalParts DEF Types, Merged
  <2> HIDE DEF n, w, files, I
  <2>4. CASE Unmerged(y) = {}
    BY <2>1, <2>2, <2>3, <2>4 DEF YearKept, Leq
  <2>5. CASE Unmerged(y) # {}
    <3>1. SourceOf(files.nodes, files) \in Counts /\ Leq(n, SourceOf(files.nodes, files))
      BY <2>1, <2>2, <2>3, LeqPlus DEF YearKept, SourceOf
    <3>2. SourceOf(files.ways, files) \in Counts /\ Leq(w, SourceOf(files.ways, files))
      BY <2>1, <2>2, <2>3, LeqPlus DEF YearKept, SourceOf
    <3>3. Leq(Truth(y), Merged(y))
      BY <2>1, <2>3, <3>1, <3>2, LeqSums
    <3>. QED BY <2>5, <3>3 DEF Leq
  <2>. QED BY <2>4, <2>5
<1>. QED BY <1>1, <1>2, <1>3, PTL DEF Spec

-----------------------------------------------------------------------------
(* A resumed import is exact *)

LEMMA ExactInit == Init => ExactInv
BY DEF Init, ExactInv

LEMMA UntouchedMerges ==
  ASSUME NEW files, NEW n \in Counts, NEW w \in Counts, Untouched(files, n, w)
  PROVE  /\ SourceOf(files.nodes, files) = n /\ SourceOf(files.ways, files) = w
         /\ files.nodes # Absent => n # NoCounts
         /\ files.ways # Absent => w # NoCounts
BY FilesAreThere DEF Untouched, Present, SourceOf, Data, Counts

\* A year whose staging is all there is merged into the sum of both passes.
LEMMA MergesExactly ==
  ASSUME NEW files, NEW n \in Counts, NEW w \in Counts, YearExact(files, n, w, FALSE),
         ~(files.nodes = Absent /\ files.ways = Absent),
         NEW new, new.nodes = files.nodes, new.ways = files.ways,
         new.data = Plus(SourceOf(files.nodes, files), SourceOf(files.ways, files))
  PROVE  YearExact(new, n, w, TRUE)
<1>1. CASE Untouched(files, n, w)
  <2>1. new.data = Plus(n, w) /\ (n # NoCounts \/ w # NoCounts)
    BY <1>1, UntouchedMerges
  <2>2. Plus(n, w) # NoCounts
    BY <2>1, LeqPlus, NoCountsCount
  <2>3. files.nodes \in {Absent, n} /\ files.ways \in {Absent, w}
    BY <1>1 DEF Untouched, Present
  <2>. QED BY <2>1, <2>2, <2>3 DEF YearExact, MergedOnce
<1>2. CASE MergedOnce(files, n, w, FALSE)
  <2>1. new.data = Plus(n, w)
    BY <1>2 DEF MergedOnce, SourceOf
  <2>. QED BY <1>2, <2>1 DEF YearExact, MergedOnce
<1>. QED BY <1>1, <1>2 DEF YearExact

LEMMA ExactStep == ASSUME Types, WaysInv, SortInv, ExactInv, [Next]_vars PROVE ExactInv'
<1>. USE DEF inputs
<1> DEFINE N(y) == Of(nodeCounts, y)
           W(y) == Of(wayCounts, y)
<1>0. /\ phase = "nodes" => staged = {}
      /\ phase = "ways" => "ways" \notin staged
      /\ removing # <<>> => phase = "sort"
      /\ phase \in {"idle", "nodes", "ways", "sort"} /\ FileTypes
      /\ staged \subseteq {"nodes", "ways", "sort"}
      /\ \A y \in Years : changes[y] \in YearFiles
  BY FilesOf DEF Types, RunTypes
<1>00. \A y : N(y) \in Counts /\ W(y) \in Counts
  BY OfCounts DEF Types, NodeTypes, WayTypes
\* A step that stages, merges and removes nothing.
<1>1. ASSUME changes' = changes, staged' = staged, removing' = removing, nodeCounts' = nodeCounts,
             halfRemoved' = halfRemoved, fixedUp' = fixedUp, phase' # "ways" \/ phase' = phase,
             wayCounts' = wayCounts \/ phase = "ways"
      PROVE  ExactInv'
  <2>1. CASE wayCounts' = wayCounts
    BY <1>1, <2>1 DEF ExactInv, InRemoval
  <2>2. CASE phase = "ways"
    BY <1>0, <1>1, <2>2 DEF ExactInv
  <2>. QED BY <1>1, <2>1, <2>2
<1>2. CASE \E verb \in Verbs : Start(verb)
  BY <1>1, <1>2 DEF Start, nodeVars, wayVars, history
<1>3. CASE NewFile \/ BeginNodes \/ StepNodes \/ FailNodes
  BY <1>0, <1>3 DEF NewFile, BeginNodes, StepNodes, FailNodes, ExactInv, history
<1>4. CASE EndNodes
  <2>1. removing' = <<>> /\ staged' = {"nodes"} /\ nodeCounts' = nodeCounts /\ phase' = "idle"
    BY <1>0, <1>4 DEF EndNodes, nodeVars
  <2>2. \A y \in Years : changes'[y] = [NoYear EXCEPT !.nodes = Present(N(y))]
    BY <1>4 DEF EndNodes, WaysInv, Staging, Present, NoYear
  <2>3. \A y \in Years : changes'[y].nodes = Present(N(y)) /\ changes'[y].data = Absent
    BY <2>2 DEF NoYear
  <2>. QED BY <2>1, <2>3 DEF ExactInv
<1>5. CASE BeginWays
  <2>1. /\ removing' = removing /\ staged' = staged \ {"ways"} /\ changes' = changes
        /\ nodeCounts' = nodeCounts /\ fixedUp' = (fixedUp \/ "sort" \in staged) /\ removing = <<>>
    BY <1>0, <1>5 DEF BeginWays, nodeVars
  <2>. QED BY <2>1 DEF ExactInv
<1>6. CASE FailWays
  <2>1. removing = <<>>
    BY <1>0, <1>6 DEF FailWays
  <2>. QED BY <1>1, <1>6, <2>1 DEF FailWays, End, nodeVars, wayVars, history
<1>7. CASE StepWays
  BY <1>1, <1>7 DEF StepWays, nodeVars, io, history
<1>8. CASE EndWays
  <2>1. /\ removing' = <<>> /\ staged' = staged \cup {"ways"} /\ nodeCounts' = nodeCounts
        /\ wayCounts' = wayCounts /\ fixedUp' = fixedUp /\ phase' = "idle" /\ phase = "ways"
    BY <1>0, <1>8 DEF EndWays, nodeVars, wayVars
  <2> SUFFICES ASSUME "nodes" \in staged, ~fixedUp PROVE ExactInv'
    BY <2>1 DEF ExactInv
  <2>2. "sort" \notin staged' /\ \A y \in Years : changes[y].nodes = Present(N(y)) /\ changes[y].data = Absent
    BY <2>1 DEF ExactInv
  <2>3. \A y \in Years : changes'[y] = [changes[y] EXCEPT !.ways = Present(W(y))]
    BY <1>8, EndWaysReplaces
  <2>4. \A y \in Years : /\ changes'[y].nodes = Present(N(y)) /\ changes'[y].data = Absent
                         /\ changes'[y].ways = Present(W(y))
    BY <1>0, <2>2, <2>3 DEF YearFiles
  <2>. QED BY <2>1, <2>2, <2>4 DEF ExactInv
<1>9. CASE BeginSort \/ EndSort \/ \E y \in Years : SkipYear(y)
  BY <1>1, <1>9 DEF BeginSort, EndSort, SkipYear, nodeVars, wayVars, history
<1>10. ASSUME NEW y \in Years, FailSort(y) PROVE ExactInv'
  BY <1>1, <1>10 DEF FailSort, End, nodeVars, wayVars, history
<1>11. ASSUME NEW y \in Years, MergeYear(y) PROVE ExactInv'
  <2>1. /\ removing = <<>> /\ removing' = Removal(y) /\ staged' = staged \cup {"sort"}
        /\ nodeCounts' = nodeCounts /\ wayCounts' = wayCounts /\ phase' = "sort"
        /\ changes' = [changes EXCEPT ![y].data = Merged(y)] /\ Unmerged(y) # {}
        /\ halfRemoved' = halfRemoved /\ fixedUp' = fixedUp
    BY <1>11 DEF MergeYear, nodeVars, wayVars, Removal
  <2> SUFFICES ASSUME {"nodes", "ways"} \subseteq staged, ~fixedUp, ~halfRemoved
               PROVE  \A z \in Years : YearExact(changes'[z], N(z), W(z), InRemoval(z)')
    BY <2>1 DEF ExactInv
  <2>2. \A z \in Years : YearExact(changes[z], N(z), W(z), FALSE)
    <3>1. CASE "sort" \in staged
      <4>1. \A z : InRemoval(z) = FALSE
        BY <2>1 DEF InRemoval
      <4>. QED BY <3>1, <4>1 DEF ExactInv
    <3>2. CASE "sort" \notin staged
      BY <3>2 DEF ExactInv, YearExact, Untouched
    <3>. QED BY <3>1, <3>2
  <2>3. /\ changes'[y].nodes = changes[y].nodes /\ changes'[y].ways = changes[y].ways
        /\ changes'[y].data = Plus(SourceOf(changes[y].nodes, changes[y]), SourceOf(changes[y].ways, changes[y]))
        /\ \A z \in Years : z # y => changes'[z] = changes[z]
    BY <1>0, <2>1, FilesOf DEF FileTypes, Merged
  <2>4. ~(changes[y].nodes = Absent /\ changes[y].ways = Absent)
    BY <2>1, RemovalParts
  <2>5. YearExact(changes'[y], N(y), W(y), TRUE)
    <3>1. N(y) \in Counts /\ W(y) \in Counts
      BY <1>00
    <3> HIDE DEF N, W
    <3>. QED BY <2>2, <2>3, <2>4, <3>1, MergesExactly
  <2>6. removing' # <<>> /\ removing'[1].year = y
    BY <2>1, <2>4, RemovalParts DEF RemovalOf
  <2>7. \A z : InRemoval(z)' = (z = y)
    BY <2>6 DEF InRemoval
  <2>. QED BY <2>2, <2>3, <2>5, <2>7
<1>12. CASE RemoveStaging
  <2>1. PICK y \in Years \ todo :
           /\ removing[1].year = y
           /\ changes' = [changes EXCEPT ![y][removing[1].kind] = Absent]
           /\ removing[1].kind \in {"nodes", "ways"}
           /\ removing' # <<>> => removing'[1].year = y
           /\ Unmerged(y)' = {} <=> removing' = <<>>
    BY <1>12, RemovalGoesOn
  <2>2. /\ staged' = staged /\ nodeCounts' = nodeCounts /\ wayCounts' = wayCounts /\ removing # <<>>
        /\ halfRemoved' = halfRemoved /\ fixedUp' = fixedUp /\ phase' = "sort"
    BY <1>12 DEF RemoveStaging, nodeVars, wayVars, history
  <2>3. /\ changes'[y].nodes \in {Absent, changes[y].nodes} /\ changes'[y].ways \in {Absent, changes[y].ways}
        /\ changes'[y].data = changes[y].data
        /\ \A z \in Years : z # y => changes'[z] = changes[z]
    BY <1>0, <2>1 DEF FileTypes
  <2> SUFFICES ASSUME "nodes" \in staged, ~fixedUp PROVE ExactInv'
    BY <2>2 DEF ExactInv
  <2>4. "sort" \in staged
    BY <2>2 DEF ExactInv
  <2> SUFFICES ASSUME "ways" \in staged, ~halfRemoved, NEW z \in Years
               PROVE  YearExact(changes'[z], N(z), W(z), InRemoval(z)')
    BY <2>2, <2>4 DEF ExactInv
  <2>5. YearExact(changes[z], N(z), W(z), InRemoval(z))
    BY <2>4 DEF ExactInv
  <2>6. InRemoval(z) = (z = y) /\ InRemoval(z)' = (z = y /\ removing' # <<>>)
    BY <2>1, <2>2 DEF InRemoval
  <2>7. CASE z = y
    <3>1. MergedOnce(changes[z], N(z), W(z), TRUE)
      BY <2>5, <2>6, <2>7 DEF YearExact
    <3>2. removing' = <<>> => changes'[y].nodes = Absent /\ changes'[y].ways = Absent
      BY <2>1, RemovalParts
    <3> HIDE DEF N, W
    <3>. QED BY <2>3, <2>6, <2>7, <3>1, <3>2 DEF YearExact, MergedOnce
  <2>8. CASE z # y
    BY <2>3, <2>5, <2>6, <2>8
  <2>. QED BY <2>7, <2>8
<1>13. CASE Crash
  <2>1. /\ removing' = <<>> /\ staged' = staged /\ nodeCounts' = nodeCounts /\ wayCounts' = wayCounts
        /\ phase' = "idle" /\ fixedUp' = fixedUp /\ halfRemoved' = (halfRemoved \/ Len(removing) = 1)
    BY <1>13 DEF Crash, End, nodeVars, wayVars
  <2>2. CASE phase = "nodes"
    BY <1>0, <2>1, <2>2 DEF ExactInv
  <2>3. CASE phase = "ways"
    <3>1. \A y \in Years : changes'[y].nodes = changes[y].nodes /\ changes'[y].data = changes[y].data
      BY <1>0, <1>13, <2>3 DEF Crash, FileTypes
    <3>. QED BY <1>0, <2>1, <2>3, <3>1 DEF ExactInv
  <2>4. CASE phase = "sort"
    <3>1. \A y \in Years : changes'[y] = changes[y]
      BY <1>13, <2>4 DEF Crash
    <3> SUFFICES ASSUME {"nodes", "ways", "sort"} \subseteq staged, ~fixedUp, ~halfRemoved',
                        NEW z \in Years
                 PROVE  YearExact(changes'[z], N(z), W(z), InRemoval(z)')
      BY <2>1, <3>1 DEF ExactInv
    <3>2. YearExact(changes[z], N(z), W(z), InRemoval(z)) /\ Len(removing) # 1
      BY <2>1 DEF ExactInv
    <3>3. InRemoval(z)' = FALSE
      BY <2>1 DEF InRemoval
    <3>4. CASE ~InRemoval(z)
      BY <3>1, <3>2, <3>3, <3>4 DEF InRemoval
    <3>5. CASE InRemoval(z)
      <4>1. PICK y \in Years : removing = RemovalOf(y, changes[y])
        BY <2>4, <3>5, RemovalParts DEF SortInv, InRemoval
      <4>2. removing # <<>> /\ removing[1].year = z
        BY <3>5 DEF InRemoval
      <4>3. y = z /\ changes[z].nodes # Absent /\ changes[z].ways # Absent
        BY <3>2, <4>1, <4>2 DEF RemovalOf
      <4>4. MergedOnce(changes[z], N(z), W(z), TRUE)
        BY <3>2, <3>5 DEF YearExact, InRemoval
      <4> HIDE DEF N, W
      <4>. QED BY <3>1, <3>3, <4>3, <4>4 DEF YearExact, MergedOnce
    <3>. QED BY <3>4, <3>5
  <2>. QED BY <1>0, <1>13, <2>2, <2>3, <2>4 DEF Crash
<1>14. CASE UNCHANGED vars
  BY <1>1, <1>14 DEF vars, nodeVars, wayVars, io, history
<1>. QED BY <1>2, <1>3, <1>4, <1>5, <1>6, <1>7, <1>8, <1>9, <1>10, <1>11, <1>12, <1>13, <1>14 DEF Next

\* An import that ends, resumed and re-run however it was, leaves each year with
\* the sum of both passes in data.parquet, and no staging (sort_pass.cpp,
\* merge_and_sort_partitions), except after the two interruptions it cannot see.
THEOREM ImportIsExactTheorem == Spec => ImportIsExact
<1> DEFINE I == Types /\ WaysInv /\ SortInv /\ ExactInv
           Done == \A y \in Years : Unmerged(y) = {} /\ DataIsTruth(y)
           Ends == EndSort /\ BothStaged /\ ~fixedUp /\ ~halfRemoved
<1>1. Init => I
  BY TypesInit, WaysInit, SortInit, ExactInit
<1>2. I /\ [Next]_vars => I'
  BY TypesStep, WaysStep, SortStep, ExactStep
<1>3. I => [Ends => Done]_vars
  <2> SUFFICES ASSUME I, Ends, NEW y \in Years
               PROVE  /\ Unmerged(y) = {}
                      /\ changes[y].data = (IF Truth(y) = NoCounts THEN Absent ELSE Truth(y))
    BY DEF DataIsTruth
  <2> DEFINE n == Of(nodeCounts, y)
             w == Of(wayCounts, y)
  <2> USE DEF BothStaged
  <2>1. Unmerged(y) = {}
    BY DEF SortInv, EndSort
  <2>2. changes[y].nodes = Absent /\ changes[y].ways = Absent
    BY <2>1, RemovalParts
  <2>3. n \in Counts /\ w \in Counts /\ Truth(y) = Plus(n, w)
    BY OfCounts DEF Types, NodeTypes, WayTypes, Truth
  <2>4. YearExact(changes[y], n, w, FALSE)
    <3>1. CASE "sort" \in staged
      <4>1. InRemoval(y) = FALSE
        BY DEF InRemoval, EndSort
      <4>. QED BY <3>1, <4>1 DEF ExactInv
    <3>2. CASE "sort" \notin staged
      BY <3>2 DEF ExactInv, YearExact, Untouched
    <3>. QED BY <3>1, <3>2
  <2> HIDE DEF n, w, I
  <2>5. CASE Untouched(changes[y], n, w)
    <3>1. n = NoCounts /\ w = NoCounts
      BY <2>2, <2>3, <2>5, FilesAreThere DEF Untouched, Present, Counts
    <3>2. Truth(y) = NoCounts
      BY <2>3, <3>1 DEF Plus, NoCounts
    <3>. QED BY <2>1, <2>5, <3>2 DEF Untouched
  <2>6. CASE MergedOnce(changes[y], n, w, FALSE)
    BY <2>1, <2>3, <2>6 DEF MergedOnce
  <2>. QED BY <2>4, <2>5, <2>6 DEF YearExact
<1>. QED BY <1>1, <1>2, <1>3, PTL DEF Spec, ImportIsExact

-----------------------------------------------------------------------------
(* The node pass counts a deletion where its node last was *)

Before(i) == {j \in 1..i : nodeFile[j].id = nodeFile[i].id /\ nodeFile[j].cell # NoCell}
CountedAt(n, k) == {i \in 1..n : CellOfVersion(i) = k[1] /\ nodeFile[i].day = k[2]}

CountInv ==
  phase = "nodes" =>
    /\ nodePos <= Len(nodeFile)
    /\ nodePos > 0 => lastCell = CellOfVersion(nodePos)
    /\ \A k \in Keys : nodeCounts[k] = Cardinality(CountedAt(nodePos, k))

LEMMA LastOfIs ==
  ASSUME NEW S, NEW i \in S, \A j \in S : j <= i, S \subseteq Int PROVE LastOf(S) = i
<1>1. LastOf(S) \in S /\ \A j \in S : j <= LastOf(S)
  BY DEF LastOf
<1>2. LastOf(S) <= i /\ i <= LastOf(S) /\ LastOf(S) \in Int /\ i \in Int
  BY <1>1
<1> HIDE DEF LastOf
<1>. QED BY <1>2

\* The last known cell is the one of the version itself, that of the version
\* before it of the same node, or none.
LEMMA KnownCellIs ==
  ASSUME IsNodeFile(nodeFile), nodePos \in Nat, MoreNodes,
         nodePos > 0 => lastCell = CellOfVersion(nodePos)
  PROVE  CellOfVersion(nodePos + 1) = IF Version.cell = NoCell THEN KnownCell ELSE Version.cell
<1> DEFINE n == nodePos + 1
<1>1. n \in DOMAIN nodeFile /\ \A j \in 1..n : j \in DOMAIN nodeFile
  BY DEF IsNodeFile, MoreNodes
<1>2. Version = nodeFile[n] /\ CellOfVersion(n) = IF Before(n) = {} THEN NoCell ELSE nodeFile[LastOf(Before(n))].cell
  BY DEF Version, CellOfVersion, Before
<1>3. CASE Version.cell # NoCell
  <2>1. n \in Before(n) /\ \A j \in Before(n) : j <= n
    BY <1>2, <1>3 DEF Before
  <2>2. Before(n) \subseteq Int
    BY DEF Before
  <2>3. LastOf(Before(n)) = n
    <3> HIDE DEF n
    <3>. QED BY <2>1, <2>2, LastOfIs
  <2>. QED BY <1>2, <1>3, <2>1, <2>3
<1>4. CASE Version.cell = NoCell /\ nodePos > 0 /\ nodeFile[nodePos].id = Version.id
  <2>1. Before(n) = Before(nodePos)
    BY <1>2, <1>4 DEF Before
  <2>2. CellOfVersion(nodePos) = IF Before(nodePos) = {} THEN NoCell ELSE nodeFile[LastOf(Before(nodePos))].cell
    BY DEF CellOfVersion, Before
  <2>. QED BY <1>2, <1>4, <2>1, <2>2 DEF KnownCell
<1>5. CASE Version.cell = NoCell /\ ~(nodePos > 0 /\ nodeFile[nodePos].id = Version.id)
  <2>1. ASSUME NEW j \in Before(n) PROVE FALSE
    <3>1. j \in 1..nodePos /\ nodeFile[j].id = nodeFile[n].id
      BY <1>2, <1>5, <2>1 DEF Before
    <3>2. \A l \in j..n : nodeFile[l].id = nodeFile[j].id
      BY <1>1, <1>2, <1>5, <3>1 DEF IsNodeFile
    <3>. QED BY <1>2, <1>5, <3>1, <3>2
  <2>2. Before(n) = {}
    BY <2>1
  <2>. QED BY <1>2, <1>5, <2>2 DEF KnownCell
<1>. QED BY <1>3, <1>4, <1>5

LEMMA CountedAtGrows ==
  ASSUME NEW n \in Nat, NEW k
  PROVE  /\ IsFiniteSet(CountedAt(n, k)) /\ Cardinality(CountedAt(n, k)) \in Nat
         /\ Cardinality(CountedAt(n + 1, k)) = Cardinality(CountedAt(n, k))
              + (IF CellOfVersion(n + 1) = k[1] /\ nodeFile[n + 1].day = k[2] THEN 1 ELSE 0)
<1>1. IsFiniteSet(1..n) /\ CountedAt(n, k) \subseteq 1..n
  BY FS_Interval DEF CountedAt
<1>2. IsFiniteSet(CountedAt(n, k)) /\ Cardinality(CountedAt(n, k)) \in Nat
  BY <1>1, FS_Subset, FS_CardinalityType
<1>3. CASE CellOfVersion(n + 1) = k[1] /\ nodeFile[n + 1].day = k[2]
  <2>1. CountedAt(n + 1, k) = CountedAt(n, k) \cup {n + 1} /\ n + 1 \notin CountedAt(n, k)
    BY <1>3 DEF CountedAt
  <2>. QED BY <1>2, <1>3, <2>1, FS_AddElement
<1>4. CASE ~(CellOfVersion(n + 1) = k[1] /\ nodeFile[n + 1].day = k[2])
  <2>1. CountedAt(n + 1, k) = CountedAt(n, k)
    BY <1>4 DEF CountedAt
  <2>. QED BY <1>2, <1>4, <2>1
<1>. QED BY <1>2, <1>3, <1>4

LEMMA CountsStay ==
  ASSUME nodeFile' = nodeFile, NEW i, NEW k
  PROVE  CellOfVersion(i)' = CellOfVersion(i) /\ CountedAt(i, k)' = CountedAt(i, k)
BY DEF CellOfVersion, CountedAt, LastOf

LEMMA CountInit == Init => CountInv
BY DEF Init, CountInv

LEMMA CountStep == ASSUME Types, CountInv, [Next]_vars PROVE CountInv'
<1>. USE DEF inputs
<1>0. IsNodeFile(nodeFile) /\ nodePos \in Nat /\ nodeCounts \in Counts
  BY DEF Types, InputTypes, NodeTypes
<1>1. CASE phase' # "nodes"
  BY <1>1 DEF CountInv
<1>2. CASE BeginNodes
  <2>1. nodePos' = 0 /\ nodeCounts' = NoCounts /\ nodeFile' = nodeFile
    BY <1>2 DEF BeginNodes, NodePassStart
  <2>2. \A k : CountedAt(0, k)' = {}
    BY DEF CountedAt
  <2>3. Len(nodeFile) \in Nat /\ \A k \in Keys : NoCounts[k] = Cardinality({})
    BY <1>0, FS_EmptySet DEF IsNodeFile, NoCounts
  <2>. QED BY <2>1, <2>2, <2>3 DEF CountInv, CountedAt
<1>3. CASE StepNodes
  <2>1. /\ phase = "nodes" /\ MoreNodes /\ nodePos' = nodePos + 1 /\ nodeFile' = nodeFile
        /\ lastCell' = IF Version.cell = NoCell THEN KnownCell ELSE Version.cell
        /\ nodeCounts' = IF Version.cell = NoCell
                         THEN IF KnownCell = NoCell THEN nodeCounts ELSE Counted(nodeCounts, <<KnownCell, Version.day>>)
                         ELSE Counted(nodeCounts, <<Version.cell, Version.day>>)
    BY <1>3 DEF StepNodes, ReadNode, ReadLocated, ReadDeleted
  <2> DEFINE c == CellOfVersion(nodePos + 1)
  <2>2. c = IF Version.cell = NoCell THEN KnownCell ELSE Version.cell
    BY <1>0, <2>1, KnownCellIs DEF CountInv
  <2>3. lastCell' = c /\ nodeCounts' = IF c = NoCell THEN nodeCounts ELSE Counted(nodeCounts, <<c, Version.day>>)
    BY <2>1, <2>2
  <2>4. ASSUME NEW k \in Keys PROVE nodeCounts'[k] = Cardinality(CountedAt(nodePos + 1, k))
    <3>1. nodeCounts[k] \in Nat /\ nodeCounts[k] = Cardinality(CountedAt(nodePos, k))
      BY <1>0, <2>1 DEF CountInv, Counts
    <3>2. Cardinality(CountedAt(nodePos + 1, k)) = nodeCounts[k]
            + (IF c = k[1] /\ Version.day = k[2] THEN 1 ELSE 0)
      BY <1>0, <3>1, CountedAtGrows DEF Version
    <3> HIDE DEF c
    <3>3. k = <<k[1], k[2]>> /\ k[1] # NoCell
      BY NoCellIsNoCell DEF Keys
    <3>4. CASE c = k[1] /\ Version.day = k[2]
      BY <1>0, <2>3, <3>2, <3>3, <3>4 DEF Counted, Counts
    <3>5. CASE ~(c = k[1] /\ Version.day = k[2])
      <4>1. k # <<c, Version.day>>
        BY <3>5
      <4>. QED BY <1>0, <2>3, <3>1, <3>2, <3>5, <4>1 DEF Counted, Counts
    <3>. QED BY <3>4, <3>5
  <2>5. nodePos + 1 <= Len(nodeFile)
    BY <1>0, <2>1 DEF MoreNodes, IsNodeFile
  <2>. QED BY <2>1, <2>3, <2>4, <2>5, CountsStay DEF CountInv
<1>4. CASE phase' = phase /\ UNCHANGED <<nodeFile, nodeVars>>
  BY <1>4, CountsStay DEF CountInv, nodeVars
<1>5. CASE Next /\ phase' = "nodes" /\ ~BeginNodes /\ ~StepNodes
  <2>1. CASE \E verb \in Verbs : Start(verb)
    BY <1>4, <2>1 DEF Start
  <2>2. CASE NewFile
    BY <1>5, <2>2 DEF NewFile, io
  <2>3. CASE EndNodes \/ FailNodes \/ BeginWays \/ FailWays \/ StepWays \/ EndWays
    BY <1>5, <2>3 DEF EndNodes, FailNodes, BeginWays, FailWays, StepWays, EndWays, End, io
  <2>4. CASE BeginSort \/ RemoveStaging \/ EndSort \/ Crash \/ \E y \in Years : SkipYear(y) \/ MergeYear(y) \/ FailSort(y)
    BY <1>5, <2>4 DEF BeginSort, RemoveStaging, EndSort, Crash, SkipYear, MergeYear, FailSort, End
  <2>. QED BY <1>5, <2>1, <2>2, <2>3, <2>4 DEF Next
<1>6. CASE UNCHANGED vars
  BY <1>4, <1>6 DEF vars, io
<1>. QED BY <1>1, <1>2, <1>3, <1>5, <1>6

\* The node pass counts a deletion at the last known cell of its own node, never
\* at one another node's version left behind (node_cache_handler.hpp, node).
THEOREM DeletionsCountedInPlaceTheorem == Spec => []DeletionsCountedInPlace
<1> DEFINE I == Types /\ CountInv
<1>1. Init => I
  BY TypesInit, CountInit
<1>2. I /\ [Next]_vars => I'
  BY TypesStep, CountStep
<1>3. I => DeletionsCountedInPlace
  BY DEF CountInv, DeletionsCountedInPlace, CountedAt
<1>. QED BY <1>1, <1>2, <1>3, PTL DEF Spec

-----------------------------------------------------------------------------
(* The cache is the history *)

RecordBefore(r, s) == r.node < s.node \/ (r.node = s.node /\ r.day < s.day)
IsLocated(i) == nodeFile[i].cell # NoCell
SameDayAs(i, j) == nodeFile[j].id = nodeFile[i].id /\ nodeFile[j].day = nodeFile[i].day

\* Records that tell the history of the versions up to n: one per node and day
\* with a position, in ascending order, each the last version of its day.
Tells(flat, n) ==
  /\ flat \in Seq(CacheRecords)
  /\ \A i, j \in DOMAIN flat : i < j => RecordBefore(flat[i], flat[j])
  /\ \A m \in DOMAIN flat : \E i \in 1..n :
       /\ flat[m] = RecordOf(nodeFile[i]) /\ IsLocated(i)
       /\ \A j \in 1..n : SameDayAs(i, j) /\ IsLocated(j) => j <= i
  /\ \A i \in 1..n : IsLocated(i) =>
       \E m \in DOMAIN flat : flat[m].node = nodeFile[i].id /\ flat[m].day = nodeFile[i].day
  /\ \A i, j \in 1..n : i < j /\ IsLocated(i) /\ IsLocated(j) =>
       ~RecordBefore(RecordOf(nodeFile[j]), RecordOf(nodeFile[i]))

LEMMA RecordTypes ==
  ASSUME nodeFile \in Seq(NodeVersions), NEW i \in DOMAIN nodeFile
  PROVE  /\ nodeFile[i].id \in Int /\ nodeFile[i].day \in Nat /\ nodeFile[i].day \in Days
         /\ IsLocated(i) => RecordOf(nodeFile[i]) \in CacheRecords
         /\ RecordOf(nodeFile[i]).node = nodeFile[i].id /\ RecordOf(nodeFile[i]).day = nodeFile[i].day
         /\ RecordOf(nodeFile[i]).cell = nodeFile[i].cell
<1>1. nodeFile[i] \in NodeVersions
  OBVIOUS
<1> DEFINE v == nodeFile[i]
<1> HIDE DEF v
<1>2. v.id \in Int /\ v.day \in Days /\ (v.cell # NoCell => v.cell \in Cells)
  BY <1>1 DEF NodeVersions, v
<1>3. v.cell # NoCell => RecordOf(v) \in CacheRecords
  BY <1>2 DEF CacheRecords, RecordOf
<1>4. v.day \in Nat
  BY <1>2, DaysAreNumbers
<1>. QED BY <1>2, <1>3, <1>4 DEF v, IsLocated, RecordOf

LEMMA CacheRecordTypes ==
  ASSUME NEW r \in CacheRecords PROVE r.node \in Int /\ r.day \in Nat /\ r.day \in Days /\ r.cell \in Cells
BY DaysAreNumbers DEF CacheRecords

HasKey(r) == r.node \in Int /\ r.day \in Nat
LEMMA RecordsInOrder ==
  ASSUME NEW r, NEW s, NEW t, HasKey(r), HasKey(s), HasKey(t), RecordBefore(r, s)
  PROVE  /\ ~RecordBefore(s, r)
         /\ RecordBefore(s, t) => RecordBefore(r, t)
         /\ ~RecordBefore(t, s) => ~RecordBefore(t, r)
<1> DEFINE a == r.node
           b == s.node
           c == t.node
           d == r.day
           e == s.day
           f == t.day
<1>1. a \in Int /\ b \in Int /\ c \in Int /\ d \in Int /\ e \in Int /\ f \in Int
  BY DEF HasKey
<1>2. a < b \/ (a = b /\ d < e)
  BY DEF RecordBefore
<1> HIDE DEF a, b, c, d, e, f
<1>3. /\ ~(b < a \/ (b = a /\ e < d))
      /\ (b < c \/ (b = c /\ e < f)) => (a < c \/ (a = c /\ d < f))
      /\ ~(c < b \/ (c = b /\ f < e)) => ~(c < a \/ (c = a /\ f < d))
  BY <1>1, <1>2
<1>. QED BY <1>3 DEF RecordBefore, a, b, c, d, e, f

LEMMA TellsParts ==
  ASSUME NEW n, NEW flat, Tells(flat, n)
  PROVE  /\ flat \in Seq(CacheRecords) /\ Len(flat) \in Nat /\ DOMAIN flat = 1..Len(flat)
         /\ flat # <<>> => Len(flat) \in DOMAIN flat
         /\ \A m \in DOMAIN flat :
              /\ flat[m] \in CacheRecords /\ flat[m].node \in Int /\ flat[m].day \in Nat
              /\ m = Len(flat) \/ (m < Len(flat) /\ RecordBefore(flat[m], flat[Len(flat)]))
<1>1. flat \in Seq(CacheRecords) /\ \A i, j \in DOMAIN flat : i < j => RecordBefore(flat[i], flat[j])
  BY DEF Tells
<1> DEFINE l == Len(flat)
<1>2. l \in Nat /\ DOMAIN flat = 1..l /\ (flat # <<>> => l \in DOMAIN flat)
  BY <1>1
<1>3. \A m \in DOMAIN flat : flat[m] \in CacheRecords
  BY <1>1
<1>4. \A m \in DOMAIN flat : flat[m].node \in Int /\ flat[m].day \in Nat
  BY <1>3, CacheRecordTypes
<1> HIDE DEF l
<1>5. \A m \in DOMAIN flat : m = l \/ (m < l /\ RecordBefore(flat[m], flat[l]))
  BY <1>1, <1>2
<1>. QED BY <1>1, <1>2, <1>3, <1>4, <1>5 DEF l

LEMMA NothingTells == ASSUME NEW n, n = 0 PROVE Tells(<<>>, n)
BY DEF Tells

LEMMA DeletedTells ==
  ASSUME NEW n \in Nat, NEW flat, Tells(flat, n), ~IsLocated(n + 1) PROVE Tells(flat, n + 1)
BY DEF Tells

\* The newest version: its record, and the versions of its day.
LEMMA VersionsInOrder ==
  ASSUME nodeFile \in Seq(NodeVersions), NEW n \in Nat, n < Len(nodeFile), IsLocated(n + 1),
         NEW flat, Tells(flat, n),
         flat = <<>> \/ ~RecordBefore(RecordOf(nodeFile[n + 1]), flat[Len(flat)])
  PROVE  \A i \in 1..n : IsLocated(i) => ~RecordBefore(RecordOf(nodeFile[n + 1]), RecordOf(nodeFile[i]))
<1> SUFFICES ASSUME NEW i \in 1..n, IsLocated(i)
             PROVE  ~RecordBefore(RecordOf(nodeFile[n + 1]), RecordOf(nodeFile[i]))
  OBVIOUS
<1>1. PICK m \in DOMAIN flat : flat[m].node = nodeFile[i].id /\ flat[m].day = nodeFile[i].day
  BY DEF Tells
<1>2. flat # <<>> /\ Len(flat) \in DOMAIN flat
  BY <1>1, TellsParts
<1>3. m < Len(flat) => RecordBefore(flat[m], flat[Len(flat)])
  BY <1>1, <1>2, TellsParts
<1>4. ~RecordBefore(RecordOf(nodeFile[n + 1]), flat[Len(flat)])
  BY <1>2
<1>5. \A k \in {m, Len(flat)} : flat[k].node \in Int /\ flat[k].day \in Nat
  BY <1>1, <1>2, TellsParts
<1>6. i \in DOMAIN nodeFile /\ n + 1 \in DOMAIN nodeFile
  OBVIOUS
<1>7. m = Len(flat) \/ m < Len(flat)
  BY <1>1, TellsParts
<1> DEFINE r == RecordOf(nodeFile[n + 1])
           s == RecordOf(nodeFile[i])
<1>8. r.node \in Int /\ r.day \in Nat /\ s.node = flat[m].node /\ s.day = flat[m].day
  BY <1>1, <1>6, RecordTypes
<1>. ~RecordBefore(r, flat[Len(flat)])
  BY <1>4
<1> HIDE DEF r, s
<1>9. ~RecordBefore(r, s)
  <2>1. CASE m = Len(flat)
    BY <1>8, <2>1 DEF RecordBefore
  <2>2. CASE m < Len(flat)
    <3>1. HasKey(r) /\ HasKey(flat[m]) /\ HasKey(flat[Len(flat)])
      BY <1>5, <1>8 DEF HasKey
    <3>2. ~RecordBefore(r, flat[m])
      BY <1>3, <2>2, <3>1, RecordsInOrder
    <3>. QED BY <1>8, <3>2 DEF RecordBefore
  <2>. QED BY <1>7, <2>1, <2>2
<1>. QED BY <1>9 DEF r, s

\* A record of a new node or day comes last.
LEMMA AppendTells ==
  ASSUME nodeFile \in Seq(NodeVersions), NEW n \in Nat, n < Len(nodeFile), IsLocated(n + 1),
         NEW flat, Tells(flat, n),
         flat = <<>> \/ RecordBefore(flat[Len(flat)], RecordOf(nodeFile[n + 1]))
  PROVE  Tells(Append(flat, RecordOf(nodeFile[n + 1])), n + 1)
<1> DEFINE r == RecordOf(nodeFile[n + 1])
           new == Append(flat, r)
           l == Len(flat)
<1>1. n + 1 \in DOMAIN nodeFile /\ flat \in Seq(CacheRecords) /\ l \in Nat /\ DOMAIN flat = 1..l
      /\ \A i \in 1..n : i \in DOMAIN nodeFile
  BY TellsParts
<1>2. r \in CacheRecords /\ r.node = nodeFile[n + 1].id /\ r.day = nodeFile[n + 1].day
      /\ r.node \in Int /\ r.day \in Nat
  BY <1>1, RecordTypes
<1>3. \A m \in DOMAIN flat : flat[m].node \in Int /\ flat[m].day \in Nat
  BY TellsParts
<1> HIDE DEF r
<1>4. new \in Seq(CacheRecords) /\ DOMAIN new = 1..(l + 1) /\ new[l + 1] = r
      /\ \A m \in 1..l : new[m] = flat[m]
  BY <1>1, <1>2
<1>5. \A m \in DOMAIN flat : RecordBefore(flat[m], r)
  <2> SUFFICES ASSUME NEW m \in DOMAIN flat PROVE RecordBefore(flat[m], r)
    OBVIOUS
  <2>1. l \in DOMAIN flat /\ RecordBefore(flat[l], r)
    BY <1>1 DEF r
  <2>2. m = l \/ RecordBefore(flat[m], flat[l])
    BY <1>1, <2>1, TellsParts
  <2>3. HasKey(r) /\ HasKey(flat[m]) /\ HasKey(flat[l])
    BY <1>2, <1>3, <2>1 DEF HasKey
  <2> HIDE DEF l
  <2>. QED BY <2>1, <2>2, <2>3, RecordsInOrder
<1>6. flat = <<>> \/ ~RecordBefore(r, flat[Len(flat)])
  <2>1. CASE flat # <<>>
    <3>1. l \in DOMAIN flat
      BY <2>1, TellsParts
    <3>2. HasKey(r) /\ HasKey(flat[l]) /\ RecordBefore(flat[l], r)
      BY <1>2, <1>3, <1>5, <3>1 DEF HasKey
    <3>3. ~RecordBefore(r, flat[l])
      BY <3>2, RecordsInOrder
    <3>. QED BY <3>3
  <2>. QED BY <2>1
<1>7. \A i \in 1..n : IsLocated(i) => ~RecordBefore(r, RecordOf(nodeFile[i]))
  BY <1>6, VersionsInOrder DEF r
<1> HIDE DEF new, l
<1>8. \A i, j \in DOMAIN new : i < j => RecordBefore(new[i], new[j])
  <2> SUFFICES ASSUME NEW i \in DOMAIN new, NEW j \in DOMAIN new, i < j
               PROVE  RecordBefore(new[i], new[j])
    OBVIOUS
  <2>1. CASE j = l + 1
    BY <1>1, <1>4, <1>5, <2>1
  <2>2. CASE j # l + 1
    <3>1. i \in DOMAIN flat /\ j \in DOMAIN flat
      BY <1>1, <1>4, <2>2
    <3>. QED BY <1>1, <1>4, <3>1 DEF Tells
  <2>. QED BY <2>1, <2>2
<1>9. \A m \in DOMAIN new : \E i \in 1..(n + 1) :
        /\ new[m] = RecordOf(nodeFile[i]) /\ IsLocated(i)
        /\ \A j \in 1..(n + 1) : SameDayAs(i, j) /\ IsLocated(j) => j <= i
  <2> SUFFICES ASSUME NEW m \in DOMAIN new
               PROVE  \E i \in 1..(n + 1) :
                        /\ new[m] = RecordOf(nodeFile[i]) /\ IsLocated(i)
                        /\ \A j \in 1..(n + 1) : SameDayAs(i, j) /\ IsLocated(j) => j <= i
    OBVIOUS
  <2>1. CASE m = l + 1
    BY <1>4, <2>1 DEF r
  <2>2. CASE m # l + 1
    <3>1. m \in DOMAIN flat /\ new[m] = flat[m]
      BY <1>1, <1>4, <2>2
    <3>2. PICK i \in 1..n : /\ flat[m] = RecordOf(nodeFile[i]) /\ IsLocated(i)
                            /\ \A j \in 1..n : SameDayAs(i, j) /\ IsLocated(j) => j <= i
      BY <3>1 DEF Tells
    <3>3. ~SameDayAs(i, n + 1)
      <4>1. flat[m].node = nodeFile[i].id /\ flat[m].day = nodeFile[i].day
        BY <1>1, <3>2, RecordTypes
      <4>. QED BY <1>2, <1>3, <1>5, <3>1, <4>1 DEF SameDayAs, RecordBefore
    <3>. QED BY <3>1, <3>2, <3>3
  <2>. QED BY <2>1, <2>2
<1>10. \A i \in 1..(n + 1) : IsLocated(i) =>
         \E m \in DOMAIN new : new[m].node = nodeFile[i].id /\ new[m].day = nodeFile[i].day
  <2> SUFFICES ASSUME NEW i \in 1..(n + 1), IsLocated(i)
               PROVE  \E m \in DOMAIN new : new[m].node = nodeFile[i].id /\ new[m].day = nodeFile[i].day
    OBVIOUS
  <2>1. CASE i = n + 1
    BY <1>1, <1>2, <1>4, <2>1
  <2>2. CASE i # n + 1
    <3>1. PICK m \in DOMAIN flat : flat[m].node = nodeFile[i].id /\ flat[m].day = nodeFile[i].day
      BY <2>2 DEF Tells
    <3>. QED BY <1>1, <1>4, <3>1
  <2>. QED BY <2>1, <2>2
<1>11. \A i, j \in 1..(n + 1) : i < j /\ IsLocated(i) /\ IsLocated(j) =>
         ~RecordBefore(RecordOf(nodeFile[j]), RecordOf(nodeFile[i]))
  BY <1>7 DEF Tells, r
<1>12. Tells(new, n + 1)
  BY <1>4, <1>8, <1>9, <1>10, <1>11 DEF Tells
<1>. QED BY <1>12 DEF new, r

\* A later version of the last record's day takes its place.
LEMMA ReplaceTells ==
  ASSUME nodeFile \in Seq(NodeVersions), NEW n \in Nat, n < Len(nodeFile), IsLocated(n + 1),
         NEW flat, Tells(flat, n), flat # <<>>,
         flat[Len(flat)].node = nodeFile[n + 1].id, flat[Len(flat)].day = nodeFile[n + 1].day
  PROVE  Tells([flat EXCEPT ![Len(flat)] = RecordOf(nodeFile[n + 1])], n + 1)
<1> DEFINE r == RecordOf(nodeFile[n + 1])
           new == [flat EXCEPT ![Len(flat)] = r]
           l == Len(flat)
<1>1. n + 1 \in DOMAIN nodeFile /\ flat \in Seq(CacheRecords) /\ l \in Nat /\ DOMAIN flat = 1..l
      /\ l \in DOMAIN flat /\ \A i \in 1..n : i \in DOMAIN nodeFile
  BY TellsParts
<1>2. r \in CacheRecords /\ r.node = nodeFile[n + 1].id /\ r.day = nodeFile[n + 1].day
      /\ r.node \in Int /\ r.day \in Nat
  BY <1>1, RecordTypes
<1>3. \A m \in DOMAIN flat : flat[m].node \in Int /\ flat[m].day \in Nat
  BY TellsParts
<1> HIDE DEF r
<1>4. new \in Seq(CacheRecords) /\ DOMAIN new = 1..l /\ new[l] = r
      /\ \A m \in 1..l : m # l => new[m] = flat[m]
  BY <1>1, <1>2
<1>4a. DOMAIN new = DOMAIN flat /\ l \in DOMAIN new
  BY <1>1, <1>4
<1>5. \A m \in 1..l : new[m].node = flat[m].node /\ new[m].day = flat[m].day
  BY <1>1, <1>2, <1>4
<1>6. ~RecordBefore(r, flat[Len(flat)])
  BY <1>2 DEF RecordBefore
<1>7. \A i \in 1..n : IsLocated(i) => ~RecordBefore(r, RecordOf(nodeFile[i]))
  BY <1>6, VersionsInOrder DEF r
<1> HIDE DEF new
<1>8. \A i, j \in DOMAIN new : i < j => RecordBefore(new[i], new[j])
  <2> SUFFICES ASSUME NEW i \in DOMAIN new, NEW j \in DOMAIN new, i < j
               PROVE  RecordBefore(new[i], new[j])
    OBVIOUS
  <2>1. i \in DOMAIN flat /\ j \in DOMAIN flat
    BY <1>4a
  <2>2. RecordBefore(flat[i], flat[j])
    BY <2>1 DEF Tells
  <2>. QED BY <1>1, <1>5, <2>1, <2>2 DEF RecordBefore
<1>9. \A m \in DOMAIN new : \E i \in 1..(n + 1) :
        /\ new[m] = RecordOf(nodeFile[i]) /\ IsLocated(i)
        /\ \A j \in 1..(n + 1) : SameDayAs(i, j) /\ IsLocated(j) => j <= i
  <2> SUFFICES ASSUME NEW m \in DOMAIN new
               PROVE  \E i \in 1..(n + 1) :
                        /\ new[m] = RecordOf(nodeFile[i]) /\ IsLocated(i)
                        /\ \A j \in 1..(n + 1) : SameDayAs(i, j) /\ IsLocated(j) => j <= i
    OBVIOUS
  <2>1. CASE m = l
    BY <1>4, <2>1 DEF r
  <2>2. CASE m # l
    <3>1. m \in DOMAIN flat /\ new[m] = flat[m] /\ m < l
      <4>1. m \in 1..l
        BY <1>4
      <4> HIDE DEF l
      <4>. QED BY <1>1, <1>4, <2>2, <4>1
    <3>2. PICK i \in 1..n : /\ flat[m] = RecordOf(nodeFile[i]) /\ IsLocated(i)
                            /\ \A j \in 1..n : SameDayAs(i, j) /\ IsLocated(j) => j <= i
      BY <3>1 DEF Tells
    <3>3. ~SameDayAs(i, n + 1)
      <4>1. flat[m].node = nodeFile[i].id /\ flat[m].day = nodeFile[i].day
        BY <1>1, <3>2, RecordTypes
      <4>2. RecordBefore(flat[m], flat[l])
        BY <1>1, <3>1 DEF Tells
      <4>. QED BY <1>2, <1>3, <3>1, <4>1, <4>2 DEF SameDayAs, RecordBefore
    <3>. QED BY <3>1, <3>2, <3>3
  <2>. QED BY <2>1, <2>2
<1>10. \A i \in 1..(n + 1) : IsLocated(i) =>
         \E m \in DOMAIN new : new[m].node = nodeFile[i].id /\ new[m].day = nodeFile[i].day
  <2> SUFFICES ASSUME NEW i \in 1..(n + 1), IsLocated(i)
               PROVE  \E m \in DOMAIN new : new[m].node = nodeFile[i].id /\ new[m].day = nodeFile[i].day
    OBVIOUS
  <2>1. CASE i = n + 1
    <3>1. new[l].node = nodeFile[i].id /\ new[l].day = nodeFile[i].day /\ l \in DOMAIN new
      BY <1>2, <1>4, <1>4a, <2>1
    <3>. QED BY <3>1
  <2>2. CASE i # n + 1
    <3>1. PICK m \in DOMAIN flat : flat[m].node = nodeFile[i].id /\ flat[m].day = nodeFile[i].day
      BY <2>2 DEF Tells
    <3>. QED BY <1>1, <1>4, <1>5, <3>1
  <2>. QED BY <2>1, <2>2
<1>11. \A i, j \in 1..(n + 1) : i < j /\ IsLocated(i) /\ IsLocated(j) =>
         ~RecordBefore(RecordOf(nodeFile[j]), RecordOf(nodeFile[i]))
  BY <1>7 DEF Tells, r
<1>12. Tells(new, n + 1)
  BY <1>4, <1>8, <1>9, <1>10, <1>11 DEF Tells
<1>. QED BY <1>12 DEF new, r

\* Where the blocks begin.
Base(b) == b * BlockSize

LEMMA BaseSteps ==
  /\ Base(0) = 0
  /\ \A b \in Nat : Base(b) \in Nat /\ Base(b + 1) = Base(b) + BlockSize
  /\ \A b, c \in Nat : b <= c => Base(b) <= Base(c)
<1>1. ASSUME NEW b \in Nat PROVE Base(b) \in Nat /\ Base(b + 1) = Base(b) + BlockSize
  BY BlocksHoldRecords DEF Base
<1>2. ASSUME NEW b \in Nat, NEW c \in Nat, b <= c PROVE Base(b) <= Base(c)
  <2>1. BlockSize * (c - b) >= 0 /\ c * BlockSize = b * BlockSize + BlockSize * (c - b)
    BY <1>2, BlocksHoldRecords
  <2>. QED BY <2>1, BlocksHoldRecords DEF Base
<1>3. Base(0) = 0
  BY BlocksHoldRecords DEF Base
<1>. QED BY <1>1, <1>2, <1>3

LEMMA BaseOfRecord ==
  ASSUME NEW i \in Nat
  PROVE  /\ i \div BlockSize \in Nat /\ i % BlockSize \in 0..(BlockSize - 1)
         /\ i = Base(i \div BlockSize) + (i % BlockSize)
<1>1. i = BlockSize * (i \div BlockSize) + (i % BlockSize)
  BY BlocksHoldRecords
<1>2. i % BlockSize \in 0..(BlockSize - 1)
  BY BlocksHoldRecords
<1>3. i \div BlockSize \in Nat
  BY BlocksHoldRecords
<1>4. BlockSize * (i \div BlockSize) = (i \div BlockSize) * BlockSize
  BY <1>3, BlocksHoldRecords
<1>. QED BY <1>1, <1>2, <1>3, <1>4 DEF Base

\* A part of the records from one on.
IsPart(part, flat, from) == \A j \in DOMAIN part : part[j] = flat[from + j]

\* The records as the writer holds them: full blocks, the block it fills, and
\* the record it may yet replace.
Holds(flat, full, filling, last) ==
  /\ \A b \in DOMAIN full : Len(full[b]) = BlockSize /\ IsPart(full[b], flat, Base(b - 1))
  /\ Len(filling) < BlockSize /\ Len(flat) = Base(Len(full)) + Len(filling) + Len(last)
  /\ IsPart(filling, flat, Base(Len(full)))
  /\ last # <<>> => last[1] = flat[Len(flat)]
  /\ last = <<>> => flat = <<>>

\* The records as a finished file has them.
FileHolds(file, flat) ==
  /\ Len(flat) = Records(file)
  /\ \A b \in DOMAIN file :
       /\ Len(file[b]) \in 1..BlockSize /\ (b < Len(file) => Len(file[b]) = BlockSize)
       /\ IsPart(file[b], flat, Base(b - 1))

Blocks == Seq(CacheRecords)
LEMMA FullEnds ==
  ASSUME NEW full \in CacheFiles, NEW flat, NEW b \in DOMAIN full,
         \A c \in DOMAIN full : Len(full[c]) = BlockSize /\ IsPart(full[c], flat, Base(c - 1))
  PROVE  /\ full[b] \in Blocks /\ Base(b - 1) \in Nat /\ Base(b - 1) + BlockSize <= Base(Len(full))
         /\ DOMAIN full[b] = 1..BlockSize
<1>1. full \in Seq(Blocks)
  BY DEF CacheFiles, Blocks
<1> HIDE DEF Blocks
<1>2. full[b] \in Blocks /\ b - 1 \in Nat /\ b <= Len(full) /\ Len(full) \in Nat /\ b \in Nat
  BY <1>1
<1>3. Base(b - 1) \in Nat /\ Base((b - 1) + 1) = Base(b - 1) + BlockSize /\ Base(b) <= Base(Len(full))
  BY <1>2, BaseSteps
<1>4. DOMAIN full[b] = 1..BlockSize
  BY <1>2 DEF Blocks
<1>. QED BY <1>2, <1>3, <1>4

LEMMA AtMostOne ==
  ASSUME NEW s \in Blocks, Len(s) <= 1
  PROVE  Len(s) \in {0, 1} /\ (Len(s) = 1 <=> s # <<>>)
<1> DEFINE k == Len(s)
<1>1. k \in Nat /\ (s = <<>> <=> k = 0)
  BY DEF Blocks
<1>2. k <= 1
  OBVIOUS
<1> HIDE DEF k
<1>3. k = 0 \/ k = 1
  BY <1>1, <1>2
<1>4. k \in {0, 1} /\ (k = 1 <=> s # <<>>)
  BY <1>1, <1>3
<1>. QED BY <1>4 DEF k

LEMMA HoldsParts ==
  ASSUME NEW full \in CacheFiles, NEW filling \in Blocks, NEW last \in Blocks, Len(last) <= 1,
         NEW flat \in Blocks, Holds(flat, full, filling, last)
  PROVE  /\ filling \o last \in Blocks /\ Len(filling \o last) = Len(filling) + Len(last)
         /\ IsPart(filling \o last, flat, Base(Len(full)))
         /\ Len(flat) = Base(Len(full)) + Len(filling \o last) /\ Len(filling \o last) <= BlockSize
         /\ Base(Len(full)) \in Nat /\ Len(full) \in Nat
<1> DEFINE base == Base(Len(full))
           filled == filling \o last
<1>1. Len(full) \in Nat /\ base \in Nat
  BY BaseSteps DEF CacheFiles
<1>2. /\ filled \in Blocks /\ Len(filled) = Len(filling) + Len(last)
      /\ DOMAIN filled = 1..(Len(filling) + Len(last))
      /\ \A j \in 1..Len(filling) : filled[j] = filling[j]
      /\ \A j \in 1..Len(last) : filled[Len(filling) + j] = last[j]
  BY DEF Blocks
<1>3. Len(filling) \in Nat /\ Len(last) \in {0, 1} /\ DOMAIN filling = 1..Len(filling)
      /\ (Len(last) = 1 => last # <<>>)
  <2>1. Len(filling) \in Nat /\ DOMAIN filling = 1..Len(filling)
    BY DEF Blocks
  <2>. QED BY <2>1, AtMostOne
<1>4. Len(flat) = base + Len(filling) + Len(last) /\ IsPart(filling, flat, base) /\ Len(filling) < BlockSize
      /\ (last # <<>> => last[1] = flat[Len(flat)])
  BY DEF Holds
<1> HIDE DEF base, filled
<1>5. IsPart(filled, flat, base)
  <2> SUFFICES ASSUME NEW j \in DOMAIN filled PROVE filled[j] = flat[base + j]
    BY DEF IsPart
  <2>1. CASE j \in 1..Len(filling)
    BY <1>2, <1>3, <1>4, <2>1 DEF IsPart
  <2>2. CASE j \notin 1..Len(filling)
    <3>1. Len(last) = 1 /\ j = Len(filling) + 1
      BY <1>2, <1>3, <2>2
    <3>2. filled[j] = last[1] /\ Len(flat) = base + j
      BY <1>1, <1>2, <1>3, <1>4, <3>1
    <3>. QED BY <1>3, <1>4, <3>1, <3>2
  <2>. QED BY <2>1, <2>2
<1>6. Len(flat) = base + Len(filled) /\ Len(filled) <= BlockSize
  BY <1>1, <1>2, <1>3, <1>4, BlocksHoldRecords
<1>. QED BY <1>1, <1>2, <1>5, <1>6 DEF base, filled

\* A record of the last one's day takes its place.
LEMMA ReplaceHolds ==
  ASSUME NEW full \in CacheFiles, NEW filling \in Blocks, NEW last \in Blocks, Len(last) <= 1,
         NEW flat \in Blocks, Holds(flat, full, filling, last), last # <<>>, NEW r \in CacheRecords
  PROVE  Holds([flat EXCEPT ![Len(flat)] = r], full, filling, <<r>>)
<1> DEFINE new == [flat EXCEPT ![Len(flat)] = r]
           l == Len(flat)
           base == Base(Len(full))
<1>1. l = base + Len(filling) + 1 /\ Len(filling) \in Nat /\ base \in Nat /\ DOMAIN flat = 1..l
      /\ Len(filling) < BlockSize /\ DOMAIN filling = 1..Len(filling) /\ Len(last) = 1
  <2>1. Len(last) = 1
    BY AtMostOne
  <2>2. Len(flat) = base + Len(filling) + Len(last) /\ Len(filling) < BlockSize
    BY DEF Holds
  <2>3. base \in Nat
    BY BaseSteps DEF CacheFiles
  <2> HIDE DEF base
  <2>. QED BY <2>1, <2>2, <2>3 DEF Blocks
<1>2. Len(new) = l /\ (\A m \in 1..l : m # l => new[m] = flat[m]) /\ new[l] = r
  <2>1. l \in 1..l
    <3> HIDE DEF base, l
    <3>. QED BY <1>1
  <2>. QED BY <1>1, <2>1 DEF Blocks
<1>3. IsPart(filling, new, base)
  <2>1. IsPart(filling, flat, base)
    BY DEF Holds
  <2> HIDE DEF base, l, new
  <2>. QED BY <1>1, <1>2, <2>1 DEF IsPart
<1>4. ASSUME NEW b \in DOMAIN full PROVE Len(full[b]) = BlockSize /\ IsPart(full[b], new, Base(b - 1))
  <2>1. Len(full[b]) = BlockSize /\ IsPart(full[b], flat, Base(b - 1))
    BY DEF Holds
  <2>2. Base(b - 1) \in Nat /\ Base(b - 1) + BlockSize <= base /\ DOMAIN full[b] = 1..BlockSize
    BY FullEnds DEF Holds
  <2> HIDE DEF base, l, new
  <2>. QED BY <1>1, <1>2, <2>1, <2>2 DEF IsPart
<1>5. Len(<<r>>) = 1 /\ <<r>> # <<>> /\ <<r>>[1] = r
  OBVIOUS
<1> HIDE DEF new, l
<1>6. Len(new) = base + Len(filling) + Len(<<r>>) /\ <<r>>[1] = new[Len(new)]
  BY <1>1, <1>2, <1>5
<1>. QED BY <1>1, <1>3, <1>4, <1>5, <1>6 DEF Holds, new, l

\* Another record: the last one goes to the block, and a full block is written.
LEMMA AppendHolds ==
  ASSUME NEW full \in CacheFiles, NEW filling \in Blocks, NEW last \in Blocks, Len(last) <= 1,
         NEW flat \in Blocks, Holds(flat, full, filling, last), NEW r \in CacheRecords,
         NEW full2, NEW filling2,
         IF Len(filling \o last) = BlockSize
         THEN full2 = Append(full, filling \o last) /\ filling2 = <<>>
         ELSE full2 = full /\ filling2 = filling \o last
  PROVE  Holds(Append(flat, r), full2, filling2, <<r>>)
<1> DEFINE new == Append(flat, r)
           l == Len(flat)
           base == Base(Len(full))
           filled == filling \o last
<1>1. /\ filled \in Blocks /\ IsPart(filled, flat, base) /\ l = base + Len(filled)
      /\ Len(filled) <= BlockSize /\ base \in Nat /\ Len(full) \in Nat
  BY HoldsParts
<1>2. Len(new) = l + 1 /\ (\A m \in 1..l : new[m] = flat[m]) /\ new[l + 1] = r /\ l \in Nat
      /\ Len(filled) \in Nat /\ DOMAIN filled = 1..Len(filled)
  <2>1. Len(new) = l + 1 /\ (\A m \in 1..l : new[m] = flat[m]) /\ new[l + 1] = r /\ l \in Nat
    BY DEF Blocks
  <2> HIDE DEF filled, new, l
  <2>2. Len(filled) \in Nat /\ DOMAIN filled = 1..Len(filled)
    BY <1>1 DEF Blocks
  <2>. QED BY <2>1, <2>2
<1>3. Len(<<r>>) = 1 /\ <<r>> # <<>> /\ <<r>>[1] = r
  OBVIOUS
<1>4. IsPart(filled, new, base)
  <2> HIDE DEF base, l, new, filled
  <2>. QED BY <1>1, <1>2 DEF IsPart
<1>5. ASSUME NEW b \in DOMAIN full PROVE Len(full[b]) = BlockSize /\ IsPart(full[b], new, Base(b - 1))
  <2>1. Len(full[b]) = BlockSize /\ IsPart(full[b], flat, Base(b - 1))
    BY DEF Holds
  <2>2. Base(b - 1) \in Nat /\ Base(b - 1) + BlockSize <= base /\ DOMAIN full[b] = 1..BlockSize
    BY FullEnds DEF Holds
  <2> HIDE DEF base, l, new, filled
  <2> DEFINE k == Len(filled)
             start == Base(b - 1)
  <2>3. \A j \in 1..BlockSize : start + j \in 1..l
    <3>1. l = base + k /\ k \in Nat /\ base \in Nat /\ start \in Nat /\ start + BlockSize <= base
      BY <1>1, <1>2, <2>2
    <3> HIDE DEF k, start
    <3>. QED BY <3>1, BlocksHoldRecords
  <2>. QED BY <1>2, <2>1, <2>2, <2>3 DEF IsPart
<1>6. CASE Len(filled) = BlockSize
  <2>1. full2 = Append(full, filled) /\ filling2 = <<>> /\ full \in Seq(Blocks)
    BY <1>6 DEF CacheFiles, Blocks
  <2> HIDE DEF Blocks, filled, new
  <2>2. /\ Len(full2) = Len(full) + 1 /\ DOMAIN full2 = 1..(Len(full) + 1) /\ DOMAIN full = 1..Len(full)
        /\ full2[Len(full) + 1] = filled /\ \A b \in 1..Len(full) : full2[b] = full[b]
    BY <1>1, <2>1
  <2>3. Base(Len(full2)) = base + BlockSize
    BY <1>1, <2>2, BaseSteps
  <2>4. ASSUME NEW b \in DOMAIN full2
        PROVE  Len(full2[b]) = BlockSize /\ IsPart(full2[b], new, Base(b - 1))
    <3>1. CASE b = Len(full) + 1
      <4>1. b - 1 = Len(full)
        BY <1>1, <3>1
      <4>. QED BY <1>4, <1>6, <2>2, <3>1, <4>1
    <3>2. CASE b # Len(full) + 1
      <4>1. b \in DOMAIN full
        BY <1>1, <2>2, <3>2
      <4>. QED BY <1>5, <2>2, <4>1
    <3>. QED BY <3>1, <3>2
  <2>5. Len(filling2) = 0 /\ IsPart(filling2, new, Base(Len(full2)))
    BY <2>1 DEF IsPart
  <2> HIDE DEF l, base
  <2>6. Len(new) = Base(Len(full2)) + Len(filling2) + Len(<<r>>) /\ <<r>>[1] = new[Len(new)]
    BY <1>1, <1>2, <1>3, <1>6, <2>3, <2>5, BlocksHoldRecords
  <2>. QED BY <1>3, <2>4, <2>5, <2>6, BlocksHoldRecords DEF Holds, new
<1>7. CASE Len(filled) # BlockSize
  <2>1. full2 = full /\ filling2 = filled
    BY <1>7
  <2>2. Len(new) = base + Len(filled) + Len(<<r>>) /\ <<r>>[1] = new[Len(new)] /\ Len(filled) < BlockSize
    <3>1. Len(new) = l + 1 /\ new[l + 1] = r /\ l \in Nat
      BY <1>2
    <3> HIDE DEF base, l, new, filled
    <3> DEFINE k == Len(filled)
               m == Len(new)
    <3>2. k < BlockSize /\ m = base + k + 1
      <4>1. l = base + k /\ k \in Nat /\ base \in Nat /\ k <= BlockSize /\ k # BlockSize /\ m = l + 1
        BY <1>1, <1>2, <1>7, <3>1
      <4> HIDE DEF k, m
      <4>. QED BY <4>1, BlocksHoldRecords
    <3>. QED BY <1>3, <3>1, <3>2
  <2> HIDE DEF new, filled
  <2>. QED BY <1>3, <1>4, <1>5, <2>1, <2>2 DEF Holds, new
<1>. QED BY <1>6, <1>7

\* The finished file has the records the writer held.
LEMMA FinishHolds ==
  ASSUME NodeTypes, NEW flat \in Blocks, Holds(flat, blocks, buffer, pending)
  PROVE  FileHolds(Finished, flat)
<1> DEFINE base == Base(Len(blocks))
<1>1. /\ Filled \in Blocks /\ IsPart(Filled, flat, base) /\ Len(flat) = base + Len(Filled)
      /\ Len(Filled) <= BlockSize /\ base \in Nat /\ Len(blocks) \in Nat /\ blocks \in CacheFiles
  BY HoldsParts DEF NodeTypes, Blocks, Filled
<1>2. ASSUME NEW b \in DOMAIN blocks PROVE Len(blocks[b]) = BlockSize /\ IsPart(blocks[b], flat, Base(b - 1))
  BY DEF Holds
<1>3. blocks \in Seq(Blocks) /\ Len(Filled) \in Nat /\ (Filled # <<>> => Len(Filled) > 0)
  BY <1>1 DEF CacheFiles, Blocks
<1> HIDE DEF Blocks
<1>4. CASE Filled = <<>>
  <2>1. Finished = blocks /\ Len(flat) = base /\ Len(Filled) = 0
    BY <1>1, <1>4 DEF Finished
  <2>2. Records(blocks) = base
    <3>1. CASE blocks = <<>>
      BY <3>1, BaseSteps DEF Records
    <3>2. CASE blocks # <<>>
      <4>1. Len(blocks) \in DOMAIN blocks /\ Len(blocks) - 1 \in Nat
        BY <1>3, <3>2
      <4>2. Records(blocks) = Base(Len(blocks) - 1) + BlockSize
        BY <1>2, <3>2, <4>1 DEF Records, Base
      <4>3. Base((Len(blocks) - 1) + 1) = Base(Len(blocks) - 1) + BlockSize
        BY <4>1, BaseSteps
      <4>. QED BY <1>1, <4>2, <4>3
    <3>. QED BY <3>1, <3>2
  <2>. QED BY <1>2, <2>1, <2>2, BlocksHoldRecords DEF FileHolds
<1>5. CASE Filled # <<>>
  <2> DEFINE file == Append(blocks, Filled)
             n == Len(blocks) + 1
  <2>1. Finished = file
    BY <1>5 DEF Finished
  <2>2. /\ Len(file) = n /\ DOMAIN file = 1..n /\ DOMAIN blocks = 1..Len(blocks) /\ file # <<>>
        /\ file[n] = Filled /\ \A b \in 1..Len(blocks) : file[b] = blocks[b]
    BY <1>1, <1>3
  <2> HIDE DEF file
  <2>3. n - 1 = Len(blocks)
    BY <1>1
  <2>4. Records(file) = base + Len(Filled)
    BY <2>2, <2>3 DEF Records, Base
  <2>5. ASSUME NEW b \in DOMAIN file
        PROVE  /\ Len(file[b]) \in 1..BlockSize /\ (b < Len(file) => Len(file[b]) = BlockSize)
               /\ IsPart(file[b], flat, Base(b - 1))
    <3>1. CASE b = n
      BY <1>1, <1>3, <1>5, <2>2, <2>3, <3>1, BlocksHoldRecords
    <3>2. CASE b # n
      <4>1. b \in DOMAIN blocks
        BY <1>1, <2>2, <3>2
      <4>. QED BY <1>2, <2>2, <4>1, BlocksHoldRecords
    <3>. QED BY <3>1, <3>2
  <2>. QED BY <1>1, <2>1, <2>4, <2>5 DEF FileHolds
<1>. QED BY <1>4, <1>5

\* The record that a block and an offset name.
LEMMA RecordIs ==
  ASSUME NEW file \in CacheFiles, NEW flat \in Blocks, FileHolds(file, flat)
  PROVE  /\ Records(file) = Len(flat) /\ Len(flat) \in Nat
         /\ \A i \in 0..(Len(flat) - 1) : Record(file, i) = flat[i + 1]
<1>1. Records(file) = Len(flat) /\ Len(flat) \in Nat /\ file \in Seq(Blocks)
  BY DEF FileHolds, Blocks, CacheFiles
<1> SUFFICES ASSUME NEW i \in 0..(Len(flat) - 1) PROVE Record(file, i) = flat[i + 1]
  BY <1>1
<1>2. \A b \in DOMAIN file : file[b] \in Blocks /\ Len(file[b]) \in Nat /\ DOMAIN file[b] = 1..Len(file[b])
  <2>1. \A s \in Blocks : Len(s) \in Nat /\ DOMAIN s = 1..Len(s)
    BY DEF Blocks
  <2> HIDE DEF Blocks
  <2>. QED BY <1>1, <2>1
<1> HIDE DEF Blocks
<1> DEFINE q == i \div BlockSize
           o == i % BlockSize
           n == Len(file)
<1>3. q \in Nat /\ o \in 0..(BlockSize - 1) /\ i = Base(q) + o /\ i < Len(flat)
  <2>1. i \in Nat /\ i < Len(flat)
    BY <1>1
  <2>. QED BY <2>1, BaseOfRecord
<1>4. file # <<>> /\ n \in Nat /\ n > 0 /\ n \in DOMAIN file /\ DOMAIN file = 1..n
      /\ Len(flat) = Base(n - 1) + Len(file[n])
  <2>1. file # <<>>
    BY <1>1 DEF Records
  <2>. QED BY <1>1, <2>1 DEF Records, Base
<1> HIDE DEF q, o, n
<1>5. Len(file[n]) \in 1..BlockSize
  BY <1>4 DEF FileHolds, n
<1>6. q + 1 \in DOMAIN file
  <2> SUFFICES ASSUME q >= n PROVE FALSE
    BY <1>3, <1>4
  <2>1. Base(n) <= Base(q) /\ Base((n - 1) + 1) = Base(n - 1) + BlockSize /\ Base(q) \in Nat /\ Base(n - 1) \in Nat
    BY <1>3, <1>4, BaseSteps
  <2>2. Base(n) = Base(n - 1) + BlockSize
    BY <1>4, <2>1
  <2> DEFINE x == Base(n)
             y == Base(n - 1)
             z == Base(q)
             k == Len(file[n])
             l == Len(flat)
  <2>3. /\ x <= z /\ x = y + BlockSize /\ z \in Nat /\ y \in Nat /\ k \in 1..BlockSize
        /\ l = y + k /\ i = z + o /\ i < l /\ o \in 0..(BlockSize - 1)
    BY <1>3, <1>4, <1>5, <2>1, <2>2
  <2> HIDE DEF x, y, z, k, l
  <2>. QED BY <2>3, BlocksHoldRecords
<1>7. o + 1 \in DOMAIN file[q + 1]
  <2>1. CASE q + 1 = n
    <3>1. Base(q) \in Nat /\ q = n - 1
      BY <1>3, <1>4, <2>1, BaseSteps
    <3>. QED BY <1>1, <1>2, <1>3, <1>4, <1>5, <2>1, <3>1, BlocksHoldRecords
  <2>2. CASE q + 1 # n
    <3>1. Len(file[q + 1]) = BlockSize
      <4>1. q + 1 < n
        BY <1>3, <1>4, <1>6, <2>2
      <4>. QED BY <1>6, <4>1 DEF FileHolds, n
    <3>. QED BY <1>2, <1>3, <1>6, <3>1, BlocksHoldRecords
  <2>. QED BY <2>1, <2>2
<1>8. file[q + 1][o + 1] = flat[Base((q + 1) - 1) + (o + 1)]
  BY <1>6, <1>7 DEF FileHolds, IsPart
<1>9. (q + 1) - 1 = q /\ Base(q) + (o + 1) = i + 1
  <2>1. Base(q) \in Nat /\ o \in Int
    BY <1>3, BaseSteps, BlocksHoldRecords
  <2>. QED BY <1>3, <2>1
<1>. QED BY <1>8, <1>9 DEF Record, q, o

LEMMA LastOfExists ==
  ASSUME NEW n \in Nat, NEW S \in SUBSET (1..n), S # {}
  PROVE  LastOf(S) \in S /\ \A j \in S : j <= LastOf(S)
<1>1. IsFiniteSet(S) /\ S \subseteq Int
  <2>1. IsFiniteSet(1..n) /\ S \subseteq 1..n
    BY FS_Interval
  <2>2. IsFiniteSet(S)
    BY <2>1, FS_Subset
  <2>. QED BY <2>1, <2>2
<1>2. PICK i \in S : \A j \in S : j <= i
  BY <1>1, GreatestExists
<1>3. LastOf(S) = i
  BY <1>1, <1>2, LastOfIs
<1>. QED BY <1>2, <1>3

\* Records that tell the whole file answer with a node's last position.
RecordsUpTo(flat, node, day) == {m \in DOMAIN flat : flat[m].node = node /\ flat[m].day <= day}
LEMMA CellAtIs ==
  ASSUME nodeFile \in Seq(NodeVersions), NEW flat, Tells(flat, Len(nodeFile)), NEW v, NEW d \in Nat
  PROVE  CellAt(v, d) = IF RecordsUpTo(flat, v, d) = {} THEN NoCell
                        ELSE flat[LastOf(RecordsUpTo(flat, v, d))].cell
<1> DEFINE n == Len(nodeFile)
           L == Located(v, d)
           U == RecordsUpTo(flat, v, d)
<1>1. n \in Nat /\ DOMAIN nodeFile = 1..n /\ L \in SUBSET (1..n)
  BY DEF Located
<1>2. U \in SUBSET (1..Len(flat)) /\ Len(flat) \in Nat
  BY TellsParts DEF RecordsUpTo
<1>3. \A i \in L : IsLocated(i) /\ nodeFile[i].id = v /\ nodeFile[i].day <= d
  BY DEF Located, IsLocated
<1>4. \A i \in 1..n : IsLocated(i) /\ nodeFile[i].id = v /\ nodeFile[i].day <= d => i \in L
  BY <1>1 DEF Located, IsLocated
<1>5. \A m \in U : m \in DOMAIN flat /\ flat[m].node = v /\ flat[m].day <= d
  BY DEF RecordsUpTo
<1>6. \A m \in DOMAIN flat : flat[m].node = v /\ flat[m].day <= d => m \in U
  BY DEF RecordsUpTo
<1>7. CellAt(v, d) = IF L = {} THEN NoCell ELSE nodeFile[LastOf(L)].cell
  BY DEF CellAt
<1>8. \A i \in 1..n : /\ nodeFile[i].id \in Int /\ nodeFile[i].day \in Nat
                      /\ RecordOf(nodeFile[i]).node = nodeFile[i].id
                      /\ RecordOf(nodeFile[i]).day = nodeFile[i].day
                      /\ RecordOf(nodeFile[i]).cell = nodeFile[i].cell
  BY <1>1, RecordTypes
<1> HIDE DEF n, L, U
<1>9. CASE L = {}
  <2>1. ASSUME NEW m \in U PROVE FALSE
    <3>1. PICK i \in 1..n : flat[m] = RecordOf(nodeFile[i]) /\ IsLocated(i)
      BY <1>5 DEF Tells, n
    <3>2. i \in L
      BY <1>4, <1>5, <1>8, <3>1
    <3>. QED BY <1>9, <3>2
  <2>2. U = {}
    BY <2>1
  <2>. QED BY <1>7, <1>9, <2>2 DEF U
<1>10. CASE L # {}
  <2> DEFINE i == LastOf(L)
             M == LastOf(U)
  <2>1. i \in L /\ \A j \in L : j <= i
    BY <1>1, <1>10, LastOfExists
  <2>2. i \in 1..n /\ IsLocated(i) /\ nodeFile[i].id = v /\ nodeFile[i].day <= d
    BY <1>1, <1>3, <2>1
  <2>3. PICK m \in DOMAIN flat : flat[m].node = nodeFile[i].id /\ flat[m].day = nodeFile[i].day
    BY <2>2 DEF Tells, n
  <2>4. m \in U
    BY <1>6, <2>2, <2>3
  <2>5. M \in U /\ \A j \in U : j <= M
    BY <1>2, <2>4, LastOfExists
  <2>6. PICK k \in 1..n : /\ flat[M] = RecordOf(nodeFile[k]) /\ IsLocated(k)
                          /\ \A j \in 1..n : SameDayAs(k, j) /\ IsLocated(j) => j <= k
    BY <1>5, <2>5 DEF Tells, n
  <2>7. flat[M].node = v /\ flat[M].day <= d /\ M \in DOMAIN flat
    BY <1>5, <2>5
  <2> HIDE DEF i, M
  <2>8. nodeFile[k].id = v /\ nodeFile[k].day <= d /\ flat[M].day = nodeFile[k].day
    BY <1>8, <2>6, <2>7
  <2>9. k <= i /\ k \in Int /\ i \in Int
    BY <1>4, <2>1, <2>2, <2>6, <2>8
  <2>10. nodeFile[k].day >= nodeFile[i].day
    <3>1. m <= M /\ m \in Int /\ M \in Int
      BY <1>2, <2>4, <2>5
    <3>2. CASE m = M
      BY <1>8, <2>2, <2>3, <2>6, <2>8, <3>2
    <3>3. CASE m # M
      <4>1. RecordBefore(flat[m], flat[M])
        BY <2>3, <2>7, <3>1, <3>3 DEF Tells
      <4>. QED BY <1>8, <2>2, <2>3, <2>6, <2>7, <2>8, <4>1 DEF RecordBefore
    <3>. QED BY <3>2, <3>3
  <2>11. k = i
    <3> SUFFICES ASSUME k < i PROVE FALSE
      BY <2>9
    <3>1. ~RecordBefore(RecordOf(nodeFile[i]), RecordOf(nodeFile[k]))
      BY <2>2, <2>6 DEF Tells, n
    <3>2. nodeFile[k].day <= nodeFile[i].day
      BY <1>8, <2>2, <2>6, <2>8, <3>1 DEF RecordBefore
    <3>3. SameDayAs(k, i)
      BY <1>8, <2>2, <2>6, <2>8, <2>10, <3>2 DEF SameDayAs
    <3>. QED BY <2>2, <2>6, <2>9, <3>3
  <2>. QED BY <1>7, <1>8, <1>10, <2>4, <2>6, <2>11 DEF U, i, M
<1>. QED BY <1>9, <1>10

CacheInv ==
  /\ phase = "nodes" =>
       /\ nodePos <= Len(nodeFile)
       /\ \E flat \in Blocks : Tells(flat, nodePos) /\ Holds(flat, blocks, buffer, pending)
  /\ "nodes" \in staged =>
       /\ cache \in CacheFiles
       /\ \E flat \in Blocks : Tells(flat, Len(nodeFile)) /\ FileHolds(cache, flat)

LEMMA TellsStays ==
  ASSUME nodeFile' = nodeFile, NEW flat, NEW n PROVE Tells(flat, n)' <=> Tells(flat, n)
BY DEF Tells, IsLocated, SameDayAs

LEMMA CacheInit == Init => CacheInv
BY DEF Init, CacheInv

LEMMA NothingHolds == Holds(<<>>, <<>>, <<>>, <<>>)
BY BaseSteps, BlocksHoldRecords DEF Holds, IsPart

LEMMA ReadNodeHolds ==
  ASSUME Types, ReadNode, nodeFile' = nodeFile, NEW flat \in Blocks,
         Tells(flat, nodePos), Holds(flat, blocks, buffer, pending)
  PROVE  \E new \in Blocks : Tells(new, nodePos') /\ Holds(new, blocks', buffer', pending')
<1> DEFINE n == nodePos + 1
           r == RecordOf(nodeFile[n])
<1>1. /\ nodeFile \in Seq(NodeVersions) /\ nodePos \in Nat /\ nodePos < Len(nodeFile) /\ nodePos' = n
      /\ blocks \in CacheFiles /\ buffer \in Blocks /\ pending \in Blocks /\ Len(pending) <= 1
      /\ Version = nodeFile[n] /\ n \in DOMAIN nodeFile
  BY DEF Types, InputTypes, IsNodeFile, NodeTypes, Blocks, ReadNode, ReadLocated, ReadDeleted, MoreNodes, Version
<1>2. CASE ReadDeleted
  <2>1. ~IsLocated(n) /\ blocks' = blocks /\ buffer' = buffer /\ pending' = pending
    BY <1>1, <1>2 DEF ReadDeleted, IsLocated, cacheVars
  <2>. QED BY <1>1, <2>1, DeletedTells
<1>3. CASE ReadLocated
  <2>1. IsLocated(n) /\ ~Unsorted(r) /\ Add(r)
    BY <1>1, <1>3 DEF ReadLocated, IsLocated
  <2>2. r \in CacheRecords /\ r.node = nodeFile[n].id /\ r.day = nodeFile[n].day /\ HasKey(r)
    BY <1>1, <2>1, RecordTypes DEF HasKey
  <2>3. pending = <<>> => flat = <<>>
    BY DEF Holds
  <2>4. pending # <<>> => flat # <<>> /\ pending[1] = flat[Len(flat)] /\ HasKey(pending[1])
    <3> SUFFICES ASSUME pending # <<>> PROVE flat # <<>> /\ pending[1] = flat[Len(flat)] /\ HasKey(pending[1])
      OBVIOUS
    <3>1. Len(pending) = 1 /\ pending[1] \in CacheRecords
      BY <1>1, AtMostOne DEF Blocks
    <3> DEFINE base == Base(Len(blocks))
               k == Len(buffer)
               l == Len(flat)
    <3>2. l = base + k + 1 /\ base \in Nat /\ k \in Nat
      <4>1. l = base + k + Len(pending) /\ base \in Nat
        BY <1>1, HoldsParts DEF Holds
      <4>2. k \in Nat
        BY <1>1 DEF Blocks
      <4>. QED BY <3>1, <4>1, <4>2
    <3>3. flat # <<>> <=> l # 0
      BY DEF Blocks
    <3> HIDE DEF base, k, l
    <3>4. flat # <<>>
      BY <3>2, <3>3
    <3>. QED BY <3>1, <3>4, CacheRecordTypes DEF Holds, HasKey, l
  <2>5. CASE SameDay(r)
    <3> DEFINE new == [flat EXCEPT ![Len(flat)] = r]
    <3>1. pending # <<>> /\ pending[1].node = r.node /\ pending[1].day = r.day
          /\ blocks' = blocks /\ buffer' = buffer /\ pending' = <<r>>
      BY <2>1, <2>5 DEF Add, SameDay
    <3>2. Tells(new, n)
      BY <1>1, <2>1, <2>2, <2>4, <3>1, ReplaceTells
    <3>3. Holds(new, blocks, buffer, <<r>>)
      <4> HIDE DEF r
      <4>. QED BY <1>1, <2>2, <3>1, ReplaceHolds
    <3>4. new \in Blocks
      BY <3>2, TellsParts DEF Blocks
    <3>. QED BY <1>1, <3>1, <3>2, <3>3, <3>4
  <2>6. CASE ~SameDay(r)
    <3> DEFINE new == Append(flat, r)
    <3>1. FlushPending /\ pending' = <<r>>
      BY <2>1, <2>6 DEF Add
    <3>2. flat = <<>> \/ RecordBefore(flat[Len(flat)], r)
      <4> SUFFICES ASSUME pending # <<>> PROVE RecordBefore(pending[1], r)
        BY <2>3, <2>4
      <4> DEFINE p == pending[1]
      <4>1. ~(p.node > r.node \/ (p.node = r.node /\ p.day > r.day)) /\ ~(p.node = r.node /\ p.day = r.day)
        BY <2>1, <2>6 DEF Unsorted, SameDay
      <4>2. HasKey(p) /\ HasKey(r)
        BY <2>2, <2>4
      <4> HIDE DEF p, r
      <4>3. RecordBefore(p, r)
        BY <4>1, <4>2 DEF HasKey, RecordBefore
      <4>. QED BY <4>3 DEF p, r
    <3>3. Tells(new, n)
      BY <1>1, <2>1, <3>2, AppendTells
    <3>4. IF Len(buffer \o pending) = BlockSize
          THEN blocks' = Append(blocks, buffer \o pending) /\ buffer' = <<>>
          ELSE blocks' = blocks /\ buffer' = buffer \o pending
      BY <3>1 DEF FlushPending, Filled
    <3>5. Holds(new, blocks', buffer', <<r>>)
      <4> HIDE DEF r
      <4>. QED BY <1>1, <2>2, <3>4, AppendHolds
    <3>6. new \in Blocks
      BY <3>3, TellsParts DEF Blocks
    <3>. QED BY <1>1, <3>1, <3>3, <3>5, <3>6
  <2>. QED BY <2>5, <2>6
<1>. QED BY <1>2, <1>3 DEF ReadNode

LEMMA CacheStep == ASSUME Types, CacheInv, [Next]_vars PROVE CacheInv'
<1>. USE DEF inputs
<1>0. Len(nodeFile) \in Nat /\ nodePos \in Nat /\ (phase = "nodes" => staged = {})
  BY DEF Types, InputTypes, NodeTypes, RunTypes, IsNodeFile
<1>1. ASSUME nodeFile' = nodeFile, cache' = cache, phase' # "nodes",
             "nodes" \in staged' => "nodes" \in staged
      PROVE  CacheInv'
  BY <1>1, TellsStays DEF CacheInv
<1>2. CASE \E verb \in Verbs : Start(verb)
  BY <1>1, <1>2 DEF Start, history
<1>3. CASE NewFile
  BY <1>3 DEF NewFile, io, CacheInv
<1>4. CASE BeginNodes
  <2>1. nodePos' = 0 /\ blocks' = <<>> /\ buffer' = <<>> /\ pending' = <<>> /\ staged' = {}
        /\ nodeFile' = nodeFile
    BY <1>4 DEF BeginNodes, NodePassStart
  <2>2. Tells(<<>>, 0)' /\ Holds(<<>>, blocks', buffer', pending') /\ <<>> \in Blocks
    BY <2>1, NothingTells, TellsStays, NothingHolds DEF Blocks
  <2>. QED BY <1>0, <2>1, <2>2 DEF CacheInv
<1>5. CASE StepNodes
  <2>1. phase = "nodes" /\ ReadNode /\ nodeFile' = nodeFile /\ staged' = staged /\ staged = {}
    BY <1>0, <1>5 DEF StepNodes, history
  <2>2. nodePos' = nodePos + 1 /\ nodePos < Len(nodeFile)
    BY <2>1 DEF ReadNode, ReadLocated, ReadDeleted, MoreNodes
  <2>3. PICK flat \in Blocks : Tells(flat, nodePos) /\ Holds(flat, blocks, buffer, pending)
    BY <2>1 DEF CacheInv
  <2>4. PICK new \in Blocks : Tells(new, nodePos') /\ Holds(new, blocks', buffer', pending')
    BY <2>1, <2>3, ReadNodeHolds
  <2>5. Tells(new, nodePos)'
    BY <2>1, <2>4 DEF Tells, IsLocated, SameDayAs
  <2>. QED BY <1>0, <2>1, <2>2, <2>4, <2>5 DEF CacheInv
<1>6. CASE EndNodes
  <2>1. phase = "nodes" /\ ~MoreNodes /\ cache' = Finished /\ staged' = {"nodes"} /\ phase' = "idle"
        /\ nodeFile' = nodeFile
    BY <1>6 DEF EndNodes
  <2>2. PICK flat \in Blocks : Tells(flat, nodePos) /\ Holds(flat, blocks, buffer, pending)
    BY <2>1 DEF CacheInv
  <2>3. nodePos = Len(nodeFile)
    BY <1>0, <2>1 DEF MoreNodes, CacheInv
  <2>4. FileHolds(cache', flat) /\ cache' \in CacheFiles
    BY <2>1, <2>2, FinishHolds, FinishedTypes DEF Types
  <2>5. Tells(flat, Len(nodeFile))'
    BY <2>1, <2>2, <2>3 DEF Tells, IsLocated, SameDayAs
  <2>. QED BY <2>1, <2>4, <2>5 DEF CacheInv
<1>7. CASE FailNodes
  BY <1>0, <1>7 DEF FailNodes, End, history, CacheInv
<1>8. CASE BeginWays \/ FailWays \/ StepWays \/ EndWays
  BY <1>1, <1>8 DEF BeginWays, FailWays, StepWays, EndWays, End, io, history
<1>9. CASE BeginSort \/ RemoveStaging \/ EndSort
  BY <1>1, <1>9 DEF BeginSort, RemoveStaging, EndSort, history
<1>10. ASSUME NEW y \in Years, SkipYear(y) \/ MergeYear(y) \/ FailSort(y) PROVE CacheInv'
  BY <1>1, <1>10 DEF SkipYear, MergeYear, FailSort, End, history
<1>11. CASE Crash
  <2>1. CASE phase = "nodes"
    BY <1>0, <1>11, <2>1 DEF Crash, End, CacheInv
  <2>2. CASE phase # "nodes"
    BY <1>1, <1>11, <2>2 DEF Crash, End
  <2>. QED BY <2>1, <2>2
<1>12. CASE UNCHANGED vars
  BY <1>12, TellsStays DEF vars, nodeVars, io, history, CacheInv
<1>. QED BY <1>2, <1>3, <1>4, <1>5, <1>6, <1>7, <1>8, <1>9, <1>10, <1>11, <1>12 DEF Next

\* The finished cache file, whatever the size of its blocks, ascends by node and
\* day and answers with a node's last position (node_cache.hpp, Writer, Reader).
THEOREM CacheIsTheHistoryTheorem == Spec => []CacheIsTheHistory
<1> DEFINE I == Types /\ CacheInv
<1>1. Init => I
  BY TypesInit, CacheInit
<1>2. I /\ [Next]_vars => I'
  BY TypesStep, CacheStep
<1>3. I => CacheIsTheHistory
  <2> SUFFICES ASSUME I, Readable(cache), "nodes" \in staged PROVE CacheIsTheHistory
    BY DEF CacheIsTheHistory
  <2>1. PICK flat \in Blocks : Tells(flat, Len(nodeFile)) /\ FileHolds(cache, flat)
    BY DEF CacheInv
  <2>2. /\ Records(cache) = Len(flat) /\ Len(flat) \in Nat
        /\ \A i \in 0..(Len(flat) - 1) : Record(cache, i) = flat[i + 1]
    BY <2>1, RecordIs DEF CacheInv
  <2>3. DOMAIN flat = 1..Len(flat)
    BY DEF Blocks
  <2> DEFINE all == 0..(Records(cache) - 1)
             upTo(n, d) == {i \in all : Record(cache, i).node = n /\ Record(cache, i).day <= d}
  <2>4. ASSUME NEW i \in all, NEW j \in all, i < j PROVE RecordBefore(Record(cache, i), Record(cache, j))
    <3>1. i + 1 \in DOMAIN flat /\ j + 1 \in DOMAIN flat /\ i + 1 < j + 1
      BY <2>2, <2>3, <2>4
    <3>2. RecordBefore(flat[i + 1], flat[j + 1])
      BY <2>1, <3>1 DEF Tells
    <3>. QED BY <2>2, <3>2
  <2>5. ASSUME NEW v, NEW d \in Days
        PROVE  CellAt(v, d) = IF upTo(v, d) = {} THEN NoCell ELSE Record(cache, LastOf(upTo(v, d))).cell
    <3> DEFINE U == RecordsUpTo(flat, v, d)
               T == upTo(v, d)
    <3>1. nodeFile \in Seq(NodeVersions) /\ d \in Nat
      BY DaysAreNumbers DEF Types, InputTypes, IsNodeFile
    <3>2. CellAt(v, d) = IF U = {} THEN NoCell ELSE flat[LastOf(U)].cell
      BY <2>1, <3>1, CellAtIs
    <3>3. \A i \in T : i + 1 \in U
      BY <2>2, <2>3 DEF RecordsUpTo
    <3>4. \A m \in U : m - 1 \in T /\ m \in Int
      <4> SUFFICES ASSUME NEW m \in U PROVE m - 1 \in T /\ m \in Int
        OBVIOUS
      <4>1. m \in 1..Len(flat) /\ flat[m].node = v /\ flat[m].day <= d
        BY <2>3 DEF RecordsUpTo
      <4>2. m - 1 \in 0..(Len(flat) - 1) /\ (m - 1) + 1 = m
        BY <2>2, <4>1
      <4>. QED BY <2>2, <4>1, <4>2
    <3>5. T \subseteq Int /\ U \in SUBSET (1..Len(flat))
      BY <2>2, <2>3 DEF RecordsUpTo
    <3>6. T \subseteq 0..(Len(flat) - 1)
      BY <2>2
    <3> HIDE DEF U, T
    <3>7. CASE U = {}
      BY <3>2, <3>3, <3>7 DEF T
    <3>8. CASE U # {}
      <4> DEFINE m == LastOf(U)
      <4>1. m \in U /\ \A j \in U : j <= m
        BY <2>2, <3>5, <3>8, LastOfExists
      <4> HIDE DEF m
      <4>2. m - 1 \in T /\ m \in Int
        BY <3>4, <4>1
      <4>3. \A j \in T : j <= m - 1
        BY <3>3, <3>5, <4>1, <4>2
      <4>4. LastOf(T) = m - 1
        BY <3>5, <4>2, <4>3, LastOfIs
      <4>5. Record(cache, m - 1) = flat[m]
        <5>1. m - 1 \in 0..(Len(flat) - 1) /\ (m - 1) + 1 = m
          BY <3>6, <4>2
        <5>. QED BY <2>2, <5>1
      <4>. QED BY <3>2, <3>8, <4>2, <4>4, <4>5 DEF T, m
    <3>. QED BY <3>7, <3>8
  <2>. QED BY <2>4, <2>5 DEF CacheIsTheHistory, RecordBefore
<1>. QED BY <1>1, <1>2, <1>3, PTL DEF Spec

-----------------------------------------------------------------------------
(* The refs in order *)

\* The batch's i-th ref comes before its j-th; the refs that come before one,
\* and itself, are those its rank counts.
Precedes(batch, i, j) == KeyBefore(batch[i], batch[j]) \/ (batch[i] = batch[j] /\ i < j)
UpTo(batch, i) ==
  {j \in DOMAIN batch : KeyBefore(batch[j], batch[i]) \/ (batch[j] = batch[i] /\ j <= i)}

IsRef(r) == r.node \in Int /\ r.day \in Nat /\ r.slot \in Nat
LEMMA RefsInOrder ==
  ASSUME NEW r, NEW s, NEW t, IsRef(r), IsRef(s), IsRef(t)
  PROVE  /\ ~KeyBefore(r, r)
         /\ KeyBefore(r, s) => ~KeyBefore(s, r)
         /\ KeyBefore(r, s) /\ KeyBefore(s, t) => KeyBefore(r, t)
<1> DEFINE a == r.node
           b == s.node
           c == t.node
           d == r.day
           e == s.day
           f == t.day
           g == r.slot
           h == s.slot
           k == t.slot
           before(x1, y1, z1, x2, y2, z2) ==
             x1 < x2 \/ (x1 = x2 /\ y1 < y2) \/ (x1 = x2 /\ y1 = y2 /\ z1 < z2)
<1>1. /\ a \in Int /\ b \in Int /\ c \in Int /\ d \in Int /\ e \in Int /\ f \in Int
      /\ g \in Int /\ h \in Int /\ k \in Int
  BY DEF IsRef
<1> HIDE DEF a, b, c, d, e, f, g, h, k
<1>2. /\ ~before(a, d, g, a, d, g)
      /\ before(a, d, g, b, e, h) => ~before(b, e, h, a, d, g)
      /\ before(a, d, g, b, e, h) /\ before(b, e, h, c, f, k) => before(a, d, g, c, f, k)
  BY <1>1
<1>. QED BY <1>2 DEF KeyBefore, a, b, c, d, e, f, g, h, k

LEMMA RefTypes ==
  ASSUME NEW r \in Refs PROVE IsRef(r) /\ r = [node |-> r.node, day |-> r.day, slot |-> r.slot]
BY DaysAreNumbers DEF Refs, IsRef

LEMMA RefsTotal ==
  ASSUME NEW r \in Refs, NEW s \in Refs PROVE KeyBefore(r, s) \/ KeyBefore(s, r) \/ r = s
<1> DEFINE a == r.node
           b == s.node
           d == r.day
           e == s.day
           g == r.slot
           h == s.slot
<1>1. /\ a \in Int /\ b \in Int /\ d \in Int /\ e \in Int /\ g \in Int /\ h \in Int
      /\ r = [node |-> a, day |-> d, slot |-> g] /\ s = [node |-> b, day |-> e, slot |-> h]
  BY RefTypes DEF IsRef
<1> HIDE DEF a, b, d, e, g, h
<1>2. \/ a < b \/ (a = b /\ d < e) \/ (a = b /\ d = e /\ g < h)
      \/ b < a \/ (b = a /\ e < d) \/ (b = a /\ e = d /\ h < g)
      \/ a = b /\ d = e /\ g = h
  BY <1>1
<1>3. a = b /\ d = e /\ g = h => r = s
  BY <1>1
<1>. QED BY <1>2, <1>3 DEF KeyBefore, a, b, d, e, g, h

LEMMA RanksAscend ==
  ASSUME NEW batch \in Seq(Refs), NEW i \in DOMAIN batch, NEW j \in DOMAIN batch
  PROVE  /\ Rank(batch, i) \in 1..Len(batch)
         /\ i # j => Precedes(batch, i, j) \/ Precedes(batch, j, i)
         /\ Precedes(batch, i, j) => Rank(batch, i) < Rank(batch, j)
<1> DEFINE n == Len(batch)
<1>1. n \in Nat /\ DOMAIN batch = 1..n /\ i \in Int /\ j \in Int
  OBVIOUS
<1>2. \A m \in DOMAIN batch : batch[m] \in Refs /\ IsRef(batch[m])
  <2>1. \A m \in DOMAIN batch : batch[m] \in Refs
    OBVIOUS
  <2>. QED BY <2>1, RefTypes
<1> HIDE DEF n
<1>3. IsFiniteSet(1..n) /\ Cardinality(1..n) = n
  BY <1>1, FS_Interval
<1>4. ASSUME NEW k \in DOMAIN batch
      PROVE  /\ Rank(batch, k) = Cardinality(UpTo(batch, k)) /\ k \in UpTo(batch, k)
             /\ IsFiniteSet(UpTo(batch, k)) /\ Rank(batch, k) \in 1..n
  <2>1. Rank(batch, k) = Cardinality(UpTo(batch, k))
    BY DEF Rank, UpTo
  <2>2. k \in UpTo(batch, k) /\ UpTo(batch, k) \subseteq 1..n
    BY <1>1 DEF UpTo
  <2>3. IsFiniteSet(UpTo(batch, k)) /\ Cardinality(UpTo(batch, k)) <= n
    BY <1>3, <2>2, FS_Subset
  <2>4. Cardinality(UpTo(batch, k)) \in Nat /\ Cardinality(UpTo(batch, k)) # 0
    BY <2>2, <2>3, FS_CardinalityType, FS_EmptySet
  <2>. QED BY <1>1, <2>1, <2>2, <2>3, <2>4
<1>5. i # j => Precedes(batch, i, j) \/ Precedes(batch, j, i)
  <2> SUFFICES ASSUME i # j PROVE Precedes(batch, i, j) \/ Precedes(batch, j, i)
    OBVIOUS
  <2>1. KeyBefore(batch[i], batch[j]) \/ KeyBefore(batch[j], batch[i]) \/ batch[i] = batch[j]
    BY <1>2, RefsTotal
  <2>2. i < j \/ j < i
    BY <1>1
  <2>. QED BY <2>1, <2>2 DEF Precedes
<1>6. ASSUME Precedes(batch, i, j) PROVE Rank(batch, i) < Rank(batch, j)
  <2>1. UpTo(batch, i) \subseteq UpTo(batch, j)
    <3> SUFFICES ASSUME NEW m \in UpTo(batch, i) PROVE m \in UpTo(batch, j)
      OBVIOUS
    <3>1. m \in DOMAIN batch /\ m \in Int /\ (KeyBefore(batch[m], batch[i]) \/ (batch[m] = batch[i] /\ m <= i))
      BY <1>1 DEF UpTo
    <3>2. KeyBefore(batch[m], batch[i]) /\ KeyBefore(batch[i], batch[j]) => KeyBefore(batch[m], batch[j])
      BY <1>2, <3>1, RefsInOrder
    <3>3. KeyBefore(batch[m], batch[j]) \/ (batch[m] = batch[j] /\ m <= j)
      <4>1. CASE KeyBefore(batch[i], batch[j])
        BY <3>1, <3>2, <4>1
      <4>2. CASE batch[i] = batch[j] /\ i < j
        BY <1>1, <3>1, <4>2
      <4>. QED BY <1>6, <4>1, <4>2 DEF Precedes
    <3>. QED BY <3>1, <3>3 DEF UpTo
  <2>2. j \notin UpTo(batch, i)
    <3>1. KeyBefore(batch[i], batch[j]) => ~KeyBefore(batch[j], batch[i])
      BY <1>2, RefsInOrder
    <3>2. ~KeyBefore(batch[i], batch[i])
      BY <1>2, RefsInOrder
    <3>3. ~KeyBefore(batch[j], batch[i]) /\ ~(batch[j] = batch[i] /\ j <= i)
      <4>1. CASE KeyBefore(batch[i], batch[j])
        BY <3>1, <3>2, <4>1
      <4>2. CASE batch[i] = batch[j] /\ i < j
        BY <1>1, <3>2, <4>2
      <4>. QED BY <1>6, <4>1, <4>2 DEF Precedes
    <3>. QED BY <3>3 DEF UpTo
  <2>3. UpTo(batch, i) # UpTo(batch, j)
    BY <1>4, <2>2
  <2>4. Rank(batch, i) <= Rank(batch, j) /\ Rank(batch, i) # Rank(batch, j)
    BY <1>4, <2>1, <2>3, FS_Subset
  <2>5. Rank(batch, i) \in Nat /\ Rank(batch, j) \in Nat
    BY <1>1, <1>4
  <2>. QED BY <2>4, <2>5
<1>. QED BY <1>4, <1>5, <1>6 DEF n

\* Each rank is some ref's.
LEMMA RanksAreAll ==
  ASSUME NEW batch \in Seq(Refs), NEW n \in 1..Len(batch)
  PROVE  \E i \in DOMAIN batch : Rank(batch, i) = n
<1> DEFINE f == [i \in DOMAIN batch |-> Rank(batch, i)]
           l == Len(batch)
<1>1. l \in Nat /\ DOMAIN batch = 1..l
  OBVIOUS
<1>2. \A i \in DOMAIN batch : Rank(batch, i) \in 1..l
  BY RanksAscend
<1>3. \A i, j \in DOMAIN batch : Rank(batch, i) = Rank(batch, j) => i = j
  <2> SUFFICES ASSUME NEW i \in DOMAIN batch, NEW j \in DOMAIN batch, i # j
               PROVE  Rank(batch, i) # Rank(batch, j)
    OBVIOUS
  <2>1. Rank(batch, i) < Rank(batch, j) \/ Rank(batch, j) < Rank(batch, i)
    BY RanksAscend
  <2>2. Rank(batch, i) \in Int /\ Rank(batch, j) \in Int
    BY <1>2
  <2>. QED BY <2>1, <2>2
<1> HIDE DEF l
<1>4. f \in Injection(1..l, 1..l)
  BY <1>1, <1>2, <1>3 DEF Injection, IsInjective
<1>5. IsFiniteSet(1..l)
  BY <1>1, FS_Interval
<1>6. f \in Surjection(1..l, 1..l)
  BY <1>4, <1>5, FS_Injection
<1>. QED BY <1>1, <1>6 DEF Surjection, l

\* The refs in order are the batch's, each once, by node and day.
LEMMA SortedIs ==
  ASSUME NEW batch \in Seq(Refs)
  PROVE  /\ Sorted(batch) \in Seq(Refs) /\ Len(Sorted(batch)) = Len(batch)
         /\ DOMAIN Sorted(batch) = DOMAIN batch
         /\ \A i \in DOMAIN batch : Sorted(batch)[Rank(batch, i)] = batch[i]
         /\ \A n \in DOMAIN batch : \E i \in DOMAIN batch : Sorted(batch)[n] = batch[i]
         /\ \A m, n \in DOMAIN batch : m < n => ~KeyBefore(Sorted(batch)[n], Sorted(batch)[m])
<1> DEFINE at(n) == CHOOSE i \in DOMAIN batch : Rank(batch, i) = n
           l == Len(batch)
           order == Sorted(batch)
<1>1. l \in Nat /\ DOMAIN batch = 1..l /\ \A i \in 1..l : batch[i] \in Refs
  OBVIOUS
<1>2. \A n \in 1..l : at(n) \in DOMAIN batch /\ Rank(batch, at(n)) = n
  BY RanksAreAll
<1>3. order = [n \in 1..l |-> batch[at(n)]]
  BY <1>1 DEF Sorted
<1> HIDE DEF at, l, order
<1>4. order \in Seq(Refs) /\ Len(order) = l /\ DOMAIN order = 1..l
  BY <1>1, <1>2, <1>3
<1>5. ASSUME NEW i \in DOMAIN batch PROVE order[Rank(batch, i)] = batch[i]
  <2>1. Rank(batch, i) \in 1..l
    BY RanksAscend DEF l
  <2>2. at(Rank(batch, i)) = i
    <3> DEFINE j == at(Rank(batch, i))
    <3>1. j \in DOMAIN batch /\ Rank(batch, j) = Rank(batch, i)
      BY <1>2, <2>1
    <3> HIDE DEF j
    <3>2. j # i => Rank(batch, i) < Rank(batch, j) \/ Rank(batch, j) < Rank(batch, i)
      BY <3>1, RanksAscend
    <3>3. j = i
      BY <2>1, <3>1, <3>2
    <3>. QED BY <3>3 DEF j
  <2>. QED BY <1>3, <2>1, <2>2
<1>6. ASSUME NEW m \in 1..l, NEW n \in 1..l, m < n PROVE ~KeyBefore(order[n], order[m])
  <2> SUFFICES ASSUME KeyBefore(order[n], order[m]) PROVE FALSE
    OBVIOUS
  <2>1. order[n] = batch[at(n)] /\ order[m] = batch[at(m)]
    BY <1>3
  <2>2. Precedes(batch, at(n), at(m))
    BY <2>1 DEF Precedes
  <2>3. n < m
    BY <1>2, <2>2, RanksAscend
  <2>. QED BY <1>6, <2>3
<1>7. \A n \in 1..l : \E i \in DOMAIN batch : order[n] = batch[i]
  BY <1>2, <1>3
<1>. QED BY <1>1, <1>4, <1>5, <1>6, <1>7 DEF l, order

-----------------------------------------------------------------------------
(* The sweep *)

\* The records of a cache the way pass reads.
CacheTells(flat) ==
  /\ nodeFile \in Seq(NodeVersions) /\ cache \in CacheFiles /\ flat \in Blocks
  /\ Tells(flat, Len(nodeFile)) /\ FileHolds(cache, flat)

\* A ref's records are the first s.
NotBeyond(record, r) == record.node < r.node \/ (record.node = r.node /\ record.day <= r.day)
IsStop(flat, r, s) ==
  s \in 0..Len(flat) /\ \A m \in DOMAIN flat : m <= s <=> NotBeyond(flat[m], r)

LEMMA BeyondOrNot ==
  ASSUME NEW r, NEW s, NEW t, HasKey(r), HasKey(s), HasKey(t)
  PROVE  /\ NotBeyond(s, r) <=> ~(s.node > r.node \/ (s.node = r.node /\ s.day > r.day))
         /\ RecordBefore(s, t) /\ NotBeyond(t, r) => NotBeyond(s, r)
         /\ NotBeyond(t, s) /\ NotBeyond(s, r) => NotBeyond(t, r)
         /\ NotBeyond(s, r) <=> ~RecordBefore(r, s)
<1> DEFINE a == r.node
           b == s.node
           c == t.node
           d == r.day
           e == s.day
           f == t.day
           le(x1, y1, x2, y2) == x1 < x2 \/ (x1 = x2 /\ y1 <= y2)
           lt(x1, y1, x2, y2) == x1 < x2 \/ (x1 = x2 /\ y1 < y2)
<1>1. a \in Int /\ b \in Int /\ c \in Int /\ d \in Int /\ e \in Int /\ f \in Int
  BY DEF HasKey
<1> HIDE DEF a, b, c, d, e, f
<1>2. /\ le(b, e, a, d) <=> ~(b > a \/ (b = a /\ e > d))
      /\ lt(b, e, c, f) /\ le(c, f, a, d) => le(b, e, a, d)
      /\ le(c, f, b, e) /\ le(b, e, a, d) => le(c, f, a, d)
      /\ le(b, e, a, d) <=> ~lt(a, d, b, e)
  BY <1>1
<1>. QED BY <1>2 DEF NotBeyond, RecordBefore, a, b, c, d, e, f

LEMMA TellsKeys ==
  ASSUME NEW n, NEW flat, Tells(flat, n), NEW m \in DOMAIN flat PROVE HasKey(flat[m])
BY TellsParts DEF HasKey

LEMMA StopExists ==
  ASSUME NEW n, NEW flat, Tells(flat, n), NEW r, HasKey(r)
  PROVE  \E s : IsStop(flat, r, s)
<1> DEFINE l == Len(flat)
           S == {m \in 1..l : NotBeyond(flat[m], r)}
<1>1. l \in Nat /\ DOMAIN flat = 1..l
  BY TellsParts
<1>2. CASE S = {}
  <2>1. IsStop(flat, r, 0)
    BY <1>1, <1>2 DEF IsStop
  <2>. QED BY <2>1
<1>3. CASE S # {}
  <2> DEFINE s == LastOf(S)
  <2> HIDE DEF l, S
  <2>1. S \in SUBSET (1..l)
    BY DEF S
  <2>2. s \in S /\ \A m \in S : m <= s
    BY <1>1, <1>3, <2>1, LastOfExists
  <2> HIDE DEF s
  <2>3. s \in 1..l /\ NotBeyond(flat[s], r)
    BY <2>2 DEF S
  <2>4. ASSUME NEW m \in DOMAIN flat, m <= s PROVE NotBeyond(flat[m], r)
    <3>1. CASE m = s
      BY <2>3, <3>1
    <3>2. CASE m # s
      <4>1. m \in DOMAIN flat /\ s \in DOMAIN flat /\ m < s
        BY <1>1, <2>3, <2>4, <3>2
      <4>2. RecordBefore(flat[m], flat[s]) /\ HasKey(flat[m]) /\ HasKey(flat[s])
        BY <4>1, TellsKeys DEF Tells
      <4>. QED BY <2>3, <4>2, BeyondOrNot
    <3>. QED BY <3>1, <3>2
  <2>5. ASSUME NEW m \in DOMAIN flat, NotBeyond(flat[m], r) PROVE m <= s
    BY <1>1, <2>2, <2>5 DEF S
  <2>6. s \in 0..Len(flat)
    BY <1>1, <2>3 DEF l
  <2>7. IsStop(flat, r, s)
    BY <2>4, <2>5, <2>6 DEF IsStop
  <2>. QED BY <2>7
<1>. QED BY <1>2, <1>3

\* From no later than there the sweep reads on to there.
LEMMA BeyondIs ==
  ASSUME NEW flat, CacheTells(flat), NEW r, HasKey(r), NEW s, IsStop(flat, r, s), NEW from \in 0..s
  PROVE  Beyond(r, from) = s
<1> DEFINE R == Records(cache)
           past(i) == \/ i = R
                      \/ Record(cache, i).node > r.node
                      \/ Record(cache, i).node = r.node /\ Record(cache, i).day > r.day
           seen(i) == \A j \in from..(i - 1) :
                        \/ Record(cache, j).node < r.node
                        \/ Record(cache, j).node = r.node /\ Record(cache, j).day <= r.day
<1>1. /\ R = Len(flat) /\ Len(flat) \in Nat /\ DOMAIN flat = 1..R
      /\ \A i \in 0..(R - 1) : Record(cache, i) = flat[i + 1]
  BY RecordIs, TellsParts DEF CacheTells
<1>2. s \in 0..R /\ \A m \in 1..R : m <= s <=> NotBeyond(flat[m], r)
  BY <1>1 DEF IsStop
<1>3. \A i \in 0..(R - 1) : HasKey(Record(cache, i))
  <2> SUFFICES ASSUME NEW i \in 0..(R - 1) PROVE HasKey(flat[i + 1])
    BY <1>1
  <2>1. i + 1 \in DOMAIN flat
    BY <1>1
  <2>. QED BY <2>1, TellsKeys DEF CacheTells
<1>4. \A i \in 0..(R - 1) : (i + 1 <= s) <=> NotBeyond(Record(cache, i), r)
  BY <1>1, <1>2
<1> HIDE DEF R
<1>5. past(s)
  <2>1. CASE s = R
    BY <2>1
  <2>2. CASE s # R
    <3>1. s \in 0..(R - 1) /\ ~(s + 1 <= s)
      BY <1>1, <1>2, <2>2
    <3>2. ~NotBeyond(Record(cache, s), r) /\ HasKey(Record(cache, s))
      BY <1>3, <1>4, <3>1
    <3>. QED BY <3>2, BeyondOrNot
  <2>. QED BY <2>1, <2>2
<1>6. seen(s)
  <2> SUFFICES ASSUME NEW j \in from..(s - 1) PROVE NotBeyond(Record(cache, j), r)
    BY DEF NotBeyond
  <2>1. j \in 0..(R - 1) /\ j + 1 <= s
    BY <1>1, <1>2
  <2>. QED BY <1>4, <2>1
<1>7. ASSUME NEW i \in from..R, past(i), seen(i) PROVE i = s
  <2>0. i \in Nat /\ s \in Nat /\ from \in Nat
    BY <1>1, <1>2
  <2>1. ASSUME i < s PROVE FALSE
    <3>1. i \in 0..(R - 1) /\ i + 1 <= s /\ i # R
      BY <1>1, <1>2, <2>0, <2>1
    <3>2. NotBeyond(Record(cache, i), r) /\ HasKey(Record(cache, i))
      BY <1>3, <1>4, <3>1
    <3>3. Record(cache, i).node > r.node \/ (Record(cache, i).node = r.node /\ Record(cache, i).day > r.day)
      BY <1>7, <3>1
    <3>. QED BY <3>2, <3>3, BeyondOrNot
  <2>2. ASSUME s < i PROVE FALSE
    <3>1. s \in from..(i - 1) /\ s \in 0..(R - 1) /\ ~(s + 1 <= s)
      BY <1>1, <1>2, <2>0, <2>2
    <3>2. NotBeyond(Record(cache, s), r)
      BY <1>7, <3>1 DEF NotBeyond
    <3>. QED BY <1>4, <3>1, <3>2
  <2>. QED BY <2>0, <2>1, <2>2
<1>8. s \in from..R
  BY <1>1, <1>2
<1>9. Beyond(r, from) = CHOOSE i \in from..R : past(i) /\ seen(i)
  BY DEF Beyond, R
<1> HIDE DEF past, seen
<1>. QED BY <1>5, <1>6, <1>7, <1>8, <1>9

LEMMA ResolvedIs ==
  ASSUME NEW flat, CacheTells(flat), NEW r, HasKey(r), NEW s, IsStop(flat, r, s),
         NEW last, last.rec \in 0..s
  PROVE  /\ Resolved(r, last).rec = s
         /\ Resolved(r, last).cell = IF s > last.rec /\ flat[s].node = r.node THEN flat[s].cell ELSE NoCell
<1>1. Beyond(r, last.rec) = s
  BY BeyondIs
<1>2. Resolved(r, last) =
        [rec |-> s, cell |-> IF s > last.rec /\ Record(cache, s - 1).node = r.node
                             THEN Record(cache, s - 1).cell ELSE NoCell]
  BY <1>1 DEF Resolved
<1>3. s > last.rec => Record(cache, s - 1) = flat[s]
  <2> SUFFICES ASSUME s > last.rec PROVE Record(cache, s - 1) = flat[s]
    OBVIOUS
  <2>1. /\ Records(cache) = Len(flat) /\ Len(flat) \in Nat
        /\ \A i \in 0..(Len(flat) - 1) : Record(cache, i) = flat[i + 1]
    BY RecordIs DEF CacheTells
  <2>2. s - 1 \in 0..(Len(flat) - 1) /\ (s - 1) + 1 = s
    BY <2>1 DEF IsStop
  <2>. QED BY <2>1, <2>2
<1>. QED BY <1>2, <1>3

\* The last of a ref's records is its position, if it is of its node.
LEMMA DocCellIs ==
  ASSUME NEW flat, CacheTells(flat), NEW r, HasKey(r), NEW s, IsStop(flat, r, s)
  PROVE  DocCell(r) = IF s > 0 /\ flat[s].node = r.node THEN flat[s].cell ELSE NoCell
<1> DEFINE U == RecordsUpTo(flat, r.node, r.day)
<1>1. Len(flat) \in Nat /\ DOMAIN flat = 1..Len(flat) /\ s \in 0..Len(flat)
  BY TellsParts DEF CacheTells, IsStop
<1>2. DocCell(r) = IF U = {} THEN NoCell ELSE flat[LastOf(U)].cell
  BY CellAtIs DEF CacheTells, DocCell, HasKey
<1>3. \A m \in U : m \in DOMAIN flat /\ flat[m].node = r.node /\ flat[m].day <= r.day
  BY DEF RecordsUpTo
<1>4. \A m \in DOMAIN flat : flat[m].node = r.node /\ flat[m].day <= r.day => m \in U
  BY DEF RecordsUpTo
<1> HIDE DEF U
<1>5. \A m \in U : m <= s
  BY <1>3 DEF IsStop, NotBeyond
<1>6. U \subseteq Int
  BY <1>1, <1>3
<1>7. CASE s > 0 /\ flat[s].node = r.node
  <2>1. s \in DOMAIN flat
    BY <1>1, <1>7
  <2>2. NotBeyond(flat[s], r) /\ HasKey(flat[s])
    BY <1>1, <2>1, TellsKeys DEF IsStop, CacheTells
  <2>3. s \in U
    BY <1>4, <1>7, <2>1, <2>2 DEF NotBeyond, HasKey
  <2>4. LastOf(U) = s
    BY <1>5, <1>6, <2>3, LastOfIs
  <2>. QED BY <1>2, <1>7, <2>3, <2>4
<1>8. CASE ~(s > 0 /\ flat[s].node = r.node)
  <2>1. ASSUME NEW m \in U PROVE FALSE
    <3>1. m \in DOMAIN flat /\ m <= s /\ flat[m].node = r.node
      BY <1>3, <1>5
    <3>2. s > 0 /\ s \in DOMAIN flat /\ flat[s].node # r.node /\ m < s
      <4>1. s > 0 /\ s \in DOMAIN flat
        BY <1>1, <3>1
      <4>. QED BY <1>1, <1>8, <3>1, <4>1
    <3>3. RecordBefore(flat[m], flat[s]) /\ NotBeyond(flat[s], r) /\ HasKey(flat[s])
      <4>1. RecordBefore(flat[m], flat[s])
        BY <3>1, <3>2 DEF CacheTells, Tells
      <4>2. NotBeyond(flat[s], r)
        BY <1>1, <3>2 DEF IsStop
      <4>3. HasKey(flat[s])
        BY <3>2, TellsKeys DEF CacheTells
      <4>. QED BY <4>1, <4>2, <4>3
    <3>. QED BY <3>1, <3>2, <3>3 DEF RecordBefore, NotBeyond, HasKey
  <2>2. U = {}
    BY <2>1
  <2>. QED BY <1>2, <1>8, <2>2
<1>. QED BY <1>7, <1>8

\* The sweep starts before every record of its first node.
LEMMA SweepStartIs ==
  ASSUME NEW flat, CacheTells(flat), NEW node \in Int
  PROVE  /\ SweepStart(cache, node) \in 0..Len(flat)
         /\ \A m \in 1..SweepStart(cache, node) : flat[m].node < node
<1> DEFINE below == {b \in DOMAIN cache : cache[b][1].node < node}
           n == Len(cache)
           l == Len(flat)
<1>1. /\ l \in Nat /\ DOMAIN flat = 1..l /\ l = Records(cache)
      /\ cache \in Seq(Blocks)
  BY TellsParts, RecordIs DEF CacheTells, CacheFiles, Blocks
<1>2. n \in Nat /\ DOMAIN cache = 1..n
  BY <1>1
<1>3. SweepStart(cache, node) = IF below = {} THEN 0 ELSE Base(Cardinality(below) - 1)
  BY DEF SweepStart, Base
<1>4. ASSUME NEW b \in DOMAIN cache
      PROVE  /\ cache[b][1] = flat[Base(b - 1) + 1] /\ Base(b - 1) \in Nat
             /\ Base(b - 1) + 1 \in 1..l
  <2>1. b \in 1..n /\ b - 1 \in Nat /\ n - 1 \in Nat /\ n > 0 /\ n \in DOMAIN cache
    BY <1>2
  <2>2. Len(cache[b]) \in 1..BlockSize /\ IsPart(cache[b], flat, Base(b - 1)) /\ Len(cache[n]) \in 1..BlockSize
    BY <2>1 DEF CacheTells, FileHolds
  <2>3. 1 \in DOMAIN cache[b]
    <3>1. cache[b] \in Blocks
      <4> HIDE DEF Blocks
      <4>. QED BY <1>1
    <3>. QED BY <2>2, <3>1, BlocksHoldRecords DEF Blocks
  <2>4. Base(b - 1) \in Nat /\ Base(b - 1) <= Base(n - 1) /\ Base(n - 1) \in Nat
    <3> HIDE DEF n
    <3>1. b - 1 <= n - 1
      BY <1>2, <2>1
    <3>. QED BY <2>1, <3>1, BaseSteps
  <2>5. l = Base(n - 1) + Len(cache[n])
    <3>1. cache # <<>>
      BY <1>1, <2>1
    <3>. QED BY <1>1, <3>1 DEF Records, Base
  <2> DEFINE k == Len(cache[n])
             x == Base(b - 1)
             y == Base(n - 1)
  <2>6. x + 1 \in 1..l
    <3>1. k \in 1..BlockSize /\ x \in Nat /\ y \in Nat /\ x <= y /\ l = y + k
      BY <2>2, <2>4, <2>5
    <3> HIDE DEF k, x, y, l
    <3>. QED BY <3>1, BlocksHoldRecords
  <2>. QED BY <2>2, <2>3, <2>4, <2>6 DEF IsPart
<1>5. CASE below = {}
  BY <1>1, <1>3, <1>5
<1>6. CASE below # {}
  <2> DEFINE c == LastOf(below)
  <2>1. below \in SUBSET (1..n)
    BY <1>2
  <2> HIDE DEF below, n, l
  <2>2. c \in below /\ \A b \in below : b <= c
    BY <1>2, <1>6, <2>1, LastOfExists
  <2> HIDE DEF c
  <2>3. c \in 1..n /\ cache[c][1].node < node
    BY <2>1, <2>2 DEF below
  <2> DEFINE start == Base(c - 1)
  <2>4. flat[start + 1].node < node /\ start \in Nat /\ start + 1 \in 1..l
    BY <1>2, <1>4, <2>3
  <2>5. ASSUME NEW m \in 1..(start + 1) PROVE flat[m].node < node
    <3>1. m \in DOMAIN flat /\ start + 1 \in DOMAIN flat
      BY <1>1, <2>4
    <3>2. HasKey(flat[m]) /\ HasKey(flat[start + 1])
      BY <3>1, TellsKeys DEF CacheTells
    <3>3. m = start + 1 \/ RecordBefore(flat[m], flat[start + 1])
      <4>1. m = start + 1 \/ m < start + 1
        BY <2>4
      <4>. QED BY <3>1, <4>1 DEF CacheTells, Tells
    <3>. QED BY <2>4, <3>2, <3>3 DEF RecordBefore, HasKey
  <2>6. below = 1..c
    <3>0. below \subseteq 1..c
      BY <1>2, <2>1, <2>2, <2>3
    <3> SUFFICES ASSUME NEW b \in 1..c PROVE b \in below
      BY <3>0
    <3>1. b \in DOMAIN cache /\ b - 1 \in Nat /\ c - 1 \in Nat /\ b - 1 <= c - 1
      BY <1>2, <2>3
    <3>2. Base(b - 1) <= start /\ cache[b][1] = flat[Base(b - 1) + 1] /\ Base(b - 1) \in Nat
      BY <1>4, <3>1, BaseSteps
    <3>3. Base(b - 1) + 1 \in 1..(start + 1)
      BY <2>4, <3>2
    <3>. QED BY <2>5, <3>1, <3>2, <3>3 DEF below
  <2>7. Cardinality(below) = c
    <3>1. Cardinality(1..c) = c
      BY <1>2, <2>3, FS_Interval
    <3>. QED BY <2>6, <3>1
  <2>8. SweepStart(cache, node) = start
    BY <1>3, <1>6, <2>7
  <2>9. start \in 0..l
    BY <1>1, <2>4
  <2>. QED BY <2>4, <2>5, <2>8, <2>9 DEF l
<1>. QED BY <1>5, <1>6

\* What one ref makes of the answer to the one before it.
AnswerNext(order, i, last) ==
  IF i = 0 THEN [rec |-> SweepStart(cache, order[1].node), cell |-> NoCell]
  ELSE IF i > 1 /\ SameKey(order[i], order[i - 1]) THEN last
  ELSE Resolved(order[i], last)
IsSweep(order, f, m) == f = [i \in 0..m |-> AnswerNext(order, i, f[i - 1])]

LEMMA SweepExists ==
  ASSUME NEW order, NEW m \in Nat PROVE \E f : IsSweep(order, f, m)
<1> DEFINE S == {k \in Nat : \E f : IsSweep(order, f, k)}
<1>1. 0 \in S
  <2> DEFINE f == [i \in 0..0 |-> AnswerNext(order, 0, 0)]
  <2>1. f = [i \in 0..0 |-> AnswerNext(order, i, f[i - 1])]
    BY DEF AnswerNext
  <2>. QED BY <2>1 DEF IsSweep
<1>2. ASSUME NEW k \in S PROVE k + 1 \in S
  <2>1. PICK f : IsSweep(order, f, k)
    OBVIOUS
  <2>2. k \in Nat
    OBVIOUS
  <2> DEFINE g == [i \in 0..(k + 1) |-> AnswerNext(order, i, f[i - 1])]
  <2> HIDE DEF S
  <2>3. f = [i \in 0..k |-> AnswerNext(order, i, f[i - 1])]
    BY <2>1 DEF IsSweep
  <2>4. \A i \in 0..k : g[i] = f[i]
    BY <2>2, <2>3
  <2>5. \A i \in 0..(k + 1) : AnswerNext(order, i, g[i - 1]) = AnswerNext(order, i, f[i - 1])
    <3> SUFFICES ASSUME NEW i \in 0..(k + 1)
                 PROVE  AnswerNext(order, i, g[i - 1]) = AnswerNext(order, i, f[i - 1])
      OBVIOUS
    <3>1. CASE i = 0
      BY <3>1 DEF AnswerNext
    <3>2. CASE i # 0
      <4>1. i - 1 \in 0..k
        BY <2>2, <3>2
      <4>2. g[i - 1] = f[i - 1]
        BY <2>4, <4>1
      <4> HIDE DEF g
      <4>. QED BY <4>2
    <3>. QED BY <3>1, <3>2
  <2>6. g = [i \in 0..(k + 1) |-> AnswerNext(order, i, g[i - 1])]
    BY <2>5
  <2>7. IsSweep(order, g, k + 1)
    BY <2>6 DEF IsSweep
  <2>. QED BY <2>2, <2>7 DEF S
<1>. QED BY <1>1, <1>2, NaturalsBySteps

LEMMA SweepSteps ==
  ASSUME NEW order, Len(order) \in Nat
  PROVE  \A i \in 0..Len(order) : Sweep(order)[i] = AnswerNext(order, i, Sweep(order)[i - 1])
<1> DEFINE f == Sweep(order)
<1>1. f = CHOOSE g : IsSweep(order, g, Len(order))
  BY DEF Sweep, IsSweep, AnswerNext
<1>2. IsSweep(order, f, Len(order))
  BY <1>1, SweepExists
<1> HIDE DEF f
<1>3. f = [i \in 0..Len(order) |-> AnswerNext(order, i, f[i - 1])]
  BY <1>2 DEF IsSweep
<1>4. \A i \in 0..Len(order) : f[i] = AnswerNext(order, i, f[i - 1])
  BY <1>3
<1>. QED BY <1>4 DEF f

\* Refs by node and day.
Ordered(order) ==
  /\ order \in Seq(Refs)
  /\ \A m, n \in DOMAIN order : m < n => NotBeyond(order[m], order[n])

\* The answer to a ref: at its last record, its position or nothing, and nothing
\* only if an earlier day of the node took it.
Answers(flat, order, i, answer) ==
  /\ IsStop(flat, order[i], answer.rec)
  /\ \/ answer.cell = DocCell(order[i])
     \/ /\ answer.cell = NoCell
        /\ \E j \in 1..(i - 1) : /\ order[j].node = order[i].node
                                 /\ order[j].day < order[i].day
                                 /\ DocCell(order[j]) = DocCell(order[i])

LEMMA OrderTypes ==
  ASSUME NEW order, Ordered(order)
  PROVE  /\ Len(order) \in Nat /\ DOMAIN order = 1..Len(order)
         /\ \A i \in DOMAIN order : HasKey(order[i])
<1>1. Len(order) \in Nat /\ DOMAIN order = 1..Len(order) /\ \A i \in DOMAIN order : order[i] \in Refs
  BY DEF Ordered
<1>. QED BY <1>1, RefTypes DEF IsRef, HasKey

\* Refs of the same key share their records and their position.
LEMMA SameKeySame ==
  ASSUME NEW r, NEW t, HasKey(r), HasKey(t), SameKey(r, t)
  PROVE  /\ DocCell(r) = DocCell(t)
         /\ \A flat, s : IsStop(flat, t, s) => IsStop(flat, r, s)
BY DEF SameKey, DocCell, IsStop, NotBeyond

\* The first ref.
LEMMA FirstAnswers ==
  ASSUME NEW flat, CacheTells(flat), NEW order, Ordered(order), order # <<>>,
         NEW last, last.rec = SweepStart(cache, order[1].node)
  PROVE  Answers(flat, order, 1, Resolved(order[1], last))
<1> DEFINE r == order[1]
<1>1. 1 \in DOMAIN order
  BY OrderTypes DEF Ordered
<1>2. HasKey(r)
  BY <1>1, OrderTypes
<1>3. PICK s : IsStop(flat, r, s)
  BY <1>2, StopExists DEF CacheTells
<1>4. last.rec \in 0..Len(flat) /\ \A m \in 1..last.rec : flat[m].node < r.node
  BY <1>2, SweepStartIs DEF HasKey
<1>5. Len(flat) \in Nat /\ DOMAIN flat = 1..Len(flat) /\ s \in 0..Len(flat)
  BY <1>3, TellsParts DEF CacheTells, IsStop
<1>6. last.rec <= s
  <2> SUFFICES ASSUME last.rec > 0 PROVE last.rec <= s
    BY <1>4, <1>5
  <2>1. last.rec \in DOMAIN flat /\ flat[last.rec].node < r.node
    BY <1>4, <1>5
  <2>2. NotBeyond(flat[last.rec], r)
    BY <2>1 DEF NotBeyond
  <2>. QED BY <1>3, <2>1, <2>2 DEF IsStop
<1>7. last.rec \in 0..s
  BY <1>4, <1>5, <1>6
<1>8. /\ Resolved(r, last).rec = s
      /\ Resolved(r, last).cell = IF s > last.rec /\ flat[s].node = r.node THEN flat[s].cell ELSE NoCell
  BY <1>2, <1>3, <1>7, ResolvedIs
<1>9. DocCell(r) = IF s > 0 /\ flat[s].node = r.node THEN flat[s].cell ELSE NoCell
  BY <1>2, <1>3, DocCellIs
<1>10. (s > last.rec /\ flat[s].node = r.node) <=> (s > 0 /\ flat[s].node = r.node)
  <2>1. ASSUME s > 0, flat[s].node = r.node, ~(s > last.rec) PROVE FALSE
    <3>1. s \in 1..last.rec
      BY <1>4, <1>5, <1>6, <2>1
    <3>2. flat[s].node < r.node
      BY <1>4, <3>1
    <3>. QED BY <1>2, <2>1, <3>2 DEF HasKey
  <2>. QED BY <1>4, <1>5, <2>1
<1>11. Resolved(r, last).cell = DocCell(r)
  BY <1>8, <1>9, <1>10
<1>. QED BY <1>3, <1>8, <1>11 DEF Answers

\* Another ref, after the answer to the one before it.
LEMMA NextAnswers ==
  ASSUME NEW flat, CacheTells(flat), NEW order, Ordered(order), NEW i \in DOMAIN order, i > 1,
         NEW last, Answers(flat, order, i - 1, last)
  PROVE  Answers(flat, order, i, IF SameKey(order[i], order[i - 1]) THEN last ELSE Resolved(order[i], last))
<1> DEFINE r == order[i]
           t == order[i - 1]
<1>1. i \in Nat /\ i - 1 \in DOMAIN order /\ i - 1 < i /\ i - 1 \in 1..(i - 1)
  BY OrderTypes
<1>2. HasKey(r) /\ HasKey(t) /\ NotBeyond(t, r)
  BY <1>1, OrderTypes DEF Ordered
<1>3. /\ IsStop(flat, t, last.rec)
      /\ \/ last.cell = DocCell(t)
         \/ /\ last.cell = NoCell
            /\ \E j \in 1..((i - 1) - 1) : /\ order[j].node = t.node /\ order[j].day < t.day
                                           /\ DocCell(order[j]) = DocCell(t)
  BY DEF Answers
<1>4. CASE SameKey(r, t)
  <2>1. DocCell(r) = DocCell(t) /\ IsStop(flat, r, last.rec)
    BY <1>2, <1>3, <1>4, SameKeySame
  <2>2. r.node = t.node /\ r.day = t.day /\ 1..((i - 1) - 1) \subseteq 1..(i - 1)
    BY <1>1, <1>4 DEF SameKey
  <2> HIDE DEF r, t
  <2>3. \/ last.cell = DocCell(r)
        \/ /\ last.cell = NoCell
           /\ \E j \in 1..(i - 1) : /\ order[j].node = r.node /\ order[j].day < r.day
                                    /\ DocCell(order[j]) = DocCell(r)
    BY <1>3, <2>1, <2>2
  <2>. QED BY <1>4, <2>1, <2>3 DEF Answers, r, t
<1>5. CASE ~SameKey(r, t)
  <2>1. PICK s : IsStop(flat, r, s)
    BY <1>2, StopExists DEF CacheTells
  <2>2. Len(flat) \in Nat /\ DOMAIN flat = 1..Len(flat) /\ s \in 0..Len(flat) /\ last.rec \in 0..Len(flat)
    BY <1>3, <2>1, TellsParts DEF CacheTells, IsStop
  <2>3. last.rec <= s
    <3> SUFFICES ASSUME last.rec > 0 PROVE last.rec <= s
      BY <2>2
    <3>1. last.rec \in DOMAIN flat /\ NotBeyond(flat[last.rec], t)
      BY <1>3, <2>2 DEF IsStop
    <3>2. NotBeyond(flat[last.rec], r)
      BY <1>2, <3>1, TellsKeys, BeyondOrNot DEF CacheTells
    <3>. QED BY <2>1, <3>1, <3>2 DEF IsStop
  <2>4. last.rec \in 0..s
    BY <2>2, <2>3
  <2>5. /\ Resolved(r, last).rec = s
        /\ Resolved(r, last).cell = IF s > last.rec /\ flat[s].node = r.node THEN flat[s].cell ELSE NoCell
    BY <1>2, <2>1, <2>4, ResolvedIs
  <2>6. DocCell(r) = IF s > 0 /\ flat[s].node = r.node THEN flat[s].cell ELSE NoCell
    BY <1>2, <2>1, DocCellIs
  <2>7. DocCell(t) = IF last.rec > 0 /\ flat[last.rec].node = t.node THEN flat[last.rec].cell ELSE NoCell
    BY <1>2, <1>3, DocCellIs
  <2>8. CASE s > 0 /\ flat[s].node = r.node /\ ~(s > last.rec)
    <3>1. s = last.rec /\ s \in DOMAIN flat
      BY <2>2, <2>3, <2>8
    <3>2. NotBeyond(flat[s], t) /\ HasKey(flat[s])
      BY <1>3, <3>1, TellsKeys DEF IsStop, CacheTells
    <3>3. t.node = r.node /\ t.day < r.day
      BY <1>2, <1>5, <2>8, <3>2 DEF NotBeyond, HasKey, SameKey
    <3>4. DocCell(t) = DocCell(r) /\ Resolved(r, last).cell = NoCell
      BY <2>5, <2>6, <2>7, <2>8, <3>1, <3>3
    <3>. QED BY <1>1, <1>5, <2>1, <2>5, <3>3, <3>4 DEF Answers
  <2>9. CASE ~(s > 0 /\ flat[s].node = r.node /\ ~(s > last.rec))
    <3>1. (s > last.rec /\ flat[s].node = r.node) <=> (s > 0 /\ flat[s].node = r.node)
      BY <2>2, <2>9
    <3>2. Resolved(r, last).cell = DocCell(r)
      BY <2>5, <2>6, <3>1
    <3>. QED BY <1>5, <2>1, <2>5, <3>2 DEF Answers
  <2>. QED BY <2>8, <2>9
<1>. QED BY <1>4, <1>5

LEMMA SweepAnswers ==
  ASSUME NEW flat, CacheTells(flat), NEW order, Ordered(order)
  PROVE  \A i \in DOMAIN order : Answers(flat, order, i, Sweep(order)[i])
<1> DEFINE f == Sweep(order)
           n == Len(order)
           S == {i \in Nat : i + 1 <= n => Answers(flat, order, i + 1, f[i + 1])}
<1>1. n \in Nat /\ DOMAIN order = 1..n /\ \A i \in 0..n : f[i] = AnswerNext(order, i, f[i - 1])
  BY OrderTypes, SweepSteps
<1> HIDE DEF f
<1>2. 0 \in S
  <2> SUFFICES ASSUME 1 <= n PROVE Answers(flat, order, 1, f[1])
    OBVIOUS
  <2>1. order # <<>>
    <3>1. 1 \in DOMAIN order
      BY <1>1
    <3>. QED BY <3>1
  <2>2. 0 \in 0..n /\ 1 \in 0..n /\ 1 - 1 = 0
    BY <1>1
  <2>3. f[0] = AnswerNext(order, 0, f[0 - 1]) /\ f[1] = AnswerNext(order, 1, f[1 - 1])
    BY <1>1, <2>2
  <2>4. f[0].rec = SweepStart(cache, order[1].node) /\ f[1] = Resolved(order[1], f[0])
    BY <2>2, <2>3 DEF AnswerNext
  <2>. QED BY <2>1, <2>4, FirstAnswers
<1>3. ASSUME NEW k \in S PROVE k + 1 \in S
  <2>1. k \in Nat
    OBVIOUS
  <2> SUFFICES ASSUME (k + 1) + 1 <= n PROVE Answers(flat, order, (k + 1) + 1, f[(k + 1) + 1])
    BY <2>1
  <2> DEFINE i == (k + 1) + 1
  <2>2. i \in DOMAIN order /\ i > 1 /\ i - 1 = k + 1 /\ i \in 0..n /\ k + 1 <= n
    BY <1>1, <2>1
  <2>3. Answers(flat, order, i - 1, f[i - 1])
    BY <2>1, <2>2
  <2> HIDE DEF i, S, n
  <2>4. f[i] = IF SameKey(order[i], order[i - 1]) THEN f[i - 1] ELSE Resolved(order[i], f[i - 1])
    BY <1>1, <2>2 DEF AnswerNext
  <2>. QED BY <2>2, <2>3, <2>4, NextAnswers DEF i
<1>4. Nat \subseteq S
  <2> HIDE DEF S
  <2>. QED BY <1>2, <1>3, NaturalsBySteps
<1> SUFFICES ASSUME NEW i \in DOMAIN order PROVE Answers(flat, order, i, f[i])
  BY DEF f
<1>5. i - 1 \in S /\ (i - 1) + 1 = i /\ i <= n
  BY <1>1, <1>4
<1>. QED BY <1>5

LEMMA SortedOrdered ==
  ASSUME NEW batch \in Seq(Refs) PROVE Ordered(Sorted(batch))
<1> DEFINE order == Sorted(batch)
<1>1. /\ order \in Seq(Refs) /\ DOMAIN order = DOMAIN batch
      /\ \A m, n \in DOMAIN batch : m < n => ~KeyBefore(order[n], order[m])
  BY SortedIs
<1> HIDE DEF order
<1> SUFFICES ASSUME NEW m \in DOMAIN order, NEW n \in DOMAIN order, m < n
             PROVE  NotBeyond(order[m], order[n])
  BY <1>1 DEF Ordered, order
<1>2. IsRef(order[m]) /\ IsRef(order[n]) /\ ~KeyBefore(order[n], order[m])
  BY <1>1, RefTypes
<1>. QED BY <1>2 DEF IsRef, KeyBefore, NotBeyond

\* The sweep gives no ref a cell that is not its node's position on its day, and
\* forgets one only if the same batch needed the node on an earlier day
\* (way_processor.hpp, flush_batch).
THEOREM NeverAWrongCellTheorem == Spec => []NeverAWrongCell
<1> DEFINE I == Types /\ CacheInv
<1>1. Init => I
  BY TypesInit, CacheInit
<1>2. I /\ [Next]_vars => I'
  BY TypesStep, CacheStep
<1>3. I => NeverAWrongCell
  <2> SUFFICES ASSUME I, "nodes" \in staged PROVE NeverAWrongCell
    BY DEF NeverAWrongCell, Resolving
  <2>1. PICK flat : CacheTells(flat)
    BY DEF CacheInv, CacheTells, Types, InputTypes, IsNodeFile
  <2>2. Ordered(Sorted(refs)) /\ DOMAIN Sorted(refs) = DOMAIN refs
    BY SortedOrdered, SortedIs DEF Types, WayTypes
  <2>3. \A i \in DOMAIN refs : Answers(flat, Sorted(refs), i, Sweep(Sorted(refs))[i])
    BY <2>1, <2>2, SweepAnswers
  <2>. QED BY <2>3 DEF NeverAWrongCell, Answers
<1>. QED BY <1>1, <1>2, <1>3, PTL DEF Spec
-----------------------------------------------------------------------------
(* What the way pass counts: numbers of versions between two places *)

\* How many of the versions m + 1 to n are in T.
HowMany(m, n, T) == Cardinality(((m + 1)..n) \cap T)

LEMMA HowManyCount ==
  ASSUME NEW m \in Nat, NEW n \in Nat, NEW T
  PROVE  IsFiniteSet(((m + 1)..n) \cap T) /\ HowMany(m, n, T) \in Nat /\ HowMany(m, m, T) = 0
<1>1. IsFiniteSet((m + 1)..n)
  BY FS_Interval, m + 1 \in Int
<1>2. IsFiniteSet(((m + 1)..n) \cap T)
  BY <1>1, FS_Subset
<1>3. ((m + 1)..m) \cap T = {}
  OBVIOUS
<1>. QED BY <1>2, <1>3, FS_CardinalityType, FS_EmptySet DEF HowMany

LEMMA HowManyNext ==
  ASSUME NEW m \in Nat, NEW n \in Nat, m <= n, NEW T
  PROVE  HowMany(m, n + 1, T) = HowMany(m, n, T) + (IF n + 1 \in T THEN 1 ELSE 0)
<1> DEFINE S == ((m + 1)..n) \cap T
           N == ((m + 1)..(n + 1)) \cap T
<1>1. /\ IsFiniteSet(S) /\ Cardinality(S) \in Nat /\ HowMany(m, n, T) = Cardinality(S)
      /\ HowMany(m, n + 1, T) = Cardinality(N)
  BY HowManyCount DEF HowMany
<1>2. CASE n + 1 \in T
  <2>1. N = S \cup {n + 1} /\ n + 1 \notin S
    BY <1>2
  <2> HIDE DEF S, N
  <2>. QED BY <1>1, <1>2, <2>1, FS_AddElement
<1>3. CASE n + 1 \notin T
  <2>1. N = S
    BY <1>3
  <2> HIDE DEF S, N
  <2>. QED BY <1>1, <1>3, <2>1
<1>. QED BY <1>2, <1>3

LEMMA HowManyJoin ==
  ASSUME NEW l \in Nat, NEW m \in Nat, NEW n \in Nat, l <= m, m <= n, NEW T
  PROVE  HowMany(l, n, T) = HowMany(l, m, T) + HowMany(m, n, T)
<1> DEFINE A == ((l + 1)..m) \cap T
           B == ((m + 1)..n) \cap T
<1>1. ((l + 1)..n) \cap T = A \cup B /\ A \cap B = {}
  OBVIOUS
<1>2. IsFiniteSet(A) /\ IsFiniteSet(B) /\ Cardinality(A) \in Nat /\ Cardinality(B) \in Nat
  BY HowManyCount, FS_CardinalityType
<1>3. HowMany(l, m, T) = Cardinality(A) /\ HowMany(m, n, T) = Cardinality(B)
      /\ HowMany(l, n, T) = Cardinality(A \cup B)
  BY <1>1 DEF HowMany
<1> HIDE DEF A, B
<1>4. Cardinality(A \cup B) = Cardinality(A) + Cardinality(B) - Cardinality({})
  BY <1>1, <1>2, FS_Union
<1>. QED BY <1>2, <1>3, <1>4, FS_EmptySet

LEMMA HowManyLeq ==
  ASSUME NEW m \in Nat, NEW n \in Nat, NEW T, NEW U, \A i \in (m + 1)..n : i \in T => i \in U
  PROVE  HowMany(m, n, T) <= HowMany(m, n, U)
<1>1. ((m + 1)..n) \cap T \subseteq ((m + 1)..n) \cap U
  OBVIOUS
<1>. QED BY <1>1, HowManyCount, FS_Subset DEF HowMany

LEMMA HowManySame ==
  ASSUME NEW m \in Nat, NEW n \in Nat, NEW T, NEW U, \A i \in (m + 1)..n : i \in T <=> i \in U
  PROVE  HowMany(m, n, T) = HowMany(m, n, U)
<1>1. ((m + 1)..n) \cap T = ((m + 1)..n) \cap U
  OBVIOUS
<1>. QED BY <1>1 DEF HowMany

LEMMA HowManyGrows ==
  ASSUME NEW m \in Nat, NEW i \in Nat, NEW j \in Nat, m <= i, i < j, NEW T
  PROVE  /\ HowMany(m, i, T) <= HowMany(m, j, T)
         /\ j \in T => HowMany(m, i, T) < HowMany(m, j, T)
         /\ (\A l \in (i + 1)..j : l \notin T) => HowMany(m, i, T) = HowMany(m, j, T)
<1>1. HowMany(m, j, T) = HowMany(m, i, T) + HowMany(i, j, T)
  BY HowManyJoin
<1>2. HowMany(m, i, T) \in Nat /\ HowMany(m, j, T) \in Nat /\ HowMany(i, j, T) \in Nat
  BY HowManyCount
<1>3. ASSUME j \in T PROVE HowMany(i, j, T) > 0
  <2>1. j \in ((i + 1)..j) \cap T
    BY <1>3
  <2>2. Cardinality(((i + 1)..j) \cap T) # 0
    BY <2>1, HowManyCount, FS_EmptySet
  <2>. QED BY <1>2, <2>2 DEF HowMany
<1>4. ASSUME \A l \in (i + 1)..j : l \notin T PROVE HowMany(i, j, T) = 0
  <2>1. ((i + 1)..j) \cap T = {}
    BY <1>4
  <2>. QED BY <2>1, FS_EmptySet DEF HowMany
<1>. QED BY <1>1, <1>2, <1>3, <1>4

\* What a slot adds to a batch's counts, and a deletion after it.
Versions(ways, g, k) == {s \in DOMAIN ways : k[1] \in g[s] /\ ways[s].day = k[2]}
Places(ways) == (DOMAIN ways) \X (1..Len(wayFile))
Deletions(ways, g, k) ==
  {d \in Places(ways) :
     /\ k[1] \in g[d[1]] /\ d[2] \in DOMAIN ways[d[1]].deletions
     /\ ways[d[1]].deletions[d[2]] = k[2]}

LEMMA InProduct ==
  ASSUME NEW S, NEW T
  PROVE  /\ \A s, n : <<s, n>> \in S \X T <=> s \in S /\ n \in T
         /\ \A p \in S \X T : \E s, n : p = <<s, n>>
<1>1. ASSUME NEW s, NEW n PROVE <<s, n>> \in S \X T <=> s \in S /\ n \in T
  <2>1. ASSUME s \in S, n \in T PROVE <<s, n>> \in S \X T
    BY <2>1
  <2>2. ASSUME <<s, n>> \in S \X T PROVE s \in S /\ n \in T
    BY <2>2
  <2>. QED BY <2>1, <2>2
<1>2. ASSUME NEW p \in S \X T PROVE p = <<p[1], p[2]>>
  OBVIOUS
<1>. QED BY <1>1, <1>2

LEMMA InDeletions ==
  ASSUME NEW ways, NEW g, NEW k
  PROVE  /\ \A s, n : <<s, n>> \in Deletions(ways, g, k) <=>
                      /\ s \in DOMAIN ways /\ n \in 1..Len(wayFile)
                      /\ k[1] \in g[s] /\ n \in DOMAIN ways[s].deletions
                      /\ ways[s].deletions[n] = k[2]
         /\ \A p \in Deletions(ways, g, k) : \E s, n : p = <<s, n>>
<1>1. /\ \A s, n : <<s, n>> \in Places(ways) <=> s \in DOMAIN ways /\ n \in 1..Len(wayFile)
      /\ \A p \in Places(ways) : \E s, n : p = <<s, n>>
  <2> DEFINE S == DOMAIN ways
             T == 1..Len(wayFile)
  <2>1. Places(ways) = S \X T
    BY DEF Places
  <2> HIDE DEF S, T
  <2>2. /\ \A s, n : <<s, n>> \in Places(ways) <=> s \in S /\ n \in T
        /\ \A p \in Places(ways) : \E s, n : p = <<s, n>>
    BY <2>1, InProduct
  <2>. QED BY <2>2 DEF S, T
<1>2. \A p : p \in Deletions(ways, g, k) <=> /\ p \in Places(ways)
           /\ k[1] \in g[p[1]] /\ p[2] \in DOMAIN ways[p[1]].deletions
           /\ ways[p[1]].deletions[p[2]] = k[2]
  BY DEF Deletions
<1>3. \A s, n : <<s, n>>[1] = s /\ <<s, n>>[2] = n
  OBVIOUS
<1>. QED BY <1>1, <1>2, <1>3

\* BatchCounts, as the sum that its slots and their deletions make.
LEMMA BatchCountsAre ==
  ASSUME NEW ways \in Seq(Slots), NEW g, NEW k \in Keys, wayFile \in Seq(WayVersions)
  PROVE  /\ BatchCounts(ways, g)[k] = Cardinality(Versions(ways, g, k)) + Cardinality(Deletions(ways, g, k))
         /\ IsFiniteSet(Versions(ways, g, k)) /\ IsFiniteSet(Deletions(ways, g, k))
         /\ Cardinality(Versions(ways, g, k)) \in Nat /\ Cardinality(Deletions(ways, g, k)) \in Nat
<1> DEFINE here == {s \in DOMAIN ways : k[1] \in g[s]}
           V == {s \in here : ways[s].day = k[2]}
           D == {d \in here \X (1..Len(wayFile)) :
                   /\ d[2] \in DOMAIN ways[d[1]].deletions
                   /\ ways[d[1]].deletions[d[2]] = k[2]}
<1>1. BatchCounts(ways, g)[k] = Cardinality(V) + Cardinality(D)
  BY DEF BatchCounts
<1>2. V = Versions(ways, g, k)
  BY DEF Versions
<1>3. D = Deletions(ways, g, k)
  <2> DEFINE T == 1..Len(wayFile)
             H == {s \in DOMAIN ways : k[1] \in g[s]}
             X == H \X T
             O == Deletions(ways, g, k)
  <2>1. D = {p \in X : p[2] \in DOMAIN ways[p[1]].deletions /\ ways[p[1]].deletions[p[2]] = k[2]}
    OBVIOUS
  <2> HIDE DEF D
  <2>2. /\ \A s, n : <<s, n>> \in X <=> s \in H /\ n \in T
        /\ \A p \in X : \E s, n : p = <<s, n>>
    <3> HIDE DEF H, T
    <3>. QED BY InProduct
  <2> HIDE DEF X
  <2>3. \A p : p \in D <=> /\ p \in X
                           /\ p[2] \in DOMAIN ways[p[1]].deletions /\ ways[p[1]].deletions[p[2]] = k[2]
    BY <2>1
  <2>4. \A s, n : <<s, n>>[1] = s /\ <<s, n>>[2] = n
    OBVIOUS
  <2>5. \A p \in D : \E s, n : p = <<s, n>>
    BY <2>2, <2>3
  <2>6. \A p \in O : \E s, n : p = <<s, n>>
    BY InDeletions
  <2>7. ASSUME NEW s, NEW n PROVE <<s, n>> \in D <=> <<s, n>> \in O
    <3> DEFINE p == <<s, n>>
    <3>1. p \in D <=> /\ p \in X
                      /\ p[2] \in DOMAIN ways[p[1]].deletions /\ ways[p[1]].deletions[p[2]] = k[2]
      BY <2>3
    <3>2. p \in X <=> s \in H /\ n \in T
      BY <2>2
    <3>3. p[1] = s /\ p[2] = n
      OBVIOUS
    <3>4. p \in O <=> /\ s \in H /\ n \in T
                      /\ n \in DOMAIN ways[s].deletions /\ ways[s].deletions[n] = k[2]
      BY InDeletions
    <3> HIDE DEF p, H, T, O
    <3>5. p \in D <=> p \in O
      BY <3>1, <3>2, <3>3, <3>4
    <3>. QED BY <3>5 DEF p
  <2> HIDE DEF O
  <2>8. \A p : p \in D <=> p \in O
    BY <2>5, <2>6, <2>7
  <2>9. D = O
    BY <2>8
  <2>. QED BY <2>9 DEF O
<1>4. IsFiniteSet(1..Len(ways)) /\ IsFiniteSet(1..Len(wayFile)) /\ DOMAIN ways = 1..Len(ways)
  BY FS_Interval, Len(ways) \in Int, Len(wayFile) \in Int, 1 \in Int
<1>5. IsFiniteSet(Places(ways))
  <2> DEFINE S == DOMAIN ways
             T == 1..Len(wayFile)
  <2>1. IsFiniteSet(S) /\ IsFiniteSet(T) /\ Places(ways) = S \X T
    BY <1>4 DEF Places
  <2> HIDE DEF S, T
  <2>. QED BY <2>1, FS_Product
<1>6. /\ Versions(ways, g, k) \subseteq 1..Len(ways)
      /\ Deletions(ways, g, k) \subseteq Places(ways)
  BY <1>4 DEF Versions, Deletions
<1>7. IsFiniteSet(Versions(ways, g, k)) /\ IsFiniteSet(Deletions(ways, g, k))
  BY <1>4, <1>5, <1>6, FS_Subset
<1>. QED BY <1>1, <1>2, <1>3, <1>7, FS_CardinalityType

LEMMA AddedElement ==
  ASSUME NEW S, NEW N, NEW x, IsFiniteSet(S), x \notin S, NEW b \in BOOLEAN,
         N = IF b THEN S \cup {x} ELSE S
  PROVE  Cardinality(N) = Cardinality(S) + (IF b THEN 1 ELSE 0)
BY FS_AddElement, FS_CardinalityType

LEMMA VersionCounts ==
  ASSUME NEW ways \in Seq(Slots), NEW d \in Days, NEW g, NEW k \in Keys, wayFile \in Seq(WayVersions)
  PROVE  BatchCounts(Append(ways, [day |-> d, deletions |-> <<>>]), g)[k]
           = BatchCounts(ways, g)[k]
               + (IF d = k[2] /\ k[1] \in g[Len(ways) + 1] THEN 1 ELSE 0)
<1> DEFINE L == Len(ways)
           slot == [day |-> d, deletions |-> <<>>]
           new == Append(ways, slot)
           hit == d = k[2] /\ k[1] \in g[L + 1]
<1>1. slot \in Slots /\ slot.day = d /\ slot.deletions = <<>>
  BY DEF Slots
<1> HIDE DEF slot
<1>2. new \in Seq(Slots)
  BY <1>1
<1>3. /\ L \in Nat /\ DOMAIN ways = 1..L /\ DOMAIN new = 1..(L + 1)
      /\ new[L + 1] = slot /\ \A s \in 1..L : new[s] = ways[s]
  BY <1>1
<1> HIDE DEF L, new
<1>4. Versions(new, g, k) = IF hit THEN Versions(ways, g, k) \cup {L + 1} ELSE Versions(ways, g, k)
  BY <1>1, <1>3 DEF Versions
<1>5. L + 1 \notin Versions(ways, g, k)
  BY <1>3 DEF Versions
<1>6. Deletions(new, g, k) = Deletions(ways, g, k)
  <2> DEFINE N == Deletions(new, g, k)
             O == Deletions(ways, g, k)
  <2>1. ASSUME NEW s, NEW n PROVE <<s, n>> \in N <=> <<s, n>> \in O
    <3>1. s = L + 1 => new[s].deletions = <<>>
      BY <1>1, <1>3
    <3>2. s \in 1..(L + 1) => s \in 1..L \/ s = L + 1
      BY <1>3
    <3>3. <<s, n>> \in N <=> /\ s \in DOMAIN new /\ n \in 1..Len(wayFile)
                             /\ k[1] \in g[s] /\ n \in DOMAIN new[s].deletions
                             /\ new[s].deletions[n] = k[2]
      BY InDeletions
    <3>4. <<s, n>> \in O <=> /\ s \in DOMAIN ways /\ n \in 1..Len(wayFile)
                             /\ k[1] \in g[s] /\ n \in DOMAIN ways[s].deletions
                             /\ ways[s].deletions[n] = k[2]
      BY InDeletions
    <3> HIDE DEF N, O
    <3>. QED BY <1>3, <3>1, <3>2, <3>3, <3>4
  <2>2. \A p \in N \cup O : \E s, n : p = <<s, n>>
    BY InDeletions
  <2> HIDE DEF N, O
  <2>3. \A p : p \in N <=> p \in O
    BY <2>1, <2>2
  <2>4. N = O
    BY <2>3
  <2>. QED BY <2>4 DEF N, O
<1>7. Cardinality(Versions(new, g, k)) = Cardinality(Versions(ways, g, k)) + (IF hit THEN 1 ELSE 0)
  BY <1>4, <1>5, BatchCountsAre, AddedElement
<1> HIDE DEF hit
<1>8. BatchCounts(new, g)[k] = BatchCounts(ways, g)[k] + (IF hit THEN 1 ELSE 0)
  <2>1. BatchCounts(new, g)[k] = Cardinality(Versions(new, g, k)) + Cardinality(Deletions(new, g, k))
    BY <1>2, BatchCountsAre
  <2>. QED BY <1>6, <1>7, <2>1, BatchCountsAre
<1>. QED BY <1>8 DEF hit, new, slot, L

LEMMA DeletionCounts ==
  ASSUME NEW ways \in Seq(Slots), ways # <<>>, NEW d \in Days, NEW g, NEW k \in Keys,
         wayFile \in Seq(WayVersions), Len(ways[Len(ways)].deletions) < Len(wayFile)
  PROVE  BatchCounts([ways EXCEPT ![Len(ways)].deletions = Append(@, d)], g)[k]
           = BatchCounts(ways, g)[k]
               + (IF d = k[2] /\ k[1] \in g[Len(ways)] THEN 1 ELSE 0)
<1> DEFINE L == Len(ways)
           new == [ways EXCEPT ![Len(ways)].deletions = Append(@, d)]
           hit == d = k[2] /\ k[1] \in g[L]
           m == Len(ways[L].deletions)
           x == <<L, m + 1>>
<1>1. new \in Seq(Slots)
  BY DeletionTypes
<1>2. /\ L \in Nat /\ L \in 1..L /\ DOMAIN ways = 1..L
      /\ \A s \in 1..L : ways[s] \in Slots
  OBVIOUS
<1>3. /\ ways[L].deletions \in Seq(Days) /\ m \in Nat /\ DOMAIN ways[L].deletions = 1..m
      /\ m + 1 \in 1..Len(wayFile)
  BY <1>2 DEF Slots
<1>4. /\ DOMAIN new = 1..L /\ new[L].deletions = Append(ways[L].deletions, d)
      /\ \A s \in 1..L : new[s].day = ways[s].day
      /\ \A s \in 1..L : s # L => new[s] = ways[s]
  BY <1>2 DEF Slots
<1>5. /\ DOMAIN new[L].deletions = 1..(m + 1) /\ new[L].deletions[m + 1] = d
      /\ \A n \in 1..m : new[L].deletions[n] = ways[L].deletions[n]
  BY <1>3, <1>4
<1> HIDE DEF L, new, m
<1>6. Versions(new, g, k) = Versions(ways, g, k)
  BY <1>2, <1>4 DEF Versions
<1>7. x \notin Deletions(ways, g, k)
  BY <1>3, InDeletions
<1>8. Deletions(new, g, k) = IF hit THEN Deletions(ways, g, k) \cup {x} ELSE Deletions(ways, g, k)
  <2> DEFINE N == Deletions(new, g, k)
             O == Deletions(ways, g, k)
  <2>1. ASSUME NEW s, NEW n
        PROVE  /\ s # L => (<<s, n>> \in N <=> <<s, n>> \in O)
               /\ n # m + 1 => (<<L, n>> \in N <=> <<L, n>> \in O)
               /\ <<L, m + 1>> \in N <=> hit
    <3>1. <<s, n>> \in N <=> /\ s \in DOMAIN new /\ n \in 1..Len(wayFile)
                             /\ k[1] \in g[s] /\ n \in DOMAIN new[s].deletions
                             /\ new[s].deletions[n] = k[2]
      BY InDeletions
    <3>2. <<s, n>> \in O <=> /\ s \in DOMAIN ways /\ n \in 1..Len(wayFile)
                             /\ k[1] \in g[s] /\ n \in DOMAIN ways[s].deletions
                             /\ ways[s].deletions[n] = k[2]
      BY InDeletions
    <3>6. <<L, n>> \in N <=> /\ L \in DOMAIN new /\ n \in 1..Len(wayFile)
                             /\ k[1] \in g[L] /\ n \in DOMAIN new[L].deletions
                             /\ new[L].deletions[n] = k[2]
      BY InDeletions
    <3>7. <<L, n>> \in O <=> /\ L \in DOMAIN ways /\ n \in 1..Len(wayFile)
                             /\ k[1] \in g[L] /\ n \in DOMAIN ways[L].deletions
                             /\ ways[L].deletions[n] = k[2]
      BY InDeletions
    <3> DEFINE l == m + 1
    <3>8. <<L, l>> \in N <=> /\ L \in DOMAIN new /\ l \in 1..Len(wayFile)
                             /\ k[1] \in g[L] /\ l \in DOMAIN new[L].deletions
                             /\ new[L].deletions[l] = k[2]
      BY InDeletions
    <3> HIDE DEF N, O
    <3>3. s # L => (<<s, n>> \in N <=> <<s, n>> \in O)
      BY <1>2, <1>4, <3>1, <3>2
    <3>4. ASSUME n # m + 1 PROVE <<L, n>> \in N <=> <<L, n>> \in O
      <4>1. n \in DOMAIN new[L].deletions <=> n \in DOMAIN ways[L].deletions
        BY <1>3, <1>5, <3>4
      <4>2. n \in DOMAIN ways[L].deletions => new[L].deletions[n] = ways[L].deletions[n]
        BY <1>3, <1>5
      <4>. QED BY <1>2, <1>4, <3>6, <3>7, <4>1, <4>2
    <3>5. <<L, m + 1>> \in N <=> hit
      <4>1. m + 1 \in DOMAIN new[L].deletions
        BY <1>3, <1>5
      <4>. QED BY <1>2, <1>3, <1>4, <1>5, <3>8, <4>1
    <3>. QED BY <3>3, <3>4, <3>5
  <2>4. \A p \in N \cup O : \E s, n : p = <<s, n>>
    BY InDeletions
  <2>5. \A s, n : <<s, n>> = x <=> s = L /\ n = m + 1
    OBVIOUS
  <2> HIDE DEF N, O, hit, x
  <2>6. \A s, n : <<s, n>> # x => (<<s, n>> \in N <=> <<s, n>> \in O)
    BY <2>1, <2>5
  <2>7. \A p : p # x => (p \in N <=> p \in O)
    BY <2>4, <2>6
  <2>8. x \in N <=> hit
    BY <2>1 DEF x
  <2>9. x \notin O
    BY <1>7 DEF O
  <2>10. N = IF hit THEN O \cup {x} ELSE O
    <3>1. CASE hit
      <4>1. \A p : p \in N <=> p \in O \cup {x}
        BY <2>7, <2>8, <3>1
      <4>2. N = O \cup {x}
        BY <4>1
      <4>. QED BY <3>1, <4>2
    <3>2. CASE ~hit
      <4>1. \A p : p \in N <=> p \in O
        BY <2>7, <2>8, <2>9, <3>2
      <4>2. N = O
        BY <4>1
      <4>. QED BY <3>2, <4>2
    <3>. QED BY <3>1, <3>2
  <2>. QED BY <2>10 DEF N, O
<1>9. Cardinality(Deletions(new, g, k)) = Cardinality(Deletions(ways, g, k)) + (IF hit THEN 1 ELSE 0)
  BY <1>7, <1>8, BatchCountsAre, AddedElement
<1> HIDE DEF hit
<1>10. BatchCounts(new, g)[k] = BatchCounts(ways, g)[k] + (IF hit THEN 1 ELSE 0)
  <2>1. BatchCounts(new, g)[k] = Cardinality(Versions(new, g, k)) + Cardinality(Deletions(new, g, k))
    BY <1>1, BatchCountsAre
  <2>. QED BY <1>6, <1>9, <2>1, BatchCountsAre
<1>. QED BY <1>10 DEF hit, new, L

\* A deletion and a version without nodes leave what was rendered last.
RenderedWays == {i \in DOMAIN wayFile : IsRendered(i)}
LastRendered(n) == LastOf({j \in 1..n : IsRendered(j)})

LEMMA LastRenderedIs ==
  ASSUME NEW n \in Nat, \E j \in 1..n : IsRendered(j)
  PROVE  /\ LastRendered(n) \in 1..n /\ IsRendered(LastRendered(n))
         /\ \A j \in 1..n : IsRendered(j) => j <= LastRendered(n)
<1> DEFINE S == {j \in 1..n : IsRendered(j)}
<1>1. S \in SUBSET (1..n) /\ S # {}
  OBVIOUS
<1>2. LastOf(S) \in S /\ \A j \in S : j <= LastOf(S)
  <2> HIDE DEF S
  <2>. QED BY <1>1, LastOfExists
<1>3. LastRendered(n) = LastOf(S)
  BY DEF LastRendered
<1> HIDE DEF LastRendered
<1>. QED BY <1>2, <1>3

LEMMA LastRenderedNext ==
  ASSUME NEW n \in Nat
  PROVE  /\ IsRendered(n + 1) => LastRendered(n + 1) = n + 1
         /\ ~IsRendered(n + 1) => LastRendered(n + 1) = LastRendered(n)
<1>1. CASE IsRendered(n + 1)
  <2>1. n + 1 \in 1..(n + 1)
    OBVIOUS
  <2>2. LastRendered(n + 1) \in 1..(n + 1) /\ n + 1 <= LastRendered(n + 1)
    BY <1>1, <2>1, LastRenderedIs, n + 1 \in Nat
  <2>. QED BY <1>1, <2>2
<1>2. CASE ~IsRendered(n + 1)
  <2>1. {j \in 1..(n + 1) : IsRendered(j)} = {j \in 1..n : IsRendered(j)}
    BY <1>2
  <2>. QED BY <1>2, <2>1 DEF LastRendered
<1>. QED BY <1>1, <1>2

\* Where the pass counts a version: a deletion where the last version of the file
\* that has nodes was, whatever its way.
Attributed(i) == IF wayFile[i].visible THEN Geometry(i) ELSE LastKnown(RenderedUpTo(i))

LEMMA AttributedIs ==
  ASSUME NEW n \in Nat
  PROVE  /\ IsRendered(n + 1) => Attributed(n + 1) = Geometry(n + 1)
         /\ ~wayFile[n + 1].visible =>
              Attributed(n + 1) = IF \E j \in 1..(n + 1) : IsRendered(j)
                                  THEN Geometry(LastRendered(n + 1)) ELSE {}
         /\ wayFile[n + 1].visible /\ wayFile[n + 1].nodes = <<>> => Attributed(n + 1) = {}
<1>1. Attributed(n + 1) = IF wayFile[n + 1].visible THEN Geometry(n + 1)
                          ELSE IF \E j \in 1..(n + 1) : IsRendered(j)
                          THEN Geometry(LastRendered(n + 1)) ELSE {}
  <2>1. RenderedUpTo(n + 1) = {} <=> ~\E j \in 1..(n + 1) : IsRendered(j)
    BY DEF RenderedUpTo
  <2>2. LastOf(RenderedUpTo(n + 1)) = LastRendered(n + 1)
    BY DEF RenderedUpTo, LastRendered
  <2>. QED BY <2>1, <2>2 DEF Attributed, LastKnown
<1>2. wayFile[n + 1].nodes = <<>> => Geometry(n + 1) = {}
  <2> SUFFICES ASSUME wayFile[n + 1].nodes = <<>> PROVE Geometry(n + 1) = {}
    OBVIOUS
  <2>1. DOMAIN wayFile[n + 1].nodes = {}
    OBVIOUS
  <2>2. {CellAt(wayFile[n + 1].nodes[i], wayFile[n + 1].day) : i \in DOMAIN wayFile[n + 1].nodes} = {}
    BY <2>1
  <2>. QED BY <2>2 DEF Geometry
<1>. QED BY <1>1, <1>2 DEF IsRendered

\* The slot of a version, and of the deletions after it, in a batch that starts
\* after version q.
Slot(q, i) == HowMany(q, i, RenderedWays)

\* A rendered version has a slot of its own, in the order of the file.
LEMMA SlotIs ==
  ASSUME wayFile \in Seq(WayVersions), NEW q \in Nat, NEW n \in Nat, n <= Len(wayFile),
         NEW i \in (q + 1)..n, IsRendered(q + 1)
  PROVE  /\ LastRendered(i) \in (q + 1)..i /\ IsRendered(LastRendered(i))
         /\ Slot(q, LastRendered(i)) = Slot(q, i)
         /\ Slot(q, i) \in 1..Slot(q, n)
<1> DEFINE l == LastRendered(i)
           R == RenderedWays
<1>1. i \in Nat /\ q + 1 \in 1..i /\ q + 1 <= i /\ i <= n /\ DOMAIN wayFile = 1..Len(wayFile)
  OBVIOUS
<1>2. l \in 1..i /\ IsRendered(l) /\ \A j \in 1..i : IsRendered(j) => j <= l
  BY <1>1, LastRenderedIs
<1>3. q + 1 <= l
  BY <1>1, <1>2
<1>4. \A j \in (l + 1)..i : j \notin R
  <2> SUFFICES ASSUME NEW j \in (l + 1)..i, IsRendered(j) PROVE FALSE
    BY DEF RenderedWays
  <2>1. j \in 1..i /\ j > l
    BY <1>1, <1>2
  <2>. QED BY <1>2, <2>1
<1> HIDE DEF l, R
<1>5. l \in Nat /\ q <= l /\ l <= i /\ l \in (q + 1)..i
  BY <1>1, <1>2, <1>3
<1>6. Slot(q, l) = Slot(q, i)
  <2>1. CASE l = i
    BY <2>1
  <2>2. CASE l < i
    BY <1>1, <1>4, <1>5, <2>2, HowManyGrows DEF Slot, R
  <2>. QED BY <1>1, <1>5, <2>1, <2>2
<1>7. Slot(q, i) <= Slot(q, n) /\ Slot(q, i) \in Nat /\ Slot(q, n) \in Nat
  <2>1. Slot(q, i) \in Nat /\ Slot(q, n) \in Nat
    BY <1>1, HowManyCount DEF Slot
  <2>2. CASE i = n
    BY <2>1, <2>2
  <2>3. CASE i < n
    BY <1>1, <2>1, <2>3, HowManyGrows DEF Slot
  <2>. QED BY <1>1, <2>1, <2>2, <2>3
<1>8. Slot(q, i) > 0
  <2>1. l \in R
    BY <1>1, <1>2, <1>5 DEF R, RenderedWays
  <2>2. Slot(q, q) = 0
    BY HowManyCount DEF Slot
  <2>3. q < l
    BY <1>3, <1>5
  <2>4. Slot(q, q) < Slot(q, l)
    BY <1>5, <2>1, <2>3, HowManyGrows DEF Slot, R
  <2>. QED BY <1>6, <2>2, <2>4
<1>. QED BY <1>2, <1>5, <1>6, <1>7, <1>8 DEF l

LEMMA SlotsDiffer ==
  ASSUME wayFile \in Seq(WayVersions), NEW q \in Nat, NEW n \in Nat, n <= Len(wayFile),
         NEW i \in (q + 1)..n, NEW j \in (q + 1)..n, IsRendered(i), IsRendered(j),
         Slot(q, i) = Slot(q, j)
  PROVE  i = j
<1>1. i \in Nat /\ j \in Nat /\ q <= i /\ q <= j /\ i \in RenderedWays /\ j \in RenderedWays
  BY DEF RenderedWays
<1>2. HowMany(q, i, RenderedWays) \in Nat /\ HowMany(q, j, RenderedWays) \in Nat
  BY <1>1, HowManyCount
<1>3. ASSUME i < j PROVE FALSE
  BY <1>1, <1>2, <1>3, HowManyGrows DEF Slot
<1>4. ASSUME j < i PROVE FALSE
  BY <1>1, <1>2, <1>4, HowManyGrows DEF Slot
<1>. QED BY <1>1, <1>3, <1>4

-----------------------------------------------------------------------------
(* What the state of the way pass has to do with the versions read *)

\* Versions whose day is k's and that have k's cell in g.
\* The versions that count for key k if version i has the cells g[i].
Told(g, k) == {i \in DOMAIN wayFile : wayFile[i].day = k[2] /\ k[1] \in g[i]}
Attributions == [i \in DOMAIN wayFile |-> Attributed(i)]

\* What a batch that starts after version q counts, if its slots have the cells g.
BatchCells(q, g) ==
  [i \in DOMAIN wayFile |->
     IF IsRendered(i) \/ ~wayFile[i].visible THEN g[Slot(q, i)] ELSE {}]

\* The flushed counts are those of the versions up to q, or some of them.
CountsTell(q, counts) ==
  \A k \in Keys :
    /\ counts[k] <= HowMany(0, q, Told(Attributions, k))
    /\ OneDayPerNode => counts[k] = HowMany(0, q, Told(Attributions, k))
Covers(C, i) == C \subseteq Geometry(i) /\ (OneDayPerNode => C = Geometry(i))
\* The carried geometry is the one rendered last up to version q, if there is one.
CarryTells(q, known) ==
  /\ (\E j \in 1..q : IsRendered(j)) => \E C : known = {C} /\ Covers(C, LastRendered(q))
  /\ (\E j \in 1..q : IsRendered(j)) \/ known = {}
\* The batch has a slot for every rendered version after q, and every deletion after
\* q hangs on the slot of the version before it.
SlotsTell(q, n, ways) ==
  /\ Len(ways) = Slot(q, n)
  /\ ways = <<>> => q = n
  /\ ways # <<>> => q < n /\ IsRendered(q + 1)
  /\ \A s \in DOMAIN ways : Len(ways[s].deletions) <= n
  /\ \A g : \A k \in Keys : BatchCounts(ways, g)[k] = HowMany(q, n, Told(BatchCells(q, g), k))
RefOf(q, i, p) == [node |-> wayFile[i].nodes[p], day |-> wayFile[i].day, slot |-> Slot(q, i)]
\* The batch's refs are the nodes of its rendered versions, each with its slot.
RefsTell(q, n, batch) ==
  /\ \A m \in DOMAIN batch : \E i \in (q + 1)..n :
       IsRendered(i) /\ \E p \in DOMAIN wayFile[i].nodes : batch[m] = RefOf(q, i, p)
  /\ \A i \in (q + 1)..n : IsRendered(i) =>
       \A p \in DOMAIN wayFile[i].nodes : \E m \in DOMAIN batch : batch[m] = RefOf(q, i, p)

\* n versions are read, the first q of them flushed, the others in the batch.
WayTells(q, n, batch, ways, known, counts) ==
  /\ q \in Nat /\ n \in Nat /\ q <= n /\ n <= Len(wayFile)
  /\ CountsTell(q, counts) /\ CarryTells(q, known)
  /\ SlotsTell(q, n, ways) /\ RefsTell(q, n, batch)

-----------------------------------------------------------------------------
(* A batch resolved *)

\* A slot's cells are its version's, and all of them if no node is needed on
\* two days.
LEMMA RenderedCovers ==
  ASSUME NEW flat, CacheTells(flat), wayFile \in Seq(WayVersions),
         NEW q \in Nat, NEW n \in Nat, n <= Len(wayFile),
         NEW batch \in Seq(Refs), RefsTell(q, n, batch),
         NEW ways, NEW i \in (q + 1)..n, IsRendered(i), Slot(q, i) \in DOMAIN ways
  PROVE  Covers(Rendered(batch, ways)[Slot(q, i)], i)
<1> DEFINE order == Sorted(batch)
           answer == Sweep(order)
           s == Slot(q, i)
           v == wayFile[i]
           cells == Rendered(batch, ways)[s]
<1>1. cells = {answer[m].cell : m \in {j \in DOMAIN batch : order[j].slot = s}} \ {NoCell}
  BY DEF Rendered
<1>2. /\ DOMAIN order = DOMAIN batch
      /\ \A l \in DOMAIN batch : Rank(batch, l) \in DOMAIN batch /\ order[Rank(batch, l)] = batch[l]
      /\ \A m \in DOMAIN batch : \E l \in DOMAIN batch : order[m] = batch[l]
  BY SortedIs, RanksAscend
<1>3. \A m \in DOMAIN batch : Answers(flat, order, m, answer[m])
  BY <1>2, SortedOrdered, SweepAnswers
<1>4. i \in DOMAIN wayFile /\ \A j \in (q + 1)..n : j \in DOMAIN wayFile
  OBVIOUS
<1> HIDE DEF order, answer, cells
<1>5. \A m \in DOMAIN batch : answer[m].cell # NoCell => answer[m].cell = DocCell(order[m])
  BY <1>3 DEF Answers
<1>6. \A m \in DOMAIN batch : \E j \in (q + 1)..n : IsRendered(j) /\
         \E p \in DOMAIN wayFile[j].nodes : order[m] = RefOf(q, j, p)
  BY <1>2 DEF RefsTell
<1>7. \A j, p : DocCell(RefOf(q, j, p)) = CellAt(wayFile[j].nodes[p], wayFile[j].day)
  BY DEF DocCell, RefOf
<1>8. cells \subseteq Geometry(i)
  <2> SUFFICES ASSUME NEW m \in DOMAIN batch, order[m].slot = s, answer[m].cell # NoCell
               PROVE  answer[m].cell \in Geometry(i)
    BY <1>1
  <2>0. PICK j \in (q + 1)..n : IsRendered(j) /\ \E p \in DOMAIN wayFile[j].nodes : order[m] = RefOf(q, j, p)
    BY <1>6
  <2>1. PICK p \in DOMAIN wayFile[j].nodes : IsRendered(j) /\ order[m] = RefOf(q, j, p)
    BY <2>0
  <2>2. Slot(q, j) = Slot(q, i)
    BY <2>1 DEF RefOf
  <2>3. j = i
    BY <2>1, <2>2, SlotsDiffer
  <2>4. answer[m].cell = CellAt(v.nodes[p], v.day)
    BY <1>5, <1>7, <2>1, <2>3
  <2>. QED BY <2>1, <2>3, <2>4 DEF Geometry
<1>9. ASSUME OneDayPerNode PROVE Geometry(i) \subseteq cells
  <2> SUFFICES ASSUME NEW p \in DOMAIN v.nodes, CellAt(v.nodes[p], v.day) # NoCell
               PROVE  CellAt(v.nodes[p], v.day) \in cells
    BY DEF Geometry
  <2>1. PICK l \in DOMAIN batch : batch[l] = RefOf(q, i, p)
    BY DEF RefsTell
  <2> DEFINE m == Rank(batch, l)
  <2>2. m \in DOMAIN batch /\ order[m] = RefOf(q, i, p)
    BY <1>2, <2>1
  <2> HIDE DEF m
  <2>3. order[m].slot = s /\ order[m].node = v.nodes[p] /\ order[m].day = v.day
        /\ DocCell(order[m]) = CellAt(v.nodes[p], v.day)
    <3> DEFINE r == RefOf(q, i, p)
    <3>1. r.slot = s /\ r.node = v.nodes[p] /\ r.day = v.day
      BY DEF RefOf
    <3>2. DocCell(r) = CellAt(v.nodes[p], v.day) /\ order[m] = r
      BY <1>7, <2>2
    <3> HIDE DEF r
    <3>. QED BY <3>1, <3>2
  <2>4. ASSUME NEW j \in 1..(m - 1), order[j].node = order[m].node, order[j].day < order[m].day
        PROVE  FALSE
    <3>1. j \in DOMAIN batch /\ v.day \in Nat
      <4>1. v.day \in Days
        <5>1. v \in WayVersions
          BY <1>4
        <5> HIDE DEF v
        <5>. QED BY <5>1 DEF WayVersions
      <4>2. DOMAIN batch = 1..Len(batch) /\ Len(batch) \in Nat
        OBVIOUS
      <4>3. j \in DOMAIN batch
        BY <2>2, <4>2
      <4>. QED BY <4>1, <4>3, DaysAreNumbers
    <3>7. PICK j2 \in (q + 1)..n : \E p2 \in DOMAIN wayFile[j2].nodes : order[j] = RefOf(q, j2, p2)
      BY <1>6, <3>1
    <3>2. PICK p2 \in DOMAIN wayFile[j2].nodes : order[j] = RefOf(q, j2, p2)
      BY <3>7
    <3>3. wayFile[j2].nodes[p2] = v.nodes[p] /\ wayFile[j2].day < v.day
      BY <2>3, <2>4, <3>2 DEF RefOf
    <3>4. wayFile[j2].day # v.day
      <4>1. j2 \in DOMAIN wayFile
        BY <1>4
      <4>2. wayFile[j2].day \in Days
        <5>1. wayFile[j2] \in WayVersions
          BY <4>1
        <5>. QED BY <5>1 DEF WayVersions
      <4>. QED BY <3>1, <3>3, <4>2, DaysAreNumbers
    <3> DEFINE A == {wayFile[j2].nodes[x] : x \in DOMAIN wayFile[j2].nodes}
               B == {v.nodes[x] : x \in DOMAIN v.nodes}
    <3>5. A \cap B = {}
      BY <1>4, <1>9, <3>4 DEF OneDayPerNode
    <3>6. v.nodes[p] \in A /\ v.nodes[p] \in B
      BY <3>3
    <3>. QED BY <3>5, <3>6
  <2>5. answer[m].cell = DocCell(order[m])
    BY <1>3, <2>2, <2>4 DEF Answers
  <2>. QED BY <1>1, <2>2, <2>3, <2>5
<1>. QED BY <1>8, <1>9 DEF Covers, cells

LEMMA BatchCellsCover ==
  ASSUME NEW flat, CacheTells(flat), wayFile \in Seq(WayVersions),
         NEW q \in Nat, NEW n \in Nat, n <= Len(wayFile),
         NEW batch \in Seq(Refs), RefsTell(q, n, batch),
         NEW ways \in Seq(Slots), Len(ways) = Slot(q, n), IsRendered(q + 1), NEW i \in (q + 1)..n
  PROVE  LET cells == BatchCells(q, Rendered(batch, ways))[i]
         IN  cells \subseteq Attributed(i) /\ (OneDayPerNode => cells = Attributed(i))
<1> DEFINE g == Rendered(batch, ways)
           l == LastRendered(i)
<1>1. i \in DOMAIN wayFile /\ i - 1 \in Nat /\ (i - 1) + 1 = i /\ i \in Nat
  OBVIOUS
<1>2. /\ l \in (q + 1)..i /\ IsRendered(l) /\ Slot(q, l) = Slot(q, i)
      /\ Slot(q, i) \in 1..Slot(q, n) /\ Slot(q, i) \in DOMAIN ways /\ l \in (q + 1)..n
  <2>1. l \in (q + 1)..i /\ IsRendered(l) /\ Slot(q, l) = Slot(q, i) /\ Slot(q, i) \in 1..Slot(q, n)
    BY SlotIs
  <2>2. DOMAIN ways = 1..Len(ways)
    OBVIOUS
  <2> HIDE DEF l
  <2>. QED BY <2>1, <2>2
<1> HIDE DEF l
<1>3. Covers(g[Slot(q, i)], l)
  BY <1>2, RenderedCovers
<1> HIDE DEF g
<1>4. BatchCells(q, g)[i] = IF IsRendered(i) \/ ~wayFile[i].visible THEN g[Slot(q, i)] ELSE {}
  BY <1>1 DEF BatchCells
<1>5. /\ IsRendered(i) => l = i /\ Attributed(i) = Geometry(i)
      /\ ~wayFile[i].visible => Attributed(i) = Geometry(l)
      /\ ~IsRendered(i) /\ wayFile[i].visible => Attributed(i) = {}
  <2> DEFINE m == i - 1
  <2>1. m \in Nat /\ m + 1 = i
    BY <1>1
  <2> HIDE DEF m
  <2>2. /\ IsRendered(m + 1) => LastRendered(m + 1) = m + 1 /\ Attributed(m + 1) = Geometry(m + 1)
        /\ ~wayFile[m + 1].visible => Attributed(m + 1) = Geometry(LastRendered(m + 1))
        /\ ~IsRendered(m + 1) /\ wayFile[m + 1].visible => Attributed(m + 1) = {}
    <3>1. \E j \in 1..(m + 1) : IsRendered(j)
      <4>1. l \in 1..i
        BY <1>2
      <4>. QED BY <1>2, <2>1, <4>1
    <3>. QED BY <2>1, <3>1, LastRenderedNext, AttributedIs DEF IsRendered
  <2>. QED BY <2>1, <2>2 DEF l
<1>6. BatchCells(q, g)[i] \subseteq Attributed(i)
      /\ (OneDayPerNode => BatchCells(q, g)[i] = Attributed(i))
  BY <1>3, <1>4, <1>5 DEF Covers
<1>. QED BY <1>6 DEF g

LEMMA NoSlotsTell ==
  ASSUME wayFile \in Seq(WayVersions), NEW n \in Nat
  PROVE  SlotsTell(n, n, <<>>) /\ RefsTell(n, n, <<>>)
<1>1. Slot(n, n) = 0
  BY HowManyCount DEF Slot
<1>2. ASSUME NEW g, NEW k \in Keys
      PROVE  BatchCounts(<<>>, g)[k] = HowMany(n, n, Told(BatchCells(n, g), k))
  <2>1. HowMany(n, n, Told(BatchCells(n, g), k)) = 0
    BY HowManyCount
  <2>2. Versions(<<>>, g, k) = {}
    BY DEF Versions
  <2>3. ASSUME NEW p \in Deletions(<<>>, g, k) PROVE FALSE
    <3>1. PICK s, m : p = <<s, m>>
      BY InDeletions
    <3>2. s \in DOMAIN <<>>
      BY <3>1, InDeletions
    <3>. QED BY <3>2
  <2>4. Deletions(<<>>, g, k) = {}
    BY <2>3
  <2>5. <<>> \in Seq(Slots)
    OBVIOUS
  <2>6. BatchCounts(<<>>, g)[k] = Cardinality(Versions(<<>>, g, k)) + Cardinality(Deletions(<<>>, g, k))
    BY <2>5, BatchCountsAre
  <2>7. BatchCounts(<<>>, g)[k] = Cardinality({}) + Cardinality({})
    BY <2>2, <2>4, <2>6
  <2>. QED BY <2>1, <2>7, FS_EmptySet
<1>. QED BY <1>1, <1>2 DEF SlotsTell, RefsTell

LEMMA FlushTells ==
  ASSUME NEW flat, CacheTells(flat), wayFile \in Seq(WayVersions),
         NEW q, NEW n, NEW batch \in Seq(Refs), NEW ways \in Seq(Slots), ways # <<>>,
         NEW known, NEW counts \in Counts, WayTells(q, n, batch, ways, known, counts)
  PROVE  LET rendered == Rendered(batch, ways)
         IN  WayTells(n, n, <<>>, <<>>, LastGeometry(rendered),
                      Plus(counts, BatchCounts(ways, rendered)))
<1> DEFINE g == Rendered(batch, ways)
           new == Plus(counts, BatchCounts(ways, g))
<1>1. /\ q \in Nat /\ n \in Nat /\ q < n /\ n <= Len(wayFile) /\ IsRendered(q + 1)
      /\ Len(ways) = Slot(q, n) /\ CountsTell(q, counts) /\ RefsTell(q, n, batch)
      /\ \A k \in Keys : BatchCounts(ways, g)[k] = HowMany(q, n, Told(BatchCells(q, g), k))
  BY DEF WayTells, SlotsTell
<1>2. \A i \in (q + 1)..n : /\ BatchCells(q, g)[i] \subseteq Attributed(i)
                            /\ OneDayPerNode => BatchCells(q, g)[i] = Attributed(i)
  BY <1>1, BatchCellsCover
<1>3. CountsTell(n, new)
  <2> SUFFICES ASSUME NEW k \in Keys
               PROVE  /\ new[k] <= HowMany(0, n, Told(Attributions, k))
                      /\ OneDayPerNode => new[k] = HowMany(0, n, Told(Attributions, k))
    BY DEF CountsTell
  <2> DEFINE D == Told(Attributions, k)
             B == Told(BatchCells(q, g), k)
  <2>1. new[k] = counts[k] + HowMany(q, n, B) /\ counts[k] \in Nat
    <3>1. BatchCounts(ways, g) \in Counts
      BY BatchCountsCount
    <3>. QED BY <1>1, <3>1, PlusCounts DEF Counts
  <2>2. counts[k] <= HowMany(0, q, D) /\ (OneDayPerNode => counts[k] = HowMany(0, q, D))
    BY <1>1 DEF CountsTell
  <2> HIDE DEF g, new
  <2>3. \A i \in (q + 1)..n : /\ i \in B => i \in D
                              /\ OneDayPerNode => (i \in B <=> i \in D)
    <3> SUFFICES ASSUME NEW i \in (q + 1)..n
                 PROVE  (i \in B => i \in D) /\ (OneDayPerNode => (i \in B <=> i \in D))
      OBVIOUS
    <3>1. i \in DOMAIN wayFile
      BY <1>1
    <3>2. Attributions[i] = Attributed(i)
      BY <3>1 DEF Attributions
    <3>. QED BY <1>2, <3>1, <3>2 DEF Told
  <2> HIDE DEF B, D
  <2>4. HowMany(q, n, B) <= HowMany(q, n, D) /\ (OneDayPerNode => HowMany(q, n, B) = HowMany(q, n, D))
    BY <1>1, <2>3, HowManyLeq, HowManySame
  <2>5. HowMany(0, n, D) = HowMany(0, q, D) + HowMany(q, n, D)
    BY <1>1, HowManyJoin
  <2>6. HowMany(0, q, D) \in Nat /\ HowMany(q, n, D) \in Nat /\ HowMany(q, n, B) \in Nat
    BY <1>1, HowManyCount
  <2>. QED BY <2>1, <2>2, <2>4, <2>5, <2>6 DEF D
<1>4. CarryTells(n, LastGeometry(g))
  <2> DEFINE l == LastRendered(n)
  <2>1. n \in (q + 1)..n
    BY <1>1
  <2>2. /\ l \in (q + 1)..n /\ IsRendered(l) /\ Slot(q, l) = Slot(q, n)
        /\ Slot(q, n) \in 1..Slot(q, n)
    BY <1>1, <2>1, SlotIs
  <2> HIDE DEF l
  <2>3. Slot(q, l) \in DOMAIN ways /\ DOMAIN ways = 1..Len(ways) /\ Len(ways) \in Nat
    BY <1>1, <2>2
  <2>4. Covers(g[Slot(q, l)], l)
    BY <1>1, <2>2, <2>3, RenderedCovers
  <2>5. Len(g) = Len(ways)
    <3>1. DOMAIN g = DOMAIN ways
      BY DEF Rendered
    <3> HIDE DEF g
    <3>. QED BY <2>3, <3>1
  <2> HIDE DEF g
  <2>6. LastGeometry(g) = {g[Slot(q, l)]}
    BY <1>1, <2>2, <2>5 DEF LastGeometry
  <2>7. l \in 1..n
    BY <1>1, <2>2
  <2>. QED BY <2>2, <2>4, <2>6, <2>7 DEF CarryTells, l
<1>5. SlotsTell(n, n, <<>>) /\ RefsTell(n, n, <<>>)
  BY <1>1, NoSlotsTell
<1> HIDE DEF new
<1>6. WayTells(n, n, <<>>, <<>>, LastGeometry(g), new)
  BY <1>1, <1>3, <1>4, <1>5 DEF WayTells
<1>. QED BY <1>6 DEF new

-----------------------------------------------------------------------------
(* A version read *)

LEMMA VersionNext ==
  ASSUME wayFile \in Seq(WayVersions), NEW n \in Nat, n + 1 <= Len(wayFile)
  PROVE  /\ n + 1 \in DOMAIN wayFile /\ wayFile[n + 1] \in WayVersions
         /\ wayFile[n + 1].day \in Days /\ wayFile[n + 1].visible \in BOOLEAN
         /\ wayFile[n + 1].nodes \in Seq(Int)
         /\ IsRendered(n + 1) <=> n + 1 \in RenderedWays
<1>1. n + 1 \in DOMAIN wayFile /\ wayFile[n + 1] \in WayVersions
  OBVIOUS
<1>2. \A v \in WayVersions : v.day \in Days /\ v.visible \in BOOLEAN /\ v.nodes \in Seq(Int)
  BY DEF WayVersions
<1>. QED BY <1>1, <1>2 DEF RenderedWays

LEMMA SlotNext ==
  ASSUME wayFile \in Seq(WayVersions), NEW q \in Nat, NEW n \in Nat, q <= n, n + 1 <= Len(wayFile)
  PROVE  /\ Slot(q, n + 1) = Slot(q, n) + (IF IsRendered(n + 1) THEN 1 ELSE 0)
         /\ Slot(q, n) \in Nat
<1> DEFINE R == RenderedWays
<1>1. IsRendered(n + 1) <=> n + 1 \in R
  BY VersionNext
<1> HIDE DEF R
<1>2. HowMany(q, n + 1, R) = HowMany(q, n, R) + (IF n + 1 \in R THEN 1 ELSE 0)
  BY HowManyNext
<1>3. HowMany(q, n, R) \in Nat
  BY HowManyCount
<1>. QED BY <1>1, <1>2, <1>3 DEF Slot, R

\* The version after n adds itself if it counts.
AddsItself(q, n, g, k) ==
  HowMany(q, n + 1, Told(g, k)) = HowMany(q, n, Told(g, k))
    + (IF wayFile[n + 1].day = k[2] /\ k[1] \in g[n + 1] THEN 1 ELSE 0)

LEMMA ToldNext ==
  ASSUME wayFile \in Seq(WayVersions), NEW q \in Nat, NEW n \in Nat, q <= n, n + 1 <= Len(wayFile),
         NEW g, NEW k
  PROVE  /\ HowMany(q, n + 1, Told(g, k)) = HowMany(q, n, Told(g, k))
              + (IF wayFile[n + 1].day = k[2] /\ k[1] \in g[n + 1] THEN 1 ELSE 0)
         /\ HowMany(q, n, Told(g, k)) \in Nat
<1> DEFINE T == Told(g, k)
<1>1. n + 1 \in T <=> wayFile[n + 1].day = k[2] /\ k[1] \in g[n + 1]
  BY VersionNext DEF Told
<1> HIDE DEF T
<1>2. HowMany(q, n + 1, T) = HowMany(q, n, T) + (IF n + 1 \in T THEN 1 ELSE 0)
  BY HowManyNext
<1>3. HowMany(q, n, T) \in Nat
  BY HowManyCount
<1>. QED BY <1>1, <1>2, <1>3 DEF T

LEMMA ToldAddsItself ==
  ASSUME wayFile \in Seq(WayVersions), NEW q \in Nat, NEW n \in Nat, q <= n, n + 1 <= Len(wayFile),
         NEW g, NEW k
  PROVE  AddsItself(q, n, g, k)
BY ToldNext DEF AddsItself

LEMMA RefsStayTold ==
  ASSUME NEW q \in Nat, NEW n \in Nat, q <= n, ~IsRendered(n + 1), NEW batch, RefsTell(q, n, batch)
  PROVE  /\ RefsTell(q, n + 1, batch)
         /\ q = n => RefsTell(n + 1, n + 1, batch)
<1>1. \A i \in (q + 1)..(n + 1) : IsRendered(i) => i \in (q + 1)..n
  <2> SUFFICES ASSUME NEW i \in (q + 1)..(n + 1), IsRendered(i) PROVE i \in (q + 1)..n
    OBVIOUS
  <2>1. i # n + 1
    OBVIOUS
  <2>. QED BY <2>1
<1>2. \A i \in (q + 1)..n : i \in (q + 1)..(n + 1)
  OBVIOUS
<1>3. RefsTell(q, n + 1, batch)
  BY <1>1, <1>2 DEF RefsTell
<1>4. ASSUME q = n PROVE RefsTell(n + 1, n + 1, batch)
  <2>1. (q + 1)..n = {} /\ ((n + 1) + 1)..(n + 1) = {}
    BY <1>4
  <2>2. DOMAIN batch = {}
    BY <2>1 DEF RefsTell
  <2>. QED BY <2>1, <2>2 DEF RefsTell
<1>. QED BY <1>3, <1>4

LEMMA CarryStaysTold ==
  ASSUME NEW n \in Nat, ~IsRendered(n + 1), NEW known, CarryTells(n, known)
  PROVE  CarryTells(n + 1, known)
<1>1. (\E j \in 1..(n + 1) : IsRendered(j)) <=> (\E j \in 1..n : IsRendered(j))
  <2>1. \A j : j \in 1..n => j \in 1..(n + 1)
    OBVIOUS
  <2>2. \A j \in 1..(n + 1) : j = n + 1 \/ j \in 1..n
    OBVIOUS
  <2>. QED BY <2>1, <2>2
<1>2. LastRendered(n + 1) = LastRendered(n)
  BY LastRenderedNext
<1>. QED BY <1>1, <1>2 DEF CarryTells

\* A version without nodes.
LEMMA EmptyTells ==
  ASSUME wayFile \in Seq(WayVersions), NEW q, NEW n, NEW batch, NEW ways \in Seq(Slots),
         NEW known, NEW counts \in Counts, WayTells(q, n, batch, ways, known, counts),
         n < Len(wayFile), wayFile[n + 1].visible, wayFile[n + 1].nodes = <<>>
  PROVE  \E p : WayTells(p, n + 1, batch, ways, known, counts)
<1>1. /\ q \in Nat /\ n \in Nat /\ q <= n /\ n + 1 <= Len(wayFile) /\ n + 1 \in Nat
      /\ CountsTell(q, counts) /\ CarryTells(q, known)
      /\ SlotsTell(q, n, ways) /\ RefsTell(q, n, batch)
  BY DEF WayTells
<1>2. ~IsRendered(n + 1)
  BY DEF IsRendered
<1>3. CASE ways = <<>>
  <2>1. q = n
    BY <1>1, <1>3 DEF SlotsTell
  <2>2. SlotsTell(n + 1, n + 1, ways) /\ RefsTell(n + 1, n + 1, batch)
    BY <1>1, <1>2, <1>3, <2>1, NoSlotsTell, RefsStayTold
  <2>3. CountsTell(n + 1, counts)
    <3>1. Attributions[n + 1] = {}
      BY <1>1, VersionNext, AttributedIs DEF Attributions
    <3>2. ASSUME NEW k
          PROVE  HowMany(0, n + 1, Told(Attributions, k)) = HowMany(0, n, Told(Attributions, k))
      <4> DEFINE A == Attributions
      <4>1. A[n + 1] = {}
        BY <3>1
      <4> HIDE DEF A
      <4>2. /\ HowMany(0, n + 1, Told(A, k)) = HowMany(0, n, Told(A, k))
                 + (IF wayFile[n + 1].day = k[2] /\ k[1] \in A[n + 1] THEN 1 ELSE 0)
            /\ HowMany(0, n, Told(A, k)) \in Nat
        BY <1>1, ToldNext
      <4>. QED BY <4>1, <4>2 DEF A
    <3>. QED BY <1>1, <2>1, <3>2 DEF CountsTell
  <2>4. CarryTells(n + 1, known)
    BY <1>1, <1>2, <2>1, CarryStaysTold
  <2>5. WayTells(n + 1, n + 1, batch, ways, known, counts)
    BY <1>1, <2>2, <2>3, <2>4 DEF WayTells
  <2>. QED BY <2>5
<1>4. CASE ways # <<>>
  <2>1. RefsTell(q, n + 1, batch)
    BY <1>1, <1>2, RefsStayTold
  <2>2. ASSUME NEW g, NEW k \in Keys
        PROVE  BatchCounts(ways, g)[k] = HowMany(q, n + 1, Told(BatchCells(q, g), k))
    <3>1. BatchCells(q, g)[n + 1] = {}
      BY <1>1, <1>2, VersionNext DEF BatchCells
    <3>2. HowMany(q, n + 1, Told(BatchCells(q, g), k)) = HowMany(q, n, Told(BatchCells(q, g), k))
      <4> DEFINE B == BatchCells(q, g)
      <4>1. B[n + 1] = {}
        BY <3>1
      <4> HIDE DEF B
      <4>2. /\ HowMany(q, n + 1, Told(B, k)) = HowMany(q, n, Told(B, k))
                 + (IF wayFile[n + 1].day = k[2] /\ k[1] \in B[n + 1] THEN 1 ELSE 0)
            /\ HowMany(q, n, Told(B, k)) \in Nat
        BY <1>1, ToldNext
      <4>. QED BY <4>1, <4>2 DEF B
    <3>. QED BY <1>1, <3>2 DEF SlotsTell
  <2>3. Slot(q, n + 1) = Slot(q, n)
    BY <1>1, <1>2, SlotNext
  <2>4. \A s \in DOMAIN ways : Len(ways[s].deletions) <= n + 1
    <3> SUFFICES ASSUME NEW s \in DOMAIN ways PROVE Len(ways[s].deletions) <= n + 1
      OBVIOUS
    <3>1. Len(ways[s].deletions) <= n /\ ways[s] \in Slots
      BY <1>1 DEF SlotsTell
    <3>2. Len(ways[s].deletions) \in Nat
      BY <3>1 DEF Slots
    <3>. QED BY <1>1, <3>1, <3>2
  <2>5. q < n + 1 /\ q <= n + 1
    BY <1>1
  <2>6. SlotsTell(q, n + 1, ways)
    BY <1>1, <1>4, <2>2, <2>3, <2>4, <2>5 DEF SlotsTell
  <2>7. WayTells(q, n + 1, batch, ways, known, counts)
    BY <1>1, <2>1, <2>5, <2>6 DEF WayTells
  <2>. QED BY <2>7
<1>. QED BY <1>3, <1>4

\* A deletion in a later batch than its version.
LEMMA DeletionAfterTells ==
  ASSUME wayFile \in Seq(WayVersions), NEW q, NEW n, NEW batch,
         NEW known, NEW counts \in Counts, WayTells(q, n, batch, <<>>, known, counts),
         n < Len(wayFile), ~wayFile[n + 1].visible
  PROVE  LET new == [k \in Keys |-> counts[k] +
                       (IF k[2] = wayFile[n + 1].day /\ k[1] \in UNION known THEN 1 ELSE 0)]
         IN  WayTells(n + 1, n + 1, batch, <<>>, known, new)
<1> DEFINE new == [k \in Keys |-> counts[k] +
                     (IF k[2] = wayFile[n + 1].day /\ k[1] \in UNION known THEN 1 ELSE 0)]
<1>1. /\ q \in Nat /\ n \in Nat /\ n + 1 <= Len(wayFile) /\ n + 1 \in Nat
      /\ CountsTell(q, counts) /\ CarryTells(q, known)
      /\ SlotsTell(q, n, <<>>) /\ RefsTell(q, n, batch)
  BY DEF WayTells
<1>2. ~IsRendered(n + 1) /\ q = n
  BY <1>1 DEF IsRendered, SlotsTell
<1>3. SlotsTell(n + 1, n + 1, <<>>) /\ RefsTell(n + 1, n + 1, batch)
  BY <1>1, <1>2, NoSlotsTell, RefsStayTold
<1>4. CarryTells(n, known) /\ CarryTells(n + 1, known)
  BY <1>1, <1>2, CarryStaysTold
<1>5. Attributions[n + 1] = IF \E j \in 1..(n + 1) : IsRendered(j)
                            THEN Geometry(LastRendered(n + 1)) ELSE {}
  BY <1>1, VersionNext, AttributedIs DEF Attributions
<1>6. /\ UNION known \subseteq Attributions[n + 1]
      /\ OneDayPerNode => UNION known = Attributions[n + 1]
  <2>1. CASE \E j \in 1..(n + 1) : IsRendered(j)
    <3>1. PICK C : known = {C} /\ Covers(C, LastRendered(n + 1))
      BY <1>4, <2>1 DEF CarryTells
    <3>2. UNION known = C
      BY <3>1
    <3>. QED BY <1>5, <2>1, <3>1, <3>2 DEF Covers
  <2>2. CASE ~\E j \in 1..(n + 1) : IsRendered(j)
    <3>1. known = {}
      BY <1>4, <2>2 DEF CarryTells
    <3>. QED BY <1>5, <2>2, <3>1
  <2>. QED BY <2>1, <2>2
<1>8. CountsTell(n + 1, new)
  <2> SUFFICES ASSUME NEW k \in Keys
               PROVE  /\ new[k] <= HowMany(0, n + 1, Told(Attributions, k))
                      /\ OneDayPerNode => new[k] = HowMany(0, n + 1, Told(Attributions, k))
    BY DEF CountsTell
  <2> DEFINE old == HowMany(0, n, Told(Attributions, k))
             here == wayFile[n + 1].day = k[2]
  <2>1. /\ HowMany(0, n + 1, Told(Attributions, k))
             = old + (IF here /\ k[1] \in Attributions[n + 1] THEN 1 ELSE 0)
        /\ old \in Nat
    BY <1>1, ToldNext
  <2>2. new[k] = counts[k] + (IF here /\ k[1] \in UNION known THEN 1 ELSE 0)
    OBVIOUS
  <2>3. counts[k] <= old /\ (OneDayPerNode => counts[k] = old) /\ counts[k] \in Nat
    BY <1>1, <1>2 DEF CountsTell, Counts
  <2> HIDE DEF old, here, new
  <2>. QED BY <1>6, <2>1, <2>2, <2>3
<1> HIDE DEF new
<1>10. WayTells(n + 1, n + 1, batch, <<>>, known, new)
  BY <1>1, <1>3, <1>4, <1>8 DEF WayTells
<1>. QED BY <1>10 DEF new

\* A deletion in the batch of its version.
LEMMA DeletionInBatchTells ==
  ASSUME wayFile \in Seq(WayVersions), NEW q, NEW n, NEW batch, NEW ways \in Seq(Slots), ways # <<>>,
         NEW known, NEW counts \in Counts, WayTells(q, n, batch, ways, known, counts),
         n < Len(wayFile), ~wayFile[n + 1].visible
  PROVE  WayTells(q, n + 1, batch,
                  [ways EXCEPT ![Len(ways)].deletions = Append(@, wayFile[n + 1].day)],
                  known, counts)
<1> DEFINE L == Len(ways)
           d == wayFile[n + 1].day
           new == [ways EXCEPT ![Len(ways)].deletions = Append(@, d)]
<1>1. /\ q \in Nat /\ n \in Nat /\ q < n /\ q <= n /\ n + 1 <= Len(wayFile) /\ n + 1 \in Nat
      /\ q <= n + 1 /\ q < n + 1 /\ IsRendered(q + 1)
      /\ CountsTell(q, counts) /\ CarryTells(q, known)
      /\ SlotsTell(q, n, ways) /\ RefsTell(q, n, batch) /\ L = Slot(q, n)
  BY DEF WayTells, SlotsTell
<1>2. ~IsRendered(n + 1) /\ d \in Days
  BY <1>1, VersionNext DEF IsRendered
<1>3. RefsTell(q, n + 1, batch)
  BY <1>1, <1>2, RefsStayTold
<1>4. Slot(q, n + 1) = L
  BY <1>1, <1>2, SlotNext
<1>5. /\ L \in Nat /\ L \in 1..L /\ DOMAIN ways = 1..L
      /\ \A s \in 1..L : ways[s] \in Slots /\ Len(ways[s].deletions) <= n
  BY <1>1 DEF SlotsTell
<1>6. \A s \in 1..L : ways[s].deletions \in Seq(Days) /\ Len(ways[s].deletions) \in Nat
  BY <1>5 DEF Slots
<1>7. /\ DOMAIN new = 1..L /\ Len(new) = L /\ new # <<>>
      /\ new[L].deletions = Append(ways[L].deletions, d)
      /\ \A s \in 1..L : s # L => new[s] = ways[s]
  <2>1. new \in Seq(Slots)
    BY <1>2, DeletionTypes
  <2>2. /\ DOMAIN new = 1..L /\ new[L].deletions = Append(ways[L].deletions, d)
        /\ \A s \in 1..L : s # L => new[s] = ways[s]
    BY <1>5 DEF Slots
  <2> HIDE DEF new, L
  <2>. QED BY <1>5, <2>1, <2>2
<1>8. ASSUME NEW s \in 1..L PROVE Len(new[s].deletions) <= n + 1
  <2>1. CASE s = L
    <3>1. Len(new[L].deletions) = Len(ways[L].deletions) + 1
      BY <1>5, <1>6, <1>7
    <3> HIDE DEF new, L
    <3>. QED BY <1>1, <1>5, <1>6, <2>1, <3>1
  <2>2. CASE s # L
    <3>1. new[s] = ways[s]
      BY <1>7, <2>2
    <3> HIDE DEF new, L
    <3>. QED BY <1>1, <1>5, <1>6, <3>1
  <2>. QED BY <2>1, <2>2
<1>9. ASSUME NEW g, NEW k \in Keys
      PROVE  BatchCounts(new, g)[k] = HowMany(q, n + 1, Told(BatchCells(q, g), k))
  <2>1. BatchCells(q, g)[n + 1] = g[L]
    BY <1>1, <1>4, VersionNext DEF BatchCells
  <2>2. Len(ways[L].deletions) < Len(wayFile)
    <3>1. Len(ways[L].deletions) <= n /\ Len(ways[L].deletions) \in Nat
      BY <1>5, <1>6
    <3>. QED BY <1>1, <3>1, Len(wayFile) \in Nat
  <2>3. BatchCounts(new, g)[k] = BatchCounts(ways, g)[k] + (IF d = k[2] /\ k[1] \in g[L] THEN 1 ELSE 0)
    <3> HIDE DEF d
    <3>. QED BY <1>2, <2>2, DeletionCounts
  <2>4. HowMany(q, n + 1, Told(BatchCells(q, g), k)) = HowMany(q, n, Told(BatchCells(q, g), k))
           + (IF d = k[2] /\ k[1] \in g[L] THEN 1 ELSE 0)
    <3> DEFINE B == BatchCells(q, g)
    <3>1. B[n + 1] = g[L]
      BY <2>1
    <3>2. q \in Nat /\ n \in Nat /\ q <= n /\ n + 1 <= Len(wayFile)
      BY <1>1
    <3> HIDE DEF B, new, d, L
    <3>3. AddsItself(q, n, B, k)
      BY <3>2, ToldAddsItself
    <3>. QED BY <3>1, <3>3 DEF B, d, AddsItself
  <2>5. BatchCounts(ways, g)[k] = HowMany(q, n, Told(BatchCells(q, g), k))
    BY <1>1 DEF SlotsTell
  <2>. QED BY <2>3, <2>4, <2>5
<1> HIDE DEF new
<1>10. SlotsTell(q, n + 1, new)
  BY <1>1, <1>4, <1>7, <1>8, <1>9 DEF SlotsTell
<1>11. WayTells(q, n + 1, batch, new, known, counts)
  BY <1>1, <1>3, <1>10 DEF WayTells
<1>. QED BY <1>11 DEF new

\* A version with nodes.
LEMMA VersionTells ==
  ASSUME wayFile \in Seq(WayVersions), NEW q, NEW n, NEW batch \in Seq(Refs), NEW ways \in Seq(Slots),
         NEW known, NEW counts \in Counts, WayTells(q, n, batch, ways, known, counts),
         n < Len(wayFile), wayFile[n + 1].visible, wayFile[n + 1].nodes # <<>>
  PROVE  WayTells(q, n + 1, batch \o NewRefs(wayFile[n + 1], Len(ways) + 1),
                  Append(ways, [day |-> wayFile[n + 1].day, deletions |-> <<>>]), known, counts)
<1> DEFINE L == Len(ways)
           v == wayFile[n + 1]
           slot == [day |-> v.day, deletions |-> <<>>]
           new == Append(ways, slot)
           more == NewRefs(v, L + 1)
           all == batch \o more
<1>1. /\ q \in Nat /\ n \in Nat /\ q <= n /\ n + 1 <= Len(wayFile) /\ n + 1 \in Nat
      /\ q <= n + 1 /\ q < n + 1
      /\ CountsTell(q, counts) /\ CarryTells(q, known)
      /\ SlotsTell(q, n, ways) /\ RefsTell(q, n, batch) /\ L = Slot(q, n)
  BY DEF WayTells, SlotsTell
<1>2. IsRendered(n + 1) /\ v \in WayVersions /\ v.day \in Days /\ v.nodes \in Seq(Int)
  BY <1>1, VersionNext DEF IsRendered
<1>3. Slot(q, n + 1) = L + 1 /\ L \in Nat
  BY <1>1, <1>2, SlotNext
<1>4. IsRendered(q + 1)
  BY <1>1, <1>2 DEF SlotsTell
<1>5. slot \in Slots /\ slot.deletions = <<>>
  BY <1>2 DEF Slots
<1> HIDE DEF slot
<1>6. /\ DOMAIN new = 1..(L + 1) /\ Len(new) = L + 1 /\ new # <<>>
      /\ new[L + 1] = slot /\ \A s \in 1..L : new[s] = ways[s]
  <2>1. /\ DOMAIN new = 1..(L + 1) /\ Len(new) = L + 1
        /\ new[L + 1] = slot /\ \A s \in 1..L : new[s] = ways[s]
    BY <1>3, <1>5
  <2>2. L + 1 \in DOMAIN new
    BY <1>3, <2>1
  <2>3. new # <<>>
    <3> HIDE DEF new
    <3>. QED BY <2>2
  <2> HIDE DEF new, L
  <2>. QED BY <2>1, <2>3
<1>7. ASSUME NEW s \in DOMAIN new PROVE Len(new[s].deletions) <= n + 1
  <2>1. CASE s = L + 1
    <3>1. Len(new[s].deletions) = 0
      BY <1>5, <1>6, <2>1
    <3> HIDE DEF new
    <3>. QED BY <1>1, <3>1
  <2>2. CASE s # L + 1
    <3>1. s \in 1..L /\ new[s] = ways[s]
      BY <1>3, <1>6, <2>2
    <3>2. ways[s] \in Slots /\ Len(ways[s].deletions) <= n
      BY <1>1, <3>1 DEF SlotsTell
    <3>3. Len(ways[s].deletions) \in Nat
      BY <3>2 DEF Slots
    <3> HIDE DEF new
    <3>. QED BY <1>1, <3>1, <3>2, <3>3
  <2>. QED BY <2>1, <2>2
<1>8. ASSUME NEW g, NEW k \in Keys
      PROVE  BatchCounts(new, g)[k] = HowMany(q, n + 1, Told(BatchCells(q, g), k))
  <2>1. BatchCells(q, g)[n + 1] = g[L + 1]
    BY <1>1, <1>2, <1>3, VersionNext DEF BatchCells
  <2>2. BatchCounts(new, g)[k] = BatchCounts(ways, g)[k] + (IF v.day = k[2] /\ k[1] \in g[L + 1] THEN 1 ELSE 0)
    <3> DEFINE d == v.day
    <3>1. d \in Days
      BY <1>2
    <3> HIDE DEF d
    <3>2. BatchCounts(Append(ways, [day |-> d, deletions |-> <<>>]), g)[k]
            = BatchCounts(ways, g)[k] + (IF d = k[2] /\ k[1] \in g[Len(ways) + 1] THEN 1 ELSE 0)
      BY <3>1, VersionCounts
    <3>. QED BY <3>2 DEF d, slot
  <2>3. HowMany(q, n + 1, Told(BatchCells(q, g), k)) = HowMany(q, n, Told(BatchCells(q, g), k))
           + (IF v.day = k[2] /\ k[1] \in g[L + 1] THEN 1 ELSE 0)
    <3> DEFINE B == BatchCells(q, g)
    <3>1. B[n + 1] = g[L + 1]
      BY <2>1
    <3> HIDE DEF B
    <3>2. HowMany(q, n + 1, Told(B, k)) = HowMany(q, n, Told(B, k))
             + (IF wayFile[n + 1].day = k[2] /\ k[1] \in B[n + 1] THEN 1 ELSE 0)
      BY <1>1, ToldNext
    <3>. QED BY <3>1, <3>2 DEF B
  <2>4. BatchCounts(ways, g)[k] = HowMany(q, n, Told(BatchCells(q, g), k))
    BY <1>1 DEF SlotsTell
  <2>. QED BY <2>2, <2>3, <2>4
<1> HIDE DEF new
<1>9. SlotsTell(q, n + 1, new)
  BY <1>1, <1>3, <1>4, <1>6, <1>7, <1>8 DEF SlotsTell
<1>10. more \in Seq(Refs) /\ DOMAIN more = DOMAIN v.nodes
  BY <1>2, <1>3, NewRefsTypes, L + 1 \in Nat DEF NewRefs
<1>11. \A p \in DOMAIN v.nodes : more[p] = RefOf(q, n + 1, p)
  BY <1>3 DEF NewRefs, RefOf
<1> HIDE DEF more
<1> DEFINE b == Len(batch)
           c == Len(more)
<1>12. /\ b \in Nat /\ c \in Nat /\ DOMAIN batch = 1..b /\ DOMAIN more = 1..c /\ DOMAIN all = 1..(b + c)
       /\ \A m \in 1..b : all[m] = batch[m]
       /\ \A p \in 1..c : all[b + p] = more[p]
  BY <1>10
<1> HIDE DEF all, b, c, v
<1>13. n + 1 \in (q + 1)..(n + 1) /\ \A i \in (q + 1)..n : i \in (q + 1)..(n + 1)
  <2>1. q \in Nat /\ n \in Nat /\ q <= n
    BY <1>1
  <2>. QED BY <2>1
<1>14. ASSUME NEW m \in DOMAIN all
       PROVE  \E i \in (q + 1)..(n + 1) :
                IsRendered(i) /\ \E p \in DOMAIN wayFile[i].nodes : all[m] = RefOf(q, i, p)
  <2>1. CASE m \in 1..b
    <3>1. PICK i \in (q + 1)..n :
            IsRendered(i) /\ \E p \in DOMAIN wayFile[i].nodes : batch[m] = RefOf(q, i, p)
      BY <1>1, <1>12, <2>1 DEF RefsTell
    <3>. QED BY <1>12, <1>13, <2>1, <3>1
  <2>2. CASE m \notin 1..b
    <3> DEFINE p == m - b
    <3>1. p \in 1..c /\ b + p = m
      BY <1>12, <2>2
    <3> HIDE DEF p
    <3>2. all[m] = RefOf(q, n + 1, p) /\ p \in DOMAIN wayFile[n + 1].nodes
      BY <1>10, <1>11, <1>12, <3>1 DEF v
    <3>. QED BY <1>2, <1>13, <3>2
  <2>. QED BY <2>1, <2>2
<1>15. ASSUME NEW i \in (q + 1)..(n + 1), IsRendered(i), NEW p \in DOMAIN wayFile[i].nodes
       PROVE  \E m \in DOMAIN all : all[m] = RefOf(q, i, p)
  <2>1. CASE i = n + 1
    <3>1. p \in 1..c /\ all[b + p] = RefOf(q, i, p)
      BY <1>10, <1>11, <1>12, <1>15, <2>1 DEF v
    <3>2. b + p \in DOMAIN all
      BY <1>12, <3>1
    <3>. QED BY <3>1, <3>2
  <2>2. CASE i # n + 1
    <3>1. i \in (q + 1)..n
      BY <1>1, <2>2
    <3>2. PICK m \in DOMAIN batch : batch[m] = RefOf(q, i, p)
      BY <1>1, <1>15, <3>1 DEF RefsTell
    <3>3. m \in DOMAIN all /\ m \in 1..b
      BY <1>12
    <3>. QED BY <1>12, <3>2, <3>3
  <2>. QED BY <2>1, <2>2
<1>16. RefsTell(q, n + 1, all)
  BY <1>14, <1>15 DEF RefsTell
<1>17. WayTells(q, n + 1, all, new, known, counts)
  BY <1>1, <1>9, <1>16 DEF WayTells
<1>. QED BY <1>17 DEF all, more, new, slot, v

LEMMA GeometriesStay ==
  ASSUME wayFile' = wayFile, nodeFile' = nodeFile
  PROVE  /\ \A i : (IsRendered(i)' <=> IsRendered(i)) /\ Geometry(i)' = Geometry(i)
         /\ \A i : LastRendered(i)' = LastRendered(i) /\ Attributed(i)' = Attributed(i)
         /\ RenderedWays' = RenderedWays /\ Attributions' = Attributions
         /\ (OneDayPerNode' <=> OneDayPerNode)
<1>1. \A i : (IsRendered(i)' <=> IsRendered(i))
  BY DEF IsRendered
<1>2. \A i : Geometry(i)' = Geometry(i)
  BY DEF Geometry, CellAt, Located, LastOf
<1>3. \A i : LastRendered(i)' = LastRendered(i)
  BY DEF LastRendered, LastOf, IsRendered
<1>4. \A i : Attributed(i)' = Attributed(i)
  BY DEF Attributed, LastKnown, RenderedUpTo, Geometry, CellAt, Located, LastOf, IsRendered
<1>5. RenderedWays' = RenderedWays
  BY DEF RenderedWays, IsRendered
<1>6. Attributions' = Attributions
  BY DEF Attributions, Attributed, LastKnown, RenderedUpTo, Geometry, CellAt, Located, LastOf,
         IsRendered
<1>7. OneDayPerNode' <=> OneDayPerNode
  BY DEF OneDayPerNode
<1>. QED BY <1>1, <1>2, <1>3, <1>4, <1>5, <1>6, <1>7

LEMMA WayTellsStays ==
  ASSUME wayFile' = wayFile, nodeFile' = nodeFile,
         NEW q, NEW n, NEW batch, NEW ways, NEW known, NEW counts
  PROVE  WayTells(q, n, batch, ways, known, counts)' <=> WayTells(q, n, batch, ways, known, counts)
<1>1. CountsTell(q, counts)' <=> CountsTell(q, counts)
  BY GeometriesStay DEF CountsTell, Told, HowMany
<1>2. CarryTells(q, known)' <=> CarryTells(q, known)
  BY GeometriesStay DEF CarryTells, Covers
<1>3. SlotsTell(q, n, ways)' <=> SlotsTell(q, n, ways)
  BY GeometriesStay DEF SlotsTell, Slot, BatchCounts, BatchCells, Told, HowMany, IsRendered, RenderedWays
<1>4. RefsTell(q, n, batch)' <=> RefsTell(q, n, batch)
  BY GeometriesStay DEF RefsTell, RefOf, Slot, HowMany, RenderedWays, IsRendered
<1>. QED BY <1>1, <1>2, <1>3, <1>4 DEF WayTells

LEMMA ReadWayTells ==
  ASSUME Types, NEW flat, CacheTells(flat),
         NEW q, WayTells(q, wayPos, refs, slots, carry, wayCounts), ReadWay
  PROVE  \E p : WayTells(p, wayPos', refs', slots', carry', wayCounts')
<1>1. /\ wayFile \in Seq(WayVersions) /\ refs \in Seq(Refs) /\ slots \in Seq(Slots)
      /\ wayCounts \in Counts
  BY DEF Types, InputTypes, WayTypes
<1>2. CASE ReadVisible
  <2>1. wayPos < Len(wayFile) /\ Way = wayFile[wayPos + 1] /\ Way.visible
        /\ wayPos' = wayPos + 1 /\ carry' = carry /\ wayCounts' = wayCounts
    BY <1>2 DEF ReadVisible, MoreWays, Way
  <2>2. CASE Way.nodes = <<>>
    <3>1. refs' = refs /\ slots' = slots
      BY <1>2, <2>2 DEF ReadVisible
    <3>2. \E p : WayTells(p, wayPos + 1, refs, slots, carry, wayCounts)
      BY <1>1, <2>1, <2>2, EmptyTells
    <3>. QED BY <2>1, <3>1, <3>2
  <2>3. CASE Way.nodes # <<>>
    <3>1. /\ refs' = refs \o NewRefs(Way, Len(slots) + 1)
          /\ slots' = Append(slots, [day |-> Way.day, deletions |-> <<>>])
      BY <1>2, <2>3 DEF ReadVisible, NewRefs
    <3>2. WayTells(q, wayPos + 1, refs \o NewRefs(wayFile[wayPos + 1], Len(slots) + 1),
                   Append(slots, [day |-> wayFile[wayPos + 1].day, deletions |-> <<>>]),
                   carry, wayCounts)
      BY <1>1, <2>1, <2>3, VersionTells
    <3>. QED BY <2>1, <3>1, <3>2
  <2>. QED BY <2>2, <2>3
<1>3. CASE ReadDeletionInBatch
  <2>1. /\ wayPos < Len(wayFile) /\ Way = wayFile[wayPos + 1] /\ ~Way.visible /\ slots # <<>>
        /\ wayPos' = wayPos + 1 /\ carry' = carry /\ wayCounts' = wayCounts /\ refs' = refs
        /\ slots' = [slots EXCEPT ![Len(slots)].deletions = Append(@, Way.day)]
    BY <1>3 DEF ReadDeletionInBatch, MoreWays, Way
  <2>2. WayTells(q, wayPos + 1, refs,
                 [slots EXCEPT ![Len(slots)].deletions = Append(@, wayFile[wayPos + 1].day)],
                 carry, wayCounts)
    BY <1>1, <2>1, DeletionInBatchTells
  <2>. QED BY <2>1, <2>2
<1>4. CASE ReadDeletionAfterBatch
  <2> DEFINE new == [k \in Keys |-> wayCounts[k] +
                       (IF k[2] = wayFile[wayPos + 1].day /\ k[1] \in UNION carry THEN 1 ELSE 0)]
  <2>1. /\ wayPos < Len(wayFile) /\ Way = wayFile[wayPos + 1] /\ ~Way.visible /\ slots = <<>>
        /\ wayPos' = wayPos + 1 /\ carry' = carry /\ refs' = refs /\ slots' = slots
    BY <1>4 DEF ReadDeletionAfterBatch, MoreWays, Way
  <2>2. wayCounts' = new
    BY <1>4 DEF ReadDeletionAfterBatch, Way
  <2>3. WayTells(wayPos + 1, wayPos + 1, refs, <<>>, carry, new)
    BY <1>1, <2>1, DeletionAfterTells
  <2> HIDE DEF new
  <2>. QED BY <2>1, <2>2, <2>3
<1>5. CASE EndBatch
  <2> DEFINE rendered == Rendered(refs, slots)
  <2>1. /\ slots # <<>> /\ wayPos' = wayPos /\ refs' = <<>> /\ slots' = <<>>
        /\ carry' = LastGeometry(rendered)
        /\ wayCounts' = Plus(wayCounts, BatchCounts(slots, rendered))
    BY <1>5 DEF EndBatch, Flush
  <2>2. WayTells(wayPos, wayPos, <<>>, <<>>, LastGeometry(rendered),
                 Plus(wayCounts, BatchCounts(slots, rendered)))
    BY <1>1, <2>1, FlushTells
  <2> HIDE DEF rendered
  <2>. QED BY <2>1, <2>2
<1>. QED BY <1>2, <1>3, <1>4, <1>5 DEF ReadWay

WayCountInv ==
  (phase = "ways" /\ "nodes" \in staged) =>
     \E q : WayTells(q, wayPos, refs, slots, carry, wayCounts)

LEMMA NothingReadTells ==
  ASSUME wayFile \in Seq(WayVersions) PROVE WayTells(0, 0, <<>>, <<>>, {}, NoCounts)
<1>1. SlotsTell(0, 0, <<>>) /\ RefsTell(0, 0, <<>>)
  BY NoSlotsTell
<1>2. CountsTell(0, NoCounts)
  <2>1. \A k : HowMany(0, 0, Told(Attributions, k)) = 0
    BY HowManyCount
  <2>2. \A k \in Keys : NoCounts[k] = 0
    BY DEF NoCounts
  <2>. QED BY <2>1, <2>2 DEF CountsTell
<1>3. CarryTells(0, {})
  BY DEF CarryTells
<1>4. 0 <= Len(wayFile)
  OBVIOUS
<1>. QED BY <1>1, <1>2, <1>3, <1>4 DEF WayTells

LEMMA WayCountInit == Init => WayCountInv
BY DEF Init, WayCountInv

LEMMA WayCountStep == ASSUME Types, CacheInv, WayCountInv, [Next]_vars PROVE WayCountInv'
<1>. USE DEF inputs
<1>1. ASSUME phase' # "ways" PROVE WayCountInv'
  BY <1>1 DEF WayCountInv
<1>2. ASSUME NEW p, NEW n, NEW batch, NEW ways, NEW known, NEW counts,
             wayFile' = wayFile, nodeFile' = nodeFile,
             WayTells(p, n, batch, ways, known, counts),
             wayPos' = n, refs' = batch, slots' = ways, carry' = known, wayCounts' = counts
      PROVE  WayCountInv'
  <2>1. WayTells(p, n, batch, ways, known, counts)'
    BY <1>2, WayTellsStays
  <2>2. (\E q : WayTells(q, wayPos, refs, slots, carry, wayCounts))'
    BY <1>2, <2>1 DEF WayTells, CountsTell, CarryTells, SlotsTell, RefsTell
  <2>. QED BY <2>2 DEF WayCountInv
<1>3. CASE BeginWays
  <2>1. /\ wayPos' = 0 /\ refs' = <<>> /\ slots' = <<>> /\ carry' = {} /\ wayCounts' = NoCounts
        /\ wayFile' = wayFile /\ nodeFile' = nodeFile
    BY <1>3 DEF BeginWays, WayPassStart
  <2>2. WayTells(0, 0, <<>>, <<>>, {}, NoCounts)
    BY NothingReadTells DEF Types, InputTypes
  <2>. QED BY <1>2, <2>1, <2>2
<1>4. CASE StepWays
  <2>1. /\ phase = "ways" /\ ReadWay /\ staged' = staged
        /\ wayFile' = wayFile /\ nodeFile' = nodeFile
    BY <1>4 DEF StepWays, history
  <2> SUFFICES ASSUME ("nodes" \in staged)' PROVE WayCountInv'
    BY DEF WayCountInv
  <2>2. "nodes" \in staged
    BY <2>1
  <2>3. PICK q : WayTells(q, wayPos, refs, slots, carry, wayCounts)
    BY <2>1, <2>2 DEF WayCountInv
  <2>4. PICK flat : CacheTells(flat)
    BY <2>2 DEF CacheInv, CacheTells, Types, InputTypes, IsNodeFile
  <2>5. PICK p : WayTells(p, wayPos', refs', slots', carry', wayCounts')
    BY <2>1, <2>2, <2>3, <2>4, ReadWayTells
  <2>. QED BY <1>2, <2>1, <2>5
<1>5. CASE UNCHANGED vars
  <2> SUFFICES ASSUME (phase = "ways")', ("nodes" \in staged)' PROVE WayCountInv'
    BY DEF WayCountInv
  <2>1. /\ wayFile' = wayFile /\ nodeFile' = nodeFile /\ phase' = phase /\ staged' = staged
        /\ wayPos' = wayPos /\ refs' = refs /\ slots' = slots /\ carry' = carry /\ wayCounts' = wayCounts
    BY <1>5 DEF vars, nodeVars, wayVars, io, history
  <2>2. PICK q : WayTells(q, wayPos, refs, slots, carry, wayCounts)
    BY <2>1, GeometriesStay DEF WayCountInv
  <2>. QED BY <1>2, <2>1, <2>2
<1>6. CASE \E verb \in Verbs : Start(verb)
  BY <1>1, <1>6 DEF Start
<1>7. CASE NewFile \/ BeginNodes \/ StepNodes \/ EndNodes \/ FailNodes
  BY <1>1, <1>7 DEF NewFile, BeginNodes, StepNodes, EndNodes, FailNodes, End, io
<1>8. CASE FailWays \/ EndWays \/ BeginSort \/ RemoveStaging \/ EndSort \/ Crash
  BY <1>1, <1>8 DEF FailWays, EndWays, BeginSort, RemoveStaging, EndSort, Crash, End
<1>9. ASSUME NEW y \in Years, SkipYear(y) \/ MergeYear(y) \/ FailSort(y) PROVE WayCountInv'
  BY <1>1, <1>9 DEF SkipYear, MergeYear, FailSort, End
<1>. QED BY <1>3, <1>4, <1>5, <1>6, <1>7, <1>8, <1>9 DEF Next

-----------------------------------------------------------------------------
(* What the pass counts against what is documented *)

WayOrder == \A m, n \in DOMAIN wayFile : m < n => wayFile[m].id <= wayFile[n].id

LEMMA WayOrderInit == Init => WayOrder
BY WaysAreSorted DEF Init, WayOrder

LEMMA WayOrderStep == ASSUME WayOrder, [Next]_vars PROVE WayOrder'
<1>1. CASE NewFile
  BY <1>1, WaysAreSorted DEF NewFile, WayOrder
<1>2. CASE wayFile' = wayFile
  BY <1>2 DEF WayOrder
<1>3. CASE ~NewFile
  <2>1. wayFile' = wayFile
    BY <1>3 DEF Next, vars, inputs, Start, BeginNodes, StepNodes, EndNodes, FailNodes, BeginWays,
       FailWays, StepWays, EndWays, BeginSort, RemoveStaging, EndSort, SkipYear, MergeYear,
       FailSort, Crash
  <2>. QED BY <1>2, <2>1
<1>. QED BY <1>1, <1>3

\* The last version with nodes is one of the same way if the way has any: the file
\* is sorted.
LEMMA OwnIsLast ==
  ASSUME wayFile \in Seq(WayVersions), WayOrder, NEW i \in DOMAIN wayFile, OwnRendered(i) # {}
  PROVE  LastKnown(OwnRendered(i)) = LastKnown(RenderedUpTo(i))
<1> DEFINE own == OwnRendered(i)
           all == RenderedUpTo(i)
           o == LastOf(own)
           l == LastOf(all)
<1>1. i \in Nat /\ DOMAIN wayFile = 1..Len(wayFile) /\ Len(wayFile) \in Nat
  OBVIOUS
<1>2. own \subseteq all /\ all \subseteq 1..i /\ own # {} /\ all # {}
  BY DEF OwnRendered, RenderedUpTo
<1>3. o \in own /\ \A j \in own : j <= o
  <2> HIDE DEF own
  <2>. QED BY <1>1, <1>2, LastOfExists
<1>4. l \in all /\ \A j \in all : j <= l
  <2> HIDE DEF all
  <2>. QED BY <1>1, <1>2, LastOfExists
<1>5. wayFile[o].id = wayFile[i].id
  BY <1>3 DEF OwnRendered
<1> HIDE DEF own, all, o, l
<1>6. o \in DOMAIN wayFile /\ l \in DOMAIN wayFile /\ o <= l /\ l <= i
      /\ o \in Nat /\ l \in Nat
  BY <1>1, <1>2, <1>3, <1>4
<1>7. \A j \in DOMAIN wayFile : wayFile[j].id \in Int
  <2>1. \A v \in WayVersions : v.id \in Int
    BY DEF WayVersions
  <2>2. \A j \in DOMAIN wayFile : wayFile[j] \in WayVersions
    OBVIOUS
  <2>. QED BY <2>1, <2>2
<1>8. wayFile[o].id <= wayFile[l].id /\ wayFile[l].id <= wayFile[i].id
  <2>1. \A m, n \in DOMAIN wayFile : m <= n => wayFile[m].id <= wayFile[n].id
    <3> SUFFICES ASSUME NEW m \in DOMAIN wayFile, NEW n \in DOMAIN wayFile, m <= n
                 PROVE  wayFile[m].id <= wayFile[n].id
      OBVIOUS
    <3>1. CASE m = n
      BY <1>7, <3>1
    <3>2. CASE m # n
      <4>1. m < n
        BY <1>1, <3>2
      <4>. QED BY <4>1 DEF WayOrder
    <3>. QED BY <3>1, <3>2
  <2>. QED BY <1>6, <2>1
<1>9. wayFile[l].id = wayFile[i].id
  BY <1>5, <1>6, <1>7, <1>8
<1>10. l \in own
  BY <1>4, <1>9 DEF own, all, OwnRendered
<1>11. l = o
  BY <1>3, <1>6, <1>10
<1>. QED BY <1>2, <1>11 DEF LastKnown, own, all, o, l

\* What is attributed to a key is what is documented and the orphans.
LEMMA AttributedIsDocumented ==
  ASSUME wayFile \in Seq(WayVersions), WayOrder, NEW k
  PROVE  Cardinality(Told(Attributions, k)) = DocCount(k) + Misplaced(k)
<1> DEFINE T == Told(Attributions, k)
           D == {i \in DOMAIN wayFile : wayFile[i].day = k[2] /\ k[1] \in DocGeometry(i)}
           M == {i \in DOMAIN wayFile : /\ IsOrphan(i) /\ wayFile[i].day = k[2]
                                        /\ k[1] \in LastKnown(RenderedUpTo(i))}
<1>1. ASSUME NEW i \in DOMAIN wayFile
      PROVE  /\ ~IsOrphan(i) => Attributed(i) = DocGeometry(i)
             /\ IsOrphan(i) => /\ DocGeometry(i) = {}
                               /\ Attributed(i) = LastKnown(RenderedUpTo(i))
  <2>1. CASE wayFile[i].visible
    BY <2>1 DEF IsOrphan, Attributed, DocGeometry
  <2>2. CASE ~wayFile[i].visible /\ OwnRendered(i) # {}
    BY <2>2, OwnIsLast DEF IsOrphan, Attributed, DocGeometry
  <2>3. CASE ~wayFile[i].visible /\ OwnRendered(i) = {}
    BY <2>3 DEF IsOrphan, Attributed, DocGeometry, LastKnown
  <2>. QED BY <2>1, <2>2, <2>3
<1>2. T = {i \in DOMAIN wayFile : wayFile[i].day = k[2] /\ k[1] \in Attributed(i)}
  BY DEF Told, Attributions
<1> HIDE DEF T
<1>3. T = D \cup M /\ D \cap M = {}
  BY <1>1, <1>2
<1>4. IsFiniteSet(D) /\ IsFiniteSet(M)
  <2>1. DOMAIN wayFile = 1..Len(wayFile) /\ Len(wayFile) \in Nat
    OBVIOUS
  <2>2. IsFiniteSet(DOMAIN wayFile)
    BY <2>1, FS_Interval
  <2>3. D \subseteq DOMAIN wayFile /\ M \subseteq DOMAIN wayFile
    OBVIOUS
  <2> HIDE DEF D, M
  <2>. QED BY <2>2, <2>3, FS_Subset
<1>5. DocCount(k) = Cardinality(D) /\ Misplaced(k) = Cardinality(M)
  BY DEF DocCount, Misplaced
<1> HIDE DEF D, M
<1>6. Cardinality(D) \in Nat /\ Cardinality(M) \in Nat /\ Cardinality(D \cap M) = 0
  BY <1>3, <1>4, FS_CardinalityType, FS_EmptySet
<1>7. Cardinality(D \cup M) = Cardinality(D) + Cardinality(M) - Cardinality(D \cap M)
  BY <1>4, FS_Union
<1>. QED BY <1>3, <1>5, <1>6, <1>7 DEF T

\* Of every sorted file, wherever the batches end, the way pass counts what is
\* documented and the deletions of ways without a version with nodes, no change
\* too many, and none too few if no node is needed on two days
\* (way_processor.hpp, way, flush_batch, finish).
THEOREM WayCountsAsDocumentedTheorem == Spec => []WayCountsAsDocumented
<1> DEFINE I == Types /\ CacheInv /\ WayCountInv /\ WayOrder
<1>1. Init => I
  BY TypesInit, CacheInit, WayCountInit, WayOrderInit
<1>2. I /\ [Next]_vars => I'
  BY TypesStep, CacheStep, WayCountStep, WayOrderStep
<1>3. I => WayCountsAsDocumented
  <2> SUFFICES ASSUME I, WaysRead, NEW k \in Keys
               PROVE  /\ wayCounts[k] <= DocCount(k) + Misplaced(k)
                      /\ OneDayPerNode => wayCounts[k] = DocCount(k) + Misplaced(k)
    BY DEF WayCountsAsDocumented
  <2>1. PICK q : WayTells(q, wayPos, refs, slots, carry, wayCounts)
    BY DEF WayCountInv, WaysRead
  <2>2. wayFile \in Seq(WayVersions)
    BY DEF Types, InputTypes
  <2>3. q = Len(wayFile) /\ CountsTell(q, wayCounts)
    <3>1. q \in Nat /\ wayPos \in Nat /\ wayPos <= Len(wayFile) /\ q = wayPos /\ ~(wayPos < Len(wayFile))
      BY <2>1 DEF WayTells, SlotsTell, WaysRead, WayPassDone, MoreWays
    <3>. QED BY <2>1, <2>2, <3>1 DEF WayTells
  <2>4. HowMany(0, q, Told(Attributions, k)) = Cardinality(Told(Attributions, k))
    <3> DEFINE T == Told(Attributions, k)
    <3>1. DOMAIN wayFile = (0 + 1)..q
      BY <2>2, <2>3
    <3>2. T \subseteq DOMAIN wayFile
      BY DEF Told
    <3> HIDE DEF T
    <3>3. ((0 + 1)..q) \cap T = T
      BY <3>1, <3>2
    <3>. QED BY <3>3 DEF HowMany, T
  <2>5. Cardinality(Told(Attributions, k)) = DocCount(k) + Misplaced(k)
    BY <2>2, AttributedIsDocumented
  <2>. QED BY <2>3, <2>4, <2>5 DEF CountsTell
<1>. QED BY <1>1, <1>2, <1>3, PTL DEF Spec
=============================================================================
