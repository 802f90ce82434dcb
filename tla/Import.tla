------------------------------- MODULE Import -------------------------------
(***************************************************************************)
(* karmamap import: the node pass and the way pass each stage their counts  *)
(* in one file per year, the sort pass sums the two into data.parquet. The  *)
(* passes run in one process or one at a time (--pass), a process may crash *)
(* anywhere, and what it left lies there for the next.                      *)
(***************************************************************************)
EXTENDS WayPass

CONSTANTS
  YearOf,     \* year of each day
  Absent,     \* no file under the name
  Torn,       \* a file that was not finished: no footer, no directory
  Inputs,     \* files to import: [nodes, ways, batch, runs, crashes]
  Later       \* files imported over an earlier import: [nodes, ways]

ASSUME InputsAreFiles ==
  /\ \A i \in Inputs : /\ IsNodeFile(i.nodes) /\ i.ways \in Seq(WayVersions)
                       /\ i.batch \in Nat \ {0} /\ i.runs \in Nat /\ i.crashes \in Nat
  /\ \A i \in Later : IsNodeFile(i.nodes) /\ i.ways \in Seq(WayVersions)
\* Files are sorted by id and version.
ASSUME WaysAreSorted ==
  \A i \in Inputs \cup Later : \A m, n \in DOMAIN i.ways : m < n => i.ways[m].id <= i.ways[n].id
ASSUME FilesAreThere ==
  /\ Absent # Torn
  /\ Absent \notin [Keys -> Nat] /\ Torn \notin [Keys -> Nat]
  /\ Absent \notin CacheFiles /\ Torn \notin CacheFiles

VARIABLES
  passes,     \* passes the process has yet to begin
  phase,      \* "idle", "nodes", "ways", "sort"
  changes,    \* per year: nodes.parquet, ways.parquet, data.parquet
  todo,       \* years the sort pass has yet to look at
  removing,   \* staging files to remove now: <<>> or <<[year, kind], ...>>
  runs,       \* processes that may still be started
  crashes,    \* crashes that may still happen
  staged,     \* passes that got through since the node pass last began
  halfRemoved,\* a crash left a merged year with one of its staging files
  fixedUp     \* the way pass ran again over merged years

io == <<passes, phase, changes, todo, removing>>
history == <<staged, halfRemoved, fixedUp>>
inputs == <<nodeFile, wayFile, batchRefs>>
vars == <<inputs, nodeVars, cache, wayVars, io, runs, crashes, history>>

Years == {YearOf[d] : d \in Days}
NoYear == [nodes |-> Absent, ways |-> Absent, data |-> Absent]

\* A file's counts in a year, and the staging file they make: none without any.
Of(counts, y) == [k \in Keys |-> IF YearOf[k[2]] = y THEN counts[k] ELSE 0]
Staging(counts, y, old) == IF Of(counts, y) = NoCounts THEN old ELSE Of(counts, y)

Init ==
  /\ \E i \in Inputs :
       /\ nodeFile = i.nodes /\ wayFile = i.ways /\ batchRefs = i.batch
       /\ runs = i.runs /\ crashes = i.crashes
  /\ nodePos = 0 /\ lastCell = NoCell /\ blocks = <<>> /\ buffer = <<>> /\ pending = <<>>
  /\ wayPos = 0 /\ refs = <<>> /\ slots = <<>> /\ carry = {}
  /\ nodeCounts = NoCounts /\ wayCounts = NoCounts
  /\ cache = Absent /\ passes = <<>> /\ phase = "idle"
  /\ changes = [y \in Years |-> NoYear] /\ todo = {} /\ removing = <<>>
  /\ staged = {} /\ halfRemoved = FALSE /\ fixedUp = FALSE

-----------------------------------------------------------------------------
(* Processes: the passes they run, and how they end *)

Readable(file) == file \notin {Absent, Torn}

End == passes' = <<>> /\ phase' = "idle" /\ todo' = {} /\ removing' = <<>>

Start(verb) ==
  /\ phase = "idle" /\ passes = <<>> /\ runs > 0
  /\ runs' = runs - 1
  /\ passes' = verb
  /\ UNCHANGED <<inputs, nodeVars, cache, wayVars, phase, changes, todo, removing,
                 crashes, history>>

\* Another file, into the same directories.
NewFile ==
  /\ phase = "idle" /\ passes = <<>> /\ runs > 0 /\ staged # {}
  /\ \E file \in Later : nodeFile' = file.nodes /\ wayFile' = file.ways
  /\ staged' = {}
  /\ UNCHANGED <<batchRefs, nodeVars, cache, wayVars, io, runs, crashes, halfRemoved, fixedUp>>

\* Mutant: what is in changes/ stays.
BeginNodesKeeping ==
  /\ phase = "idle" /\ passes # <<>> /\ Head(passes) = "nodes"
  /\ phase' = "nodes" /\ passes' = Tail(passes)
  /\ NodePassStart
  /\ cache' = Absent
  /\ staged' = {} /\ halfRemoved' = FALSE /\ fixedUp' = FALSE
  /\ UNCHANGED <<inputs, wayVars, changes, todo, removing, runs, crashes>>

\* The node pass wipes changes/ and the cache first.
BeginNodes ==
  /\ phase = "idle" /\ passes # <<>> /\ Head(passes) = "nodes"
  /\ phase' = "nodes" /\ passes' = Tail(passes)
  /\ NodePassStart
  /\ changes' = [y \in Years |-> NoYear]
  /\ cache' = Absent
  /\ staged' = {} /\ halfRemoved' = FALSE /\ fixedUp' = FALSE
  /\ UNCHANGED <<inputs, wayVars, todo, removing, runs, crashes>>

StepNodes ==
  /\ phase = "nodes" /\ ReadNode
  /\ UNCHANGED <<inputs, cache, wayVars, io, runs, crashes, history>>

EndNodes ==
  /\ phase = "nodes" /\ ~MoreNodes
  /\ cache' = Finished
  /\ changes' = [y \in Years |-> [changes[y] EXCEPT !.nodes = Staging(nodeCounts, y, @)]]
  /\ phase' = "idle" /\ staged' = {"nodes"}
  /\ UNCHANGED <<inputs, nodeVars, wayVars, passes, todo, removing, runs, crashes,
                 halfRemoved, fixedUp>>

\* An unsorted file: the staging files are closed without the pending counts,
\* and the cache has no directory, or nothing but its header.
FailNodes ==
  /\ phase = "nodes" /\ NodePassThrows
  /\ changes' = [y \in Years |->
        [changes[y] EXCEPT !.nodes = IF Of(nodeCounts, y) = NoCounts THEN @ ELSE NoCounts]]
  /\ cache' = IF blocks = <<>> THEN <<>> ELSE Torn
  /\ End
  /\ UNCHANGED <<inputs, nodeVars, wayVars, runs, crashes, history>>

\* The way pass wipes nothing: it puts ways.parquet next to what is there.
BeginWays ==
  /\ phase = "idle" /\ passes # <<>> /\ Head(passes) = "ways" /\ Readable(cache)
  /\ phase' = "ways" /\ passes' = Tail(passes)
  /\ WayPassStart
  /\ staged' = staged \ {"ways"}
  /\ fixedUp' = (fixedUp \/ "sort" \in staged)
  /\ UNCHANGED <<inputs, nodeVars, cache, changes, todo, removing, runs, crashes, halfRemoved>>

\* Without a readable cache it throws.
FailWays ==
  /\ phase = "idle" /\ passes # <<>> /\ Head(passes) = "ways" /\ ~Readable(cache)
  /\ End
  /\ UNCHANGED <<inputs, nodeVars, cache, wayVars, changes, runs, crashes, history>>

StepWays ==
  /\ phase = "ways" /\ ReadWay
  /\ UNCHANGED <<inputs, nodeVars, cache, io, runs, crashes, history>>

EndWays ==
  /\ phase = "ways" /\ WayPassDone
  /\ changes' = [y \in Years |-> [changes[y] EXCEPT !.ways = Staging(wayCounts, y, @)]]
  /\ phase' = "idle" /\ staged' = staged \cup {"ways"}
  /\ UNCHANGED <<inputs, nodeVars, cache, wayVars, passes, todo, removing, runs, crashes,
                 halfRemoved, fixedUp>>

-----------------------------------------------------------------------------
(* sort_pass::merge_and_sort_partitions *)

BeginSort ==
  /\ phase = "idle" /\ passes # <<>> /\ Head(passes) = "sort"
  /\ phase' = "sort" /\ passes' = Tail(passes)
  /\ todo' = Years
  /\ UNCHANGED <<inputs, nodeVars, cache, wayVars, changes, removing, runs, crashes, history>>

\* Mutant: a year without nodes.parquet starts from nothing.
SourceWithoutFallback(y, kind) ==
  IF changes[y][kind] # Absent THEN changes[y][kind] ELSE NoCounts

\* A staging file, or data.parquet in the place of one that is gone.
Source(y, kind) ==
  IF changes[y][kind] # Absent THEN changes[y][kind]
  ELSE IF changes[y].data # Absent THEN changes[y].data
  ELSE NoCounts

Unmerged(y) == {kind \in {"nodes", "ways"} : changes[y][kind] # Absent}
ToRemove(y, kind) == IF kind \in Unmerged(y) THEN <<[year |-> y, kind |-> kind]>> ELSE <<>>
Merged(y) == Plus(Source(y, "nodes"), Source(y, "ways"))

SkipYear(y) ==
  /\ phase = "sort" /\ removing = <<>> /\ y \in todo /\ Unmerged(y) = {}
  /\ todo' = todo \ {y}
  /\ UNCHANGED <<inputs, nodeVars, cache, wayVars, passes, phase, changes, removing,
                 runs, crashes, history>>

\* The sum is renamed into place; the staging files it read go next.
MergeYear(y) ==
  /\ phase = "sort" /\ removing = <<>> /\ y \in todo /\ Unmerged(y) # {}
  /\ \A kind \in Unmerged(y) : changes[y][kind] # Torn
  /\ changes' = [changes EXCEPT ![y].data = Merged(y)]
  /\ removing' = ToRemove(y, "nodes") \o ToRemove(y, "ways")
  /\ todo' = todo \ {y}
  /\ staged' = staged \cup {"sort"}
  /\ UNCHANGED <<inputs, nodeVars, cache, wayVars, passes, phase, runs, crashes,
                 halfRemoved, fixedUp>>

\* Reading a torn staging file throws.
FailSort(y) ==
  /\ phase = "sort" /\ removing = <<>> /\ y \in todo
  /\ \E kind \in Unmerged(y) : changes[y][kind] = Torn
  /\ End
  /\ UNCHANGED <<inputs, nodeVars, cache, wayVars, changes, runs, crashes, history>>

RemoveStaging ==
  /\ phase = "sort" /\ removing # <<>>
  /\ changes' = [changes EXCEPT ![Head(removing).year][Head(removing).kind] = Absent]
  /\ removing' = Tail(removing)
  /\ UNCHANGED <<inputs, nodeVars, cache, wayVars, passes, phase, todo, runs, crashes, history>>

EndSort ==
  /\ phase = "sort" /\ removing = <<>> /\ todo = {}
  /\ phase' = "idle"
  /\ UNCHANGED <<inputs, nodeVars, cache, wayVars, passes, changes, todo, removing,
                 runs, crashes, history>>

-----------------------------------------------------------------------------
\* A crash leaves torn what was being written under its final name: the cache
\* (or a readable header, before the first block) and the years counted so far.
Crash ==
  /\ crashes > 0 /\ phase # "idle"
  /\ crashes' = crashes - 1
  /\ End
  /\ cache' = IF phase # "nodes" THEN cache ELSE IF blocks = <<>> THEN <<>> ELSE Torn
  /\ LET cut(counts, y, old) == IF Of(counts, y) = NoCounts THEN old ELSE Torn
     IN  changes' = [y \in Years |->
           CASE phase = "nodes" -> [changes[y] EXCEPT !.nodes = cut(nodeCounts, y, @)]
             [] phase = "ways"  -> [changes[y] EXCEPT !.ways = cut(wayCounts, y, @)]
             [] phase = "sort"  -> changes[y]]
  /\ halfRemoved' = (halfRemoved \/ Len(removing) = 1)
  /\ UNCHANGED <<inputs, nodeVars, wayVars, runs, staged, fixedUp>>

Verbs == {<<"nodes", "ways", "sort">>, <<"nodes">>, <<"ways">>, <<"sort">>}

Next ==
  \/ \E verb \in Verbs : Start(verb)
  \/ NewFile
  \/ BeginNodes \/ StepNodes \/ EndNodes \/ FailNodes
  \/ BeginWays \/ FailWays \/ StepWays \/ EndWays
  \/ BeginSort \/ RemoveStaging \/ EndSort
  \/ \E y \in Years : SkipYear(y) \/ MergeYear(y) \/ FailSort(y)
  \/ Crash

Spec == Init /\ [][Next]_vars
=============================================================================
