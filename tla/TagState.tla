------------------------------ MODULE TagState ------------------------------
(***************************************************************************)
(* The prior-tag cache (ObjectTagState) of one object type across imports,  *)
(* update runs, crashes and compactions, and the scan that compares every   *)
(* modified object with it. The files are named as the code names them: the *)
(* writers and read_delta derive the typed name, the constructor, compact() *)
(* and the sidecar's removal use the path as it is given.                   *)
(***************************************************************************)
EXTENDS NameTags

CONSTANTS
  Objects,     \* object ids
  Tags,        \* the tags a version may carry
  Streams,     \* histories: [imported, versions]
  Absent,      \* no file under the name
  LengthLimit, \* longest value whose length fits its byte (255)
  MaxCrashes

ASSUME ObjectsAreNumbers == Objects \subseteq Nat
Versions == [object : Objects, create : BOOLEAN, visible : BOOLEAN,
             tags : SUBSET Tags, order : {"up", "down"}]
ASSUME StreamsAreHistories ==
  \A s \in Streams : s.versions \in Seq(Versions) /\ s.imported \in 0..Len(s.versions)
\* A key has one value.
ASSUME OneValuePerKey ==
  \A s \in Streams : \A i \in DOMAIN s.versions : \A t, u \in s.versions[i].tags :
    t.family = u.family /\ t.lang = u.lang => t = u
Sidecars == [live : UNION {[S -> SUBSET Tags] : S \in SUBSET Objects}, dead : SUBSET Objects]
ASSUME AbsentIsNoFile == Absent \notin Sidecars
ASSUME LimitsAreNumbers == LengthLimit \in Nat /\ MaxCrashes \in Nat

VARIABLES
  history,     \* every version: [object, create, visible, tags, order]
  imported,    \* how many of them the import's file holds
  files,       \* the cache files' contents by name
  manifest,    \* versions applied, as the manifest records
  deltaAt,     \* versions applied when the sidecar was written
  phase,       \* "none", "idle", "scan", "persisted", "committed", "rewritten"
  pos,         \* versions scanned by this run and those before
  base,        \* base_tags_
  overlay,     \* overlay_: [deleted, tags] by object
  deleted,     \* deleted_
  last,        \* the last comparison: [object, prior, new, event]
  inStep,      \* every run began with a sidecar as old as the manifest
  crashes

memory == <<base, overlay, deleted>>
vars == <<history, imported, files, manifest, deltaAt, phase, pos, memory, last, inStep, crashes>>

\* base_path_ and the names made from it.
BasePath == "object_tags.cache"
DeltaPath == "object_tags.cache.delta"
TypedBase == "object_tags.nodes.cache"
TypedDelta == "object_tags.nodes.cache.delta"
Names == {BasePath, DeltaPath, TypedBase, TypedDelta}

NoTags == {}
Nothing == [o \in {} |-> NoTags]
NoComparison == [object |-> 0, prior |-> {}, new |-> {}, event |-> NoEvent]

Init ==
  /\ \E s \in Streams : history = s.versions /\ imported = s.imported
  /\ files = [n \in Names |-> Absent]
  /\ manifest = 0 /\ deltaAt = 0 /\ phase = "none" /\ pos = 0
  /\ base = Nothing /\ overlay = Nothing /\ deleted = {}
  /\ last = NoComparison /\ inStep = TRUE /\ crashes = 0

-----------------------------------------------------------------------------
(* build_tag_cache *)

\* The last of the first n versions of an object, 0 if there is none.
LastVersion(o, n) ==
  LET mine == {i \in 1..n : history[i].object = o}
  IN  IF mine = {} THEN 0 ELSE CHOOSE i \in mine : \A j \in mine : j <= i

\* The tags an object carries: those of its last version, none once deleted.
TagsAfter(o, n) ==
  LET i == LastVersion(o, n)
  IN  IF i = 0 \/ ~history[i].visible THEN NoTags ELSE Tracked(history[i].tags)

\* Only objects with tags to track get a record.
TagCache(n) ==
  [o \in {p \in Objects : TagsAfter(p, n) # NoTags} |-> TagsAfter(o, n)]

Import ==
  /\ phase = "none"
  /\ files' = [files EXCEPT ![TypedBase] = TagCache(imported), ![TypedDelta] = Absent]
  /\ manifest' = imported /\ pos' = imported /\ deltaAt' = imported
  /\ phase' = "idle"
  /\ UNCHANGED <<history, imported, memory, last, inStep, crashes>>

-----------------------------------------------------------------------------
(* object_tag_delta: the sidecar *)

IsLong(t) == Len(t.value) > LengthLimit
HoldsLong(tags) == \E t \in tags : IsLong(t)

\* A tombstone is written twice: as an entry without tags, and as deleted.
WriteDelta ==
  [live |-> [o \in DOMAIN overlay |-> IF overlay[o].deleted THEN NoTags ELSE overlay[o].tags],
   dead |-> deleted]

\* A value's length is cut to a byte, the value is not: from the object with
\* the first long value on, what is read are other objects and other tags.
Whole(delta) ==
  {o \in DOMAIN delta.live : \A p \in DOMAIN delta.live : p <= o => ~HoldsLong(delta.live[p])}
ReadOverlay(delta) == [o \in Whole(delta) |-> [deleted |-> FALSE, tags |-> delta.live[o]]]
ReadDeleted(delta) == delta.dead \cap Whole(delta)

-----------------------------------------------------------------------------
(* ObjectTagState *)

BaseAt(path) == IF files[path] = Absent THEN Nothing ELSE files[TypedBase]

StartRun ==
  /\ phase = "idle" /\ manifest < Len(history)
  /\ base' = BaseAt(BasePath)
  /\ IF files[TypedDelta] = Absent
     THEN overlay' = Nothing /\ deleted' = {}
     ELSE /\ overlay' = ReadOverlay(files[TypedDelta])
          /\ deleted' = ReadDeleted(files[TypedDelta])
  /\ pos' = manifest /\ phase' = "scan" /\ last' = NoComparison
  /\ inStep' = (inStep /\ deltaAt = manifest)
  /\ UNCHANGED <<history, imported, files, manifest, deltaAt, crashes>>

Pre(o) ==
  IF o \in DOMAIN overlay THEN (IF overlay[o].deleted THEN NoTags ELSE overlay[o].tags)
  ELSE IF o \in deleted THEN NoTags
  ELSE IF o \in DOMAIN base THEN base[o]
  ELSE NoTags

Put(o, entry) == [p \in DOMAIN overlay \cup {o} |-> IF p = o THEN entry ELSE overlay[p]]

SetTags(o, tags) ==
  /\ deleted' = deleted \ {o}
  /\ overlay' = Put(o, [deleted |-> FALSE, tags |-> tags])

\* Mutant: only the tombstone set is told.
RemoveFromSet(o) == deleted' = deleted \cup {o} /\ UNCHANGED overlay

RemoveTags(o) ==
  /\ overlay' = Put(o, [deleted |-> TRUE, tags |-> NoTags])
  /\ deleted' = deleted \cup {o}

ChangedCount == Cardinality({o \in DOMAIN overlay : ~overlay[o].deleted}) + Cardinality(deleted)

-----------------------------------------------------------------------------
(* SuspectLangScanHandler::process *)

More == phase = "scan" /\ pos < Len(history)
Version == history[pos + 1]
Scanned ==
  /\ pos' = pos + 1
  /\ UNCHANGED <<history, imported, files, manifest, deltaAt, phase, base, inStep, crashes>>

ScanDeletion ==
  /\ More /\ ~Version.visible
  /\ RemoveTags(Version.object)
  /\ last' = NoComparison
  /\ Scanned

ScanCreate ==
  /\ More /\ Version.visible /\ Version.create
  /\ last' = NoComparison
  /\ UNCHANGED <<overlay, deleted>>
  /\ Scanned

Event == Classify(Pre(Version.object), Version.tags, Version.order)

\* Mutant: the tags are recorded untracked ones included.
Kept(tags) == tags

\* What is compared with the object's next version.
Recorded(tags) == Tracked(tags)

\* The new tags are recorded only with an event.
ScanModification ==
  /\ More /\ Version.visible /\ ~Version.create
  /\ last' = [object |-> Version.object, prior |-> Pre(Version.object),
              new |-> Version.tags, event |-> Event]
  /\ IF Event = NoEvent THEN UNCHANGED <<overlay, deleted>>
     ELSE SetTags(Version.object, Recorded(Version.tags))
  /\ Scanned

-----------------------------------------------------------------------------
(* The end of a run *)

Persist ==
  /\ phase = "scan" /\ pos > manifest
  /\ phase' = "persisted"
  /\ IF ChangedCount = 0 THEN UNCHANGED files
     ELSE files' = [files EXCEPT ![TypedDelta] = WriteDelta]
  /\ deltaAt' = pos
  /\ UNCHANGED <<history, imported, manifest, pos, memory, last, inStep, crashes>>

CommitManifest ==
  /\ phase = "persisted"
  /\ manifest' = pos /\ phase' = "committed"
  /\ UNCHANGED <<history, imported, files, deltaAt, pos, memory, last, inStep, crashes>>

CompactionDue ==
  ChangedCount > 0 /\ ChangedCount >= (Cardinality(DOMAIN base) \div 10) + 1

\* compact(): the typed base is rewritten from what was loaded and the overlay.
Survivors == (DOMAIN base \cup DOMAIN overlay) \ deleted
RewriteBase ==
  /\ phase = "committed" /\ CompactionDue
  /\ files' = [files EXCEPT ![TypedBase] =
        [o \in Survivors |-> IF o \in DOMAIN overlay THEN overlay[o].tags ELSE base[o]]]
  /\ phase' = "rewritten"
  /\ UNCHANGED <<history, imported, manifest, deltaAt, pos, memory, last, inStep, crashes>>

\* ... and the sidecar under the path as given is dropped. The run ends.
DropSidecar ==
  /\ phase = "rewritten"
  /\ files' = [files EXCEPT ![DeltaPath] = Absent]
  /\ base' = BaseAt(BasePath)
  /\ overlay' = Nothing /\ deleted' = {}
  /\ phase' = "idle"
  /\ UNCHANGED <<history, imported, manifest, deltaAt, pos, last, inStep, crashes>>

EndRun ==
  /\ phase = "committed" /\ ~CompactionDue
  /\ phase' = "idle"
  /\ base' = Nothing /\ overlay' = Nothing /\ deleted' = {}
  /\ UNCHANGED <<history, imported, files, manifest, deltaAt, pos, last, inStep, crashes>>

Crash ==
  /\ phase \in {"scan", "persisted", "committed", "rewritten"} /\ crashes < MaxCrashes
  /\ crashes' = crashes + 1
  /\ phase' = "idle"
  /\ base' = Nothing /\ overlay' = Nothing /\ deleted' = {}
  /\ UNCHANGED <<history, imported, files, manifest, deltaAt, pos, last, inStep>>

Next ==
  \/ Import \/ StartRun
  \/ ScanDeletion \/ ScanCreate \/ ScanModification
  \/ Persist \/ CommitManifest \/ RewriteBase \/ DropSidecar \/ EndRun
  \/ Crash

Spec == Init /\ [][Next]_vars
=============================================================================
