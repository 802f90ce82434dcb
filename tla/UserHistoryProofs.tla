-------------------------- MODULE UserHistoryProofs --------------------------
(***************************************************************************)
(* The proofs of what the user statistics promise, for every stream, every *)
(* threshold and any number of crashes.                                    *)
(***************************************************************************)
EXTENDS UserHistoryProperties, SuspectProofs

-----------------------------------------------------------------------------
(* The run and its stage *)

\* The batches with rows for a root, from the manifest's on.
RowBatches(root, n) == {b \in manifest+1..n : HasRows(root, b)}

\* The inputs are a stream, the positions are in it, and a run's stage files
\* are those of its batches until the fold that reads them.
RunIsSound ==
  /\ \E s \in Streams : imported = s.imported /\ batches = s.batches
  /\ {manifest, target, pos} \subseteq 0..Len(batches) /\ crashes \in Nat
  /\ phase \in {"none", "idle"} \cup RunPhases
  /\ phase = "none" => /\ stores = [r \in Roots |-> Absent] /\ manifest = 0 /\ crashes = 0
                       /\ totals = Absent /\ history = Absent /\ suspects = Absent
  /\ phase \in RunPhases => manifest < target
  /\ phase = "scan" => manifest <= pos /\ pos < target
  /\ DOMAIN stage = StageRoots
  /\ phase = "scan" => \A r \in StageRoots : stage[r] = RowBatches(r, pos)
  /\ \A r \in StageRoots : phase \in Unread[r] => stage[r] = RowBatches(r, target)

LEMMA StreamTypes ==
  ASSUME RunIsSound
  PROVE  /\ imported \in Seq(Versions) /\ batches \in Seq(Seq(Versions))
         /\ Len(batches) \in Nat /\ manifest \in Nat /\ target \in Nat /\ pos \in Nat
         /\ \A i \in DOMAIN imported : imported[i].uid \in Uids
         /\ \A b \in DOMAIN batches : \A i \in DOMAIN batches[b] : batches[b][i].uid \in Uids
<1>1. PICK s \in Streams : imported = s.imported /\ batches = s.batches
  BY DEF RunIsSound
<1>2. imported \in Seq(Versions) /\ batches \in Seq(Seq(Versions))
  BY <1>1, StreamsAreVersions
<1>3. \A i \in DOMAIN imported : imported[i].uid \in Uids
  BY <1>1 DEF Uids
<1>4. \A b \in DOMAIN batches : \A i \in DOMAIN batches[b] : batches[b][i].uid \in Uids
  BY <1>1 DEF Uids
<1>5. Len(batches) \in Nat /\ manifest \in Nat /\ target \in Nat /\ pos \in Nat
  BY <1>2 DEF RunIsSound
<1>. QED BY <1>2, <1>3, <1>4, <1>5

\* What a batch has rows for does not change.
LEMMA RowBatchesStay ==
  ASSUME batches' = batches
  PROVE  /\ \A r, b : HasRows(r, b)' = HasRows(r, b)
         /\ manifest' = manifest => \A r, n : RowBatches(r, n)' = RowBatches(r, n)
<1>1. \A r, b : HasRows(r, b)' = HasRows(r, b)
  BY DEF HasRows
<1>. QED BY <1>1 DEF RowBatches

LEMMA RunIsSoundInit == Init => RunIsSound
<1> SUFFICES ASSUME Init PROVE RunIsSound
  OBVIOUS
<1>1. \E s \in Streams : imported = s.imported /\ batches = s.batches
  BY DEF Init
<1>2. Len(batches) \in Nat
  BY <1>1, StreamsAreVersions
<1>3. phase \notin RunPhases /\ phase = "none"
  BY DEF Init, RunPhases
<1>4. \A r \in StageRoots : phase \notin Unread[r]
  BY <1>3 DEF StageRoots, Roots, Unread, RunPhases
<1>5. DOMAIN stage = StageRoots
  BY DEF Init, StageRoots
<1>. QED BY <1>1, <1>2, <1>3, <1>4, <1>5 DEF Init, RunIsSound

\* The phases go through a run in one order.
LEMMA RunIsSoundStep == RunIsSound /\ [Next]_vars => RunIsSound'
<1> SUFFICES ASSUME RunIsSound, [Next]_vars PROVE RunIsSound'
  OBVIOUS
<1>0. /\ Len(batches) \in Nat /\ manifest \in Nat /\ target \in Nat /\ pos \in Nat
      /\ DOMAIN stage = StageRoots
  BY StreamTypes DEF RunIsSound
<1>1. CASE Import
  <2>1. UNCHANGED <<imported, batches, manifest, stage, target, pos, crashes>> /\ phase' = "idle"
    BY <1>1 DEF Import
  <2>2. phase' \notin RunPhases /\ phase' # "none" /\ \A r \in StageRoots : phase' \notin Unread[r]
    BY <2>1 DEF RunPhases, StageRoots, Roots, Unread
  <2>. QED BY <2>1, <2>2 DEF RunIsSound
<1>2. CASE StartRun
  <2>1. /\ target' \in manifest + 1..Len(batches) /\ stage' = [r \in DOMAIN stage |-> {}]
        /\ pos' = manifest /\ phase' = "scan" /\ UNCHANGED <<imported, batches, manifest, crashes>>
    BY <1>2 DEF StartRun
  <2>2. phase' # "none" /\ \A r \in StageRoots : phase' \notin Unread[r]
    BY <2>1 DEF RunPhases, StageRoots, Roots, Unread
  <2>3. \A r : RowBatches(r, manifest)' = {}
    BY <1>0, <2>1 DEF RowBatches
  <2>. QED BY <1>0, <2>1, <2>2, <2>3 DEF RunIsSound, RunPhases
<1>3. CASE Scan
  <2>1. /\ phase = "scan" /\ pos < target /\ pos' = pos + 1
        /\ stage' = [r \in DOMAIN stage |-> IF HasRows(r, pos + 1) THEN stage[r] \cup {pos + 1} ELSE stage[r]]
        /\ phase' = (IF pos + 1 = target THEN "minutes" ELSE "scan")
        /\ UNCHANGED <<imported, batches, manifest, target, crashes>>
    BY <1>3 DEF Scan
  <2>2. manifest < target /\ manifest <= pos /\ \A r \in StageRoots : stage[r] = RowBatches(r, pos)
    BY <2>1 DEF RunIsSound, RunPhases
  <2>3. /\ \A r : RowBatches(r, pos)' = RowBatches(r, pos + 1)
        /\ pos + 1 = target' => \A r : RowBatches(r, target)' = RowBatches(r, pos + 1)
    BY <2>1, RowBatchesStay DEF RowBatches
  <2>4. ASSUME NEW r \in StageRoots PROVE stage'[r] = RowBatches(r, pos + 1)
    <3>1. manifest+1..(pos + 1) = (manifest+1..pos) \cup {pos + 1}
      BY <1>0, <2>2
    <3>2. stage'[r] = (IF HasRows(r, pos + 1) THEN stage[r] \cup {pos + 1} ELSE stage[r])
      BY <1>0, <2>1
    <3>. QED BY <2>2, <3>1, <3>2 DEF RowBatches
  <2>6. pos' \in 0..Len(batches) /\ pos' <= target /\ (phase' = "scan" => pos' < target)
        /\ (phase' = "minutes" => pos' = target) /\ manifest <= pos'
    BY <1>0, <2>1, <2>2 DEF RunIsSound
  <2>7. phase' \in RunPhases /\ phase' # "none" /\ DOMAIN stage' = StageRoots
    BY <1>0, <2>1 DEF RunPhases
  <2>8. phase' = "scan" => \A r \in StageRoots : phase' \notin Unread[r]
    BY DEF RunPhases, StageRoots, Roots, Unread
  <2>9. phase' # "scan" => pos + 1 = target'
    BY <2>1
  <2>10. \A r \in StageRoots : phase' \in Unread[r] => stage'[r] = RowBatches(r, target)'
    BY <2>3, <2>4, <2>8, <2>9
  <2>11. phase' = "scan" => \A r \in StageRoots : stage'[r] = RowBatches(r, pos)'
    BY <2>3, <2>4
  <2>. QED BY <1>0, <2>1, <2>2, <2>6, <2>7, <2>10, <2>11 DEF RunIsSound
<1>4. ASSUME phase \in RunPhases \ {"scan"}, phase' \in RunPhases \ {"scan"},
             UNCHANGED <<imported, batches, manifest, target, pos, crashes>>,
             DOMAIN stage' = StageRoots,
             \A r \in StageRoots : phase' \in Unread[r] => phase \in Unread[r] /\ stage'[r] = stage[r]
      PROVE  RunIsSound'
  <2>1. manifest < target
    BY <1>4 DEF RunIsSound
  <2>2. phase' # "none" /\ phase' # "scan"
    BY <1>4 DEF RunPhases
  <2>3. \A r : RowBatches(r, target)' = RowBatches(r, target)
    BY <1>4, RowBatchesStay
  <2>4. \A r \in StageRoots : phase' \in Unread[r] => stage'[r] = RowBatches(r, target)'
    BY <1>4, <2>3 DEF RunIsSound
  <2>. QED BY <1>0, <1>4, <2>1, <2>2, <2>4 DEF RunIsSound
<1>5. ASSUME NEW root \in Roots, NEW next, Fold(root, next),
             <<root, next>> \in {<<"minutes", "cells">>, <<"cells", "tags">>, <<"tags", "moves">>, <<"langs", "ranking">>}
      PROVE  RunIsSound'
  <2>1. /\ phase = root /\ phase' = next /\ stage' = [stage EXCEPT ![root] = {}]
        /\ UNCHANGED <<imported, batches, manifest, target, pos, crashes>>
    BY <1>5 DEF Fold
  <2>2. DOMAIN stage' = StageRoots /\ \A r \in StageRoots \ {root} : stage'[r] = stage[r]
    BY <1>0, <2>1
  <2>3. root \in RunPhases \ {"scan"} /\ next \in RunPhases \ {"scan"}
    BY <1>5 DEF RunPhases
  <2>4. \A r \in StageRoots : next \in Unread[r] => root \in Unread[r] /\ r # root
    BY <1>5 DEF StageRoots, Roots, Unread, RunPhases
  <2>. QED BY <1>4, <2>1, <2>2, <2>3, <2>4
<1>6. CASE FoldMinutes
  BY <1>5, <1>6 DEF FoldMinutes, Roots
<1>7. CASE FoldCells
  BY <1>5, <1>7 DEF FoldCells, Roots
<1>8. CASE FoldTags
  BY <1>5, <1>8 DEF FoldTags, Roots
<1>9. CASE FoldLangs
  BY <1>5, <1>9 DEF FoldLangs, Roots
<1>10. CASE FlagMoves
  <2>1. /\ phase = "moves" /\ phase' = "langs"
        /\ stage' = [r \in DOMAIN stage |-> IF r = "history" THEN stage[r] ELSE {}]
        /\ UNCHANGED <<imported, batches, manifest, target, pos, crashes>>
    BY <1>10 DEF FlagMoves
  <2>2. DOMAIN stage' = StageRoots /\ stage'["history"] = stage["history"]
    BY <1>0, <2>1 DEF StageRoots
  <2>3. \A r \in StageRoots : "langs" \in Unread[r] => r = "history" /\ "moves" \in Unread[r]
    BY DEF StageRoots, Roots, Unread, RunPhases
  <2>4. {"moves", "langs"} \subseteq RunPhases \ {"scan"}
    BY DEF RunPhases
  <2>. QED BY <1>4, <2>1, <2>2, <2>3, <2>4
<1>11. CASE WriteRanking
  <2>1. /\ phase = "ranking" /\ phase' \in {"manifest", "history"}
        /\ UNCHANGED <<imported, batches, manifest, stage, target, pos, crashes>>
    BY <1>11 DEF WriteRanking
  <2>2. {"ranking", "manifest", "history"} \subseteq RunPhases \ {"scan"}
    BY DEF RunPhases
  <2>3. \A r \in StageRoots : phase' \in Unread[r] => "ranking" \in Unread[r]
    BY <2>1 DEF StageRoots, Roots, Unread, RunPhases
  <2>. QED BY <1>0, <1>4, <2>1, <2>2, <2>3
<1>12. CASE WriteHistory
  <2>1. /\ phase = "history" /\ phase' = "suspects"
        /\ UNCHANGED <<imported, batches, manifest, stage, target, pos, crashes>>
    BY <1>12 DEF WriteHistory
  <2>2. {"suspects", "history"} \subseteq RunPhases \ {"scan"}
    BY DEF RunPhases
  <2>3. \A r \in StageRoots : "suspects" \in Unread[r] => "history" \in Unread[r]
    BY DEF StageRoots, Roots, Unread, RunPhases
  <2>. QED BY <1>0, <1>4, <2>1, <2>2, <2>3
<1>13. CASE WriteSuspects
  <2>1. /\ phase = "suspects" /\ phase' = "manifest" /\ stage' = [stage EXCEPT !["history"] = {}]
        /\ UNCHANGED <<imported, batches, manifest, target, pos, crashes>>
    BY <1>13 DEF WriteSuspects
  <2>2. {"suspects", "manifest"} \subseteq RunPhases \ {"scan"} /\ DOMAIN stage' = StageRoots
    BY <1>0, <2>1 DEF RunPhases
  <2>3. \A r \in StageRoots : "manifest" \notin Unread[r]
    BY DEF StageRoots, Roots, Unread, RunPhases
  <2>. QED BY <1>4, <2>1, <2>2, <2>3
<1>14. ASSUME phase \in RunPhases, phase' = "idle", manifest' \in {manifest, target}, crashes' \in Nat,
              UNCHANGED <<imported, batches, stage, target, pos>>
       PROVE  RunIsSound'
  <2>1. phase' \notin RunPhases /\ phase' # "none" /\ phase' # "scan"
        /\ \A r \in StageRoots : phase' \notin Unread[r]
    BY <1>14 DEF RunPhases, StageRoots, Roots, Unread
  <2>. QED BY <1>0, <1>14, <2>1 DEF RunIsSound
<1>15. CASE WriteManifest
  BY <1>14, <1>15 DEF WriteManifest, RunPhases, RunIsSound
<1>16. CASE Crash
  BY <1>14, <1>16 DEF Crash, RunPhases, RunIsSound
<1>17. CASE UNCHANGED vars
  <2>1. UNCHANGED <<imported, batches, manifest, stores, totals, history, suspects, stage, target, pos, phase, crashes>>
    BY <1>17 DEF vars, tables
  <2>2. \A r, n : RowBatches(r, n)' = RowBatches(r, n)
    BY <2>1, RowBatchesStay
  <2>. QED BY <2>1, <2>2 DEF RunIsSound
<1>. QED BY <1>1, <1>2, <1>3, <1>6, <1>7, <1>8, <1>9, <1>10, <1>11, <1>12, <1>13, <1>15, <1>16, <1>17
         DEF Next, Done

\* The files of a running update are those of its batches.
LEMMA RunIsSoundAlways == Spec => []RunIsSound
BY RunIsSoundInit, RunIsSoundStep, PTL DEF Spec

-----------------------------------------------------------------------------
(* What batches weigh *)

Heaped(g, B) == SumFunctionOnSet([b \in DOMAIN batches |-> Weigh(batches[b], g)], B)

LEMMA HeapedSame ==
  ASSUME batches' = batches PROVE \A g, B : Heaped(g, B)' = Heaped(g, B)
BY DEF Heaped

LEMMA HeapedInt ==
  ASSUME batches \in Seq(Seq(Versions)), NEW g, \A x \in Versions : g[x] \in Int
  PROVE  \A B \in SUBSET (DOMAIN batches) : IsFiniteSet(B) /\ Heaped(g, B) \in Int
<1> SUFFICES ASSUME NEW B \in SUBSET (DOMAIN batches) PROVE IsFiniteSet(B) /\ Heaped(g, B) \in Int
  OBVIOUS
<1> DEFINE h == [b \in DOMAIN batches |-> Weigh(batches[b], g)]
<1>1. IsFiniteSet(B)
  <2>1. IsFiniteSet(DOMAIN batches)
    BY FS_Interval
  <2>. QED BY <2>1, FS_Subset
<1>2. \A b \in B : h[b] \in Int
  BY WeighInt
<1>3. Heaped(g, B) = SumFunctionOnSet(h, B)
  BY DEF Heaped
<1> HIDE DEF h
<1>. QED BY <1>1, <1>2, <1>3, SumInInt

LEMMA HeapedUnion ==
  ASSUME batches \in Seq(Seq(Versions)), NEW g, \A x \in Versions : g[x] \in Int,
         NEW B \in SUBSET (DOMAIN batches), NEW C \in SUBSET (DOMAIN batches), B \cap C = {}
  PROVE  Heaped(g, B \cup C) = Heaped(g, B) + Heaped(g, C)
<1> DEFINE h == [b \in DOMAIN batches |-> Weigh(batches[b], g)]
<1>1. IsFiniteSet(B) /\ IsFiniteSet(C)
  BY HeapedInt
<1>2. \A b \in B \cup C : h[b] \in Int
  BY WeighInt
<1>3. \A D : Heaped(g, D) = SumFunctionOnSet(h, D)
  BY DEF Heaped
<1> HIDE DEF h
<1>. QED BY <1>1, <1>2, <1>3, SumUnion

\* Batches that weigh nothing may be left out.
LEMMA HeapedInside ==
  ASSUME batches \in Seq(Seq(Versions)), NEW g, \A x \in Versions : g[x] \in Int,
         NEW B \in SUBSET (DOMAIN batches), NEW C \in SUBSET B,
         \A b \in B \ C : Weigh(batches[b], g) = 0
  PROVE  Heaped(g, B) = Heaped(g, C)
<1> DEFINE h == [b \in DOMAIN batches |-> Weigh(batches[b], g)]
<1>1. IsFiniteSet(B)
  BY HeapedInt
<1>2. (\A b \in B : h[b] \in Int) /\ (\A b \in B \ C : h[b] = 0)
  BY WeighInt
<1>3. \A D : Heaped(g, D) = SumFunctionOnSet(h, D)
  BY DEF Heaped
<1> HIDE DEF h
<1>. QED BY <1>1, <1>2, <1>3, SumInside

LEMMA HeapedNat ==
  ASSUME batches \in Seq(Seq(Versions)), NEW g, \A x \in Versions : g[x] \in Nat,
         NEW B \in SUBSET (DOMAIN batches)
  PROVE  /\ Heaped(g, B) \in Nat
         /\ Heaped(g, B) = 0 <=> \A b \in B : Weigh(batches[b], g) = 0
<1> DEFINE h == [b \in DOMAIN batches |-> Weigh(batches[b], g)]
<1>1. IsFiniteSet(B)
  BY HeapedInt
<1>2. \A b \in B : h[b] \in Nat /\ h[b] = Weigh(batches[b], g)
  BY WeighNat
<1>3. \A D : Heaped(g, D) = SumFunctionOnSet(h, D)
  BY DEF Heaped
<1> HIDE DEF h
<1>4. (\A b \in B : h[b] \in Nat)
  BY <1>2
<1>5. SumFunctionOnSet(h, B) \in Nat /\ (SumFunctionOnSet(h, B) = 0 <=> \A b \in B : h[b] = 0)
  BY <1>1, <1>4, SumPositive
<1>. QED BY <1>2, <1>3, <1>5

LEMMA HeapedMonotone ==
  ASSUME batches \in Seq(Seq(Versions)), NEW g, \A x \in Versions : g[x] \in Nat,
         NEW B \in SUBSET (DOMAIN batches), NEW C \in SUBSET B
  PROVE  Heaped(g, C) <= Heaped(g, B)
<1> DEFINE h == [b \in DOMAIN batches |-> Weigh(batches[b], g)]
<1>1. IsFiniteSet(B)
  BY HeapedInt
<1>2. \A b \in B : h[b] \in Nat
  BY WeighNat
<1>3. \A D : Heaped(g, D) = SumFunctionOnSet(h, D)
  BY DEF Heaped
<1> HIDE DEF h
<1>4. \A D \in SUBSET B : SumFunctionOnSet(h, D) <= SumFunctionOnSet(h, B)
  BY <1>1, <1>2, SumPositive
<1>. QED BY <1>3, <1>4

\* Batches one after the other, in any order.
Picks(s, f, n) ==
  s \in Seq(Seq(Versions)) /\ Len(s) = n /\ \A i \in 1..n : s[i] = batches[f[i]]

LEMMA WeighListed ==
  ASSUME batches \in Seq(Seq(Versions)), NEW g, \A x \in Versions : g[x] \in Int,
         NEW B \in SUBSET (DOMAIN batches), NEW n \in Nat, NEW f, Renames(f, 1..n, B),
         NEW s, Picks(s, f, n)
  PROVE  FlattenSeq(s) \in Seq(Versions) /\ Weigh(FlattenSeq(s), g) = Heaped(g, B)
<1> DEFINE W == [r \in Seq(Versions) |-> Weigh(r, g)]
           k == [i \in DOMAIN s |-> W[s[i]]]
           h == [b \in DOMAIN batches |-> Weigh(batches[b], g)]
<1>0. \A i \in 1..n : f[i] \in B
  BY DEF Renames
<1>1. s \in Seq(Seq(Versions)) /\ DOMAIN s = 1..n
  BY DEF Picks
<1>2. \A i \in 1..n : s[i] \in Seq(Versions) /\ s[i] = batches[f[i]] /\ f[i] \in DOMAIN batches
  BY <1>0, <1>1 DEF Picks
<1>3. \A r \in Seq(Versions) : W[r] = Weigh(r, g) /\ W[r] \in Int
  BY WeighInt
<1>4. \A i \in 1..n : k[i] \in Int /\ k[i] = h[f[i]]
  BY <1>1, <1>2, <1>3
<1>5. Weigh(s, W) = SumFunctionOnSet(k, 1..n)
  BY <1>1 DEF Weigh
<1>6. Weigh(FlattenSeq(s), g) = Weigh(s, W)
  <2>1. \A r \in Seq(Versions) : W[r] = Weigh(r, g)
    BY <1>3
  <2> HIDE DEF W
  <2>. QED BY <1>1, <2>1, WeighFlatten
<1>7. Heaped(g, B) = SumFunctionOnSet(h, B)
  BY DEF Heaped
<1>8. IsFiniteSet(1..n)
  BY FS_Interval
<1>10. FlattenSeq(s) \in Seq(Versions)
  BY <1>1, FlattenType
<1> HIDE DEF W, k, h
<1>9. SumFunctionOnSet(k, 1..n) = SumFunctionOnSet(h, B)
  BY <1>4, <1>8, SumRenamed
<1>. QED BY <1>5, <1>6, <1>7, <1>9, <1>10

\* A stretch of the stream.
LEMMA WeighStretch ==
  ASSUME batches \in Seq(Seq(Versions)), NEW g, \A x \in Versions : g[x] \in Int,
         NEW m \in Nat, NEW n \in 0..Len(batches), m <= n
  PROVE  /\ FlattenSeq(SubSeq(batches, m + 1, n)) \in Seq(Versions)
         /\ Weigh(FlattenSeq(SubSeq(batches, m + 1, n)), g) = Heaped(g, m+1..n)
<1> DEFINE f == [i \in 1..(n - m) |-> m + i]
<1>1. n - m \in Nat /\ m+1..n \in SUBSET (DOMAIN batches)
  OBVIOUS
<1>2. f \in [1..(n - m) -> m+1..n]
  OBVIOUS
<1>3. \A i, j \in 1..(n - m) : f[i] = f[j] => i = j
  OBVIOUS
<1>4. ASSUME NEW b \in m+1..n PROVE \E i \in 1..(n - m) : f[i] = b
  <2>1. b - m \in 1..(n - m) /\ f[b - m] = b
    OBVIOUS
  <2>. QED BY <2>1
<1>5. Picks(SubSeq(batches, m + 1, n), f, n - m)
  <2>1. SubSeq(batches, m + 1, n) \in Seq(Seq(Versions))
    BY <1>1, SubSeqProperties
  <2>2. Len(SubSeq(batches, m + 1, n)) = n - m
    BY <1>1
  <2>3. \A i \in 1..(n - m) : SubSeq(batches, m + 1, n)[i] = batches[m + i]
    BY <1>1, <2>2
  <2>. QED BY <2>1, <2>2, <2>3 DEF Picks
<1>6. Renames(f, 1..(n - m), m+1..n)
  BY <1>2, <1>3, <1>4 DEF Renames
<1> HIDE DEF f
<1>. QED BY <1>1, <1>5, <1>6, WeighListed

LEMMA WeighPrefix ==
  ASSUME batches \in Seq(Seq(Versions)), NEW g, \A x \in Versions : g[x] \in Int, NEW n \in 0..Len(batches)
  PROVE  Prefix(n) \in Seq(Versions) /\ Weigh(Prefix(n), g) = Heaped(g, 1..n)
<1>1. 0 \in Nat /\ 0 <= n /\ 0 + 1 = 1
  OBVIOUS
<1>2. /\ FlattenSeq(SubSeq(batches, 0 + 1, n)) \in Seq(Versions)
      /\ Weigh(FlattenSeq(SubSeq(batches, 0 + 1, n)), g) = Heaped(g, 0+1..n)
  BY <1>1, WeighStretch
<1>. QED BY <1>1, <1>2 DEF Prefix

LEMMA WeighStaged ==
  ASSUME batches \in Seq(Seq(Versions)), NEW g, \A x \in Versions : g[x] \in Int,
         NEW root, stage[root] \in SUBSET (DOMAIN batches)
  PROVE  Staged(root) \in Seq(Versions) /\ Weigh(Staged(root), g) = Heaped(g, stage[root])
<1> DEFINE S == stage[root]
           f == Ranked(S)
<1>1. IsFiniteSet(S) /\ S \subseteq Int
  <2>1. DOMAIN batches \subseteq Int
    OBVIOUS
  <2>. QED BY <2>1, HeapedInt
<1>2. Staged(root) = FlattenSeq([i \in DOMAIN f |-> batches[f[i]]])
  BY DEF Staged, InOrder, Ranked
<1>3. DOMAIN f = 1..Cardinality(S)
  BY DEF Ranked
<1>7. f = Ranked(S)
  OBVIOUS
<1> HIDE DEF f, S
<1>4. Ascends(f, S) /\ Renames(f, 1..Cardinality(S), S)
  BY <1>1, <1>7, NumbersInOrder
<1>5. Cardinality(S) \in Nat /\ \A i \in 1..Cardinality(S) : f[i] \in S
  BY <1>4 DEF Ascends
<1> DEFINE s == [i \in 1..Cardinality(S) |-> batches[f[i]]]
<1>6. Staged(root) = FlattenSeq(s)
  BY <1>2, <1>3
<1>10. Picks(s, f, Cardinality(S))
  <2>1. \A i \in 1..Cardinality(S) : batches[f[i]] \in Seq(Versions)
    BY <1>5 DEF S
  <2>2. s \in Seq(Seq(Versions)) /\ Len(s) = Cardinality(S)
    BY <1>5, <2>1
  <2>. QED BY <2>2 DEF Picks
<1> HIDE DEF s
<1>9. S \in SUBSET (DOMAIN batches) /\ S = stage[root]
  BY DEF S
<1>. QED BY <1>4, <1>5, <1>6, <1>9, <1>10, WeighListed

-----------------------------------------------------------------------------
(* What the scans count, as weights *)

LEMMA VersionTypes ==
  ASSUME NEW v \in Versions
  PROVE  /\ v.uid \in Int /\ v.minute \in Nat /\ Day(v.minute) \in Nat
         /\ v.kind \in {"node", "way", "relation"} /\ v.action \in {"create", "modify", "delete"}
         /\ v.cells \subseteq Int /\ v.tags \subseteq Nat /\ v.lang \in Nat /\ v.move \in Nat
         /\ IsFiniteSet(v.cells) /\ IsFiniteSet(v.tags)
         /\ DayKey(v) \in Keys(2)
<1>1. /\ v.uid \in Int /\ v.minute \in Nat
      /\ v.kind \in {"node", "way", "relation"} /\ v.action \in {"create", "modify", "delete"}
      /\ v.cells \subseteq Int /\ v.tags \subseteq Nat /\ v.lang \in Nat /\ v.move \in Nat
      /\ IsFiniteSet(v.cells) /\ IsFiniteSet(v.tags)
  BY DEF Versions
<1>2. Day(v.minute) \in Nat
  <2>1. v.minute \in Nat /\ DayMinutes \in Nat /\ DayMinutes > 0
    BY <1>1, SpansArePositive
  <2> DEFINE m == v.minute
  <2> HIDE DEF m
  <2>2. m \in Nat => m \div DayMinutes \in Nat
    BY <2>1
  <2>. QED BY <2>1, <2>2 DEF m, Day
<1>3. DayKey(v) \in Keys(2)
  BY <1>1, <1>2 DEF DayKey, Keys
<1>. QED BY <1>1, <1>2, <1>3

-----------------------------------------------------------------------------

\* Days

OfDay(k) == Ones(Versions, {v \in Versions : DayKey(v) = k})

LEMMA DayCountsAre ==
  ASSUME NEW vs \in Seq(Versions)
  PROVE  /\ \A k : /\ Weigh(vs, OfDay(k)) \in Nat
                   /\ k \in DOMAIN DayCounts(vs) <=> Weigh(vs, OfDay(k)) # 0
                   /\ CountOf(DayCounts(vs), k) = Weigh(vs, OfDay(k))
                   /\ k \in DOMAIN DayCounts(vs) => DayCounts(vs)[k] = Weigh(vs, OfDay(k))
         /\ IsFiniteSet(DOMAIN DayCounts(vs)) /\ DOMAIN DayCounts(vs) \subseteq Keys(2)
<1> DEFINE T(k) == {v \in Versions : DayKey(v) = k}
<1>0. \A i \in DOMAIN vs : vs[i] \in Versions
  OBVIOUS
<1>1. DOMAIN DayCounts(vs) = {DayKey(vs[i]) : i \in DOMAIN vs}
  BY DEF DayCounts
<1>2. ASSUME NEW k
      PROVE  /\ Weigh(vs, OfDay(k)) \in Nat
             /\ k \in DOMAIN DayCounts(vs) <=> Weigh(vs, OfDay(k)) # 0
             /\ k \in DOMAIN DayCounts(vs) => DayCounts(vs)[k] = Weigh(vs, OfDay(k))
  <2>1. /\ Weigh(vs, Ones(Versions, T(k))) \in Nat
        /\ Weigh(vs, Ones(Versions, T(k))) = 0 <=> \A i \in DOMAIN vs : vs[i] \notin T(k)
    BY NumberZero
  <2>2. \A i \in DOMAIN vs : vs[i] \in T(k) <=> DayKey(vs[i]) = k
    BY <1>0
  <2>3. Cardinality({i \in DOMAIN vs : vs[i] \in T(k)}) = Weigh(vs, Ones(Versions, T(k)))
    BY NumberIs
  <2>4. {i \in DOMAIN vs : vs[i] \in T(k)} = {i \in DOMAIN vs : DayKey(vs[i]) = k}
    BY <2>2
  <2>5. k \in DOMAIN DayCounts(vs) => DayCounts(vs)[k] = Cardinality({i \in DOMAIN vs : DayKey(vs[i]) = k})
    BY DEF DayCounts
  <2>6. OfDay(k) = Ones(Versions, T(k))
    BY DEF OfDay
  <2> HIDE DEF T
  <2>. QED BY <1>1, <2>1, <2>2, <2>3, <2>4, <2>5, <2>6
<1>3. \A k : CountOf(DayCounts(vs), k) = Weigh(vs, OfDay(k))
  BY <1>2 DEF CountOf
<1>4. DOMAIN DayCounts(vs) \subseteq Keys(2)
  BY <1>0, <1>1, VersionTypes
<1>5. IsFiniteSet(DOMAIN DayCounts(vs))
  <2> DEFINE f == [i \in DOMAIN vs |-> DayKey(vs[i])]
  <2>1. IsFiniteSet(DOMAIN vs)
    BY FS_Interval
  <2>2. DOMAIN DayCounts(vs) = {f[i] : i \in DOMAIN vs}
    BY <1>1
  <2> HIDE DEF f
  <2>. QED BY <2>1, <2>2, ImageIsFinite
<1>. QED BY <1>2, <1>3, <1>4, <1>5

-----------------------------------------------------------------------------

OfAspect(u, a) == Ones(Versions, {v \in Versions : v.uid = u /\ a \in AspectsOf(v)})

LEMMA TotalsAre ==
  ASSUME NEW vs \in Seq(Versions)
  PROVE  /\ \A u : /\ Weigh(vs, OfUser(u)) \in Nat
                   /\ u \in DOMAIN Totals(vs) <=> Weigh(vs, OfUser(u)) # 0
         /\ \A u \in DOMAIN Totals(vs) :
              Totals(vs)[u] = [a \in Aspects |-> Weigh(vs, OfAspect(u, a))]
         /\ \A u, a : /\ Weigh(vs, OfAspect(u, a)) \in Nat
                      /\ u \notin DOMAIN Totals(vs) => Weigh(vs, OfAspect(u, a)) = 0
         /\ DOMAIN Totals(vs) = {vs[i].uid : i \in DOMAIN vs}
         /\ IsFiniteSet(DOMAIN Totals(vs)) /\ DOMAIN Totals(vs) \subseteq Int
<1> DEFINE U(u) == {v \in Versions : v.uid = u}
           A(u, a) == {v \in Versions : v.uid = u /\ a \in AspectsOf(v)}
<1>0. \A i \in DOMAIN vs : vs[i] \in Versions
  OBVIOUS
<1>1. DOMAIN Totals(vs) = {vs[i].uid : i \in DOMAIN vs}
  BY DEF Totals
<1>2. ASSUME NEW u
      PROVE  Weigh(vs, OfUser(u)) \in Nat /\ (u \in DOMAIN Totals(vs) <=> Weigh(vs, OfUser(u)) # 0)
  <2>1. /\ Weigh(vs, Ones(Versions, U(u))) \in Nat
        /\ Weigh(vs, Ones(Versions, U(u))) = 0 <=> \A i \in DOMAIN vs : vs[i] \notin U(u)
    BY NumberZero
  <2>2. \A i \in DOMAIN vs : vs[i] \in U(u) <=> vs[i].uid = u
    BY <1>0
  <2>3. OfUser(u) = Ones(Versions, U(u))
    BY DEF OfUser
  <2> HIDE DEF U
  <2>. QED BY <1>1, <2>1, <2>2, <2>3
<1>3. ASSUME NEW u, NEW a
      PROVE  /\ Weigh(vs, OfAspect(u, a)) \in Nat
             /\ u \notin DOMAIN Totals(vs) => Weigh(vs, OfAspect(u, a)) = 0
             /\ Cardinality({i \in DOMAIN vs : vs[i].uid = u /\ a \in AspectsOf(vs[i])}) = Weigh(vs, OfAspect(u, a))
  <2>1. /\ Weigh(vs, Ones(Versions, A(u, a))) \in Nat
        /\ Weigh(vs, Ones(Versions, A(u, a))) = 0 <=> \A i \in DOMAIN vs : vs[i] \notin A(u, a)
    BY NumberZero
  <2>2. \A i \in DOMAIN vs : vs[i] \in A(u, a) <=> vs[i].uid = u /\ a \in AspectsOf(vs[i])
    BY <1>0
  <2>3. Cardinality({i \in DOMAIN vs : vs[i] \in A(u, a)}) = Weigh(vs, Ones(Versions, A(u, a)))
    BY NumberIs
  <2>4. {i \in DOMAIN vs : vs[i] \in A(u, a)} = {i \in DOMAIN vs : vs[i].uid = u /\ a \in AspectsOf(vs[i])}
    BY <2>2
  <2>5. OfAspect(u, a) = Ones(Versions, A(u, a))
    BY DEF OfAspect
  <2> HIDE DEF A
  <2>. QED BY <1>1, <2>1, <2>2, <2>3, <2>4, <2>5
<1>4. ASSUME NEW u \in DOMAIN Totals(vs)
      PROVE  Totals(vs)[u] = [a \in Aspects |-> Weigh(vs, OfAspect(u, a))]
  <2> DEFINE c(a) == Cardinality({i \in DOMAIN vs : vs[i].uid = u /\ a \in AspectsOf(vs[i])})
  <2>1. Totals(vs)[u] = [a \in Aspects |-> c(a)]
    BY DEF Totals
  <2>2. \A a \in Aspects : c(a) = Weigh(vs, OfAspect(u, a))
    BY <1>3
  <2> HIDE DEF c
  <2>. QED BY <2>1, <2>2
<1>5. IsFiniteSet(DOMAIN Totals(vs))
  <2> DEFINE f == [i \in DOMAIN vs |-> vs[i].uid]
  <2>1. IsFiniteSet(DOMAIN vs)
    BY FS_Interval
  <2>2. DOMAIN Totals(vs) = {f[i] : i \in DOMAIN vs}
    BY <1>1
  <2> HIDE DEF f
  <2>. QED BY <2>1, <2>2, ImageIsFinite
<1>6. DOMAIN Totals(vs) \subseteq Int
  BY <1>0, <1>1, VersionTypes
<1>. QED BY <1>1, <1>2, <1>3, <1>4, <1>5, <1>6

-----------------------------------------------------------------------------

LEMMA KeysOfTypes ==
  ASSUME NEW v \in Versions, NEW root \in Roots
  PROVE  KeysOf(root, v) \subseteq Keys(KeyLength[root]) /\ IsFiniteSet(KeysOf(root, v))
<1>1. /\ v.uid \in Int /\ v.minute \in Int /\ Day(v.minute) \in Int /\ v.lang \in Int
      /\ v.cells \subseteq Int /\ v.tags \subseteq Int
      /\ IsFiniteSet(v.cells) /\ IsFiniteSet(v.tags)
  BY VersionTypes
<1> DEFINE key(c) == <<v.uid, v.minute, c>>
<1>2. ASSUME NEW S, S \subseteq Int, IsFiniteSet(S)
      PROVE  {key(c) : c \in S} \subseteq Keys(3) /\ IsFiniteSet({key(c) : c \in S})
  <2>1. \A c \in Int : key(c) \in Keys(3)
    BY <1>1 DEF Keys
  <2> DEFINE f == [c \in S |-> key(c)]
  <2>2. {key(c) : c \in S} = {f[c] : c \in S}
    OBVIOUS
  <2> HIDE DEF f, key
  <2>3. IsFiniteSet({key(c) : c \in S})
    BY <1>2, <2>2, ImageIsFinite
  <2>. QED BY <1>2, <2>1, <2>3
<1>3. MinuteKeys(v) \subseteq Keys(2) /\ IsFiniteSet(MinuteKeys(v))
  <2>1. <<v.uid, v.minute>> \in Keys(2)
    BY <1>1 DEF Keys
  <2>2. IsFiniteSet({<<v.uid, v.minute>>})
    BY FS_Singleton
  <2>. QED BY <2>1, <2>2, FS_EmptySet DEF MinuteKeys
<1>4. CellKeys(v) \subseteq Keys(3) /\ IsFiniteSet(CellKeys(v))
  BY <1>1, <1>2, FS_EmptySet DEF CellKeys
<1>5. TagKeys(v) \subseteq Keys(3) /\ IsFiniteSet(TagKeys(v))
  BY <1>1, <1>2, FS_EmptySet DEF TagKeys
<1>6. LangKeys(v) \subseteq Keys(3) /\ IsFiniteSet(LangKeys(v))
  <2>1. <<v.uid, Day(v.minute), v.lang>> \in Keys(3)
    BY <1>1 DEF Keys
  <2>2. IsFiniteSet({<<v.uid, Day(v.minute), v.lang>>})
    BY FS_Singleton
  <2>. QED BY <2>1, <2>2, FS_EmptySet DEF LangKeys
<1>. QED BY <1>3, <1>4, <1>5, <1>6 DEF Roots, KeysOf, KeyLength

LEMMA TallyIs ==
  ASSUME NEW vs \in Seq(Versions), NEW root \in Roots
  PROVE  /\ \A k : /\ Weigh(vs, OfKey(root, k)) \in Nat
                   /\ k \in DOMAIN Tally(root, vs) <=> Weigh(vs, OfKey(root, k)) # 0
                   /\ CountOf(Tally(root, vs), k) = Weigh(vs, OfKey(root, k))
                   /\ k \in DOMAIN Tally(root, vs) => Tally(root, vs)[k] = Weigh(vs, OfKey(root, k))
         /\ IsFiniteSet(DOMAIN Tally(root, vs)) /\ DOMAIN Tally(root, vs) \subseteq Keys(KeyLength[root])
         /\ Tally(root, vs) = [k \in DOMAIN Tally(root, vs) |-> Weigh(vs, OfKey(root, k))]
<1> DEFINE T(k) == {v \in Versions : k \in KeysOf(root, v)}
           D == UNION {KeysOf(root, v) : v \in {vs[i] : i \in DOMAIN vs}}
<1>0. \A i \in DOMAIN vs : vs[i] \in Versions
  OBVIOUS
<1>1. /\ Tally(root, vs) = [k \in D |-> Cardinality({i \in DOMAIN vs : k \in KeysOf(root, vs[i])})]
      /\ \A k : k \in D <=> \E i \in DOMAIN vs : k \in KeysOf(root, vs[i])
  BY DEF Tally
<1>7. DOMAIN Tally(root, vs) = D
  BY <1>1
<1>2. ASSUME NEW k
      PROVE  /\ Weigh(vs, OfKey(root, k)) \in Nat
             /\ k \in D <=> Weigh(vs, OfKey(root, k)) # 0
             /\ Cardinality({i \in DOMAIN vs : k \in KeysOf(root, vs[i])}) = Weigh(vs, OfKey(root, k))
  <2>1. /\ Weigh(vs, Ones(Versions, T(k))) \in Nat
        /\ Weigh(vs, Ones(Versions, T(k))) = 0 <=> \A i \in DOMAIN vs : vs[i] \notin T(k)
    BY NumberZero
  <2>2. \A i \in DOMAIN vs : vs[i] \in T(k) <=> k \in KeysOf(root, vs[i])
    BY <1>0
  <2>3. Cardinality({i \in DOMAIN vs : vs[i] \in T(k)}) = Weigh(vs, Ones(Versions, T(k)))
    BY NumberIs
  <2>4. {i \in DOMAIN vs : vs[i] \in T(k)} = {i \in DOMAIN vs : k \in KeysOf(root, vs[i])}
    BY <2>2
  <2>6. OfKey(root, k) = Ones(Versions, T(k))
    BY DEF OfKey
  <2> HIDE DEF T, D
  <2>. QED BY <1>1, <2>1, <2>2, <2>3, <2>4, <2>6
<1>4. D \subseteq Keys(KeyLength[root])
  BY <1>0, <1>1, KeysOfTypes
<1>5. IsFiniteSet(D)
  <2> DEFINE f == [i \in DOMAIN vs |-> KeysOf(root, vs[i])]
             all == {f[i] : i \in DOMAIN vs}
  <2>1. IsFiniteSet(DOMAIN vs)
    BY FS_Interval
  <2>2. D = UNION all
    OBVIOUS
  <2>4. \A S \in all : IsFiniteSet(S)
    BY <1>0, KeysOfTypes
  <2> HIDE DEF f
  <2>3. IsFiniteSet(all)
    BY <2>1, ImageIsFinite
  <2> HIDE DEF all, D
  <2>. QED BY <2>2, <2>3, <2>4, FS_UNION
<1> DEFINE c(k) == Cardinality({i \in DOMAIN vs : k \in KeysOf(root, vs[i])})
           w(k) == Weigh(vs, OfKey(root, k))
<1>8. /\ Tally(root, vs) = [k \in D |-> c(k)] /\ \A k : w(k) \in Nat /\ (k \in D <=> w(k) # 0) /\ c(k) = w(k)
  BY <1>1, <1>2
<1> HIDE DEF D, c, w
<1>9. Tally(root, vs) = [k \in D |-> w(k)]
  BY <1>8
<1>10. \A k : CountOf(Tally(root, vs), k) = w(k) /\ (k \in D => Tally(root, vs)[k] = w(k))
  BY <1>7, <1>8, <1>9 DEF CountOf
<1>. QED BY <1>4, <1>5, <1>7, <1>8, <1>9, <1>10 DEF w

-----------------------------------------------------------------------------
(* The rows of the history *)

\* A table's rows with the days as keys.
DayRows == [key : Keys(2), count : Nat, flags : SUBSET Flags]

OnDay(k) == Within(DayRows, {r \in DayRows : r.key = k}, Counts(DayRows))

LEMMA BaseIs ==
  ASSUME NEW rows \in Seq(DayRows)
  PROVE  /\ DOMAIN BaseOf(rows) = {rows[i].key : i \in DOMAIN rows}
         /\ IsFiniteSet(DOMAIN BaseOf(rows)) /\ DOMAIN BaseOf(rows) \subseteq Keys(2)
         /\ \A k \in DOMAIN BaseOf(rows) :
              /\ BaseOf(rows)[k].count = Weigh(rows, OnDay(k)) /\ BaseOf(rows)[k].count \in Nat
              /\ BaseOf(rows)[k].flags = UNION {rows[i].flags : i \in {j \in DOMAIN rows : rows[j].key = k}}
              /\ BaseOf(rows)[k].flags \subseteq Flags
<1>0. \A i \in DOMAIN rows : rows[i] \in DayRows /\ rows[i].key \in Keys(2)
                             /\ rows[i].flags \subseteq Flags
  <2>1. \A i \in DOMAIN rows : rows[i] \in DayRows
    OBVIOUS
  <2>2. \A r \in DayRows : r.key \in Keys(2) /\ r.flags \subseteq Flags
    BY DEF DayRows
  <2>. QED BY <2>1, <2>2
<1>1. DOMAIN BaseOf(rows) = {rows[i].key : i \in DOMAIN rows}
  BY DEF BaseOf
<1>2. IsFiniteSet(DOMAIN BaseOf(rows))
  <2> DEFINE f == [i \in DOMAIN rows |-> rows[i].key]
  <2>1. IsFiniteSet(DOMAIN rows)
    BY FS_Interval
  <2>2. DOMAIN BaseOf(rows) = {f[i] : i \in DOMAIN rows}
    BY <1>1
  <2> HIDE DEF f
  <2>. QED BY <2>1, <2>2, ImageIsFinite
<1>3. \A r \in DayRows : Counts(DayRows)[r] \in Nat /\ Counts(DayRows)[r] \in Int
  BY DEF Counts, DayRows
<1>4. ASSUME NEW k \in DOMAIN BaseOf(rows)
      PROVE  /\ BaseOf(rows)[k].count = Weigh(rows, OnDay(k)) /\ BaseOf(rows)[k].count \in Nat
             /\ BaseOf(rows)[k].flags = UNION {rows[i].flags : i \in {j \in DOMAIN rows : rows[j].key = k}}
  <2> DEFINE I == {i \in DOMAIN rows : rows[i].key = k}
             s == At(rows, I)
             T == {r \in DayRows : r.key = k}
  <2>1. BaseOf(rows)[k] = [count |-> CountsIn(s), flags |-> UNION {s[i].flags : i \in DOMAIN s}]
    BY <1>1 DEF BaseOf
  <2>2. s \in Seq(DayRows)
    BY AtType
  <2>3. \A i \in DOMAIN rows : i \in I <=> rows[i] \in T
    BY <1>0
  <2>4. I \subseteq DOMAIN rows /\ DOMAIN rows \cap I = I
    OBVIOUS
  <2> HIDE DEF I
  <2>5. /\ \A j \in DOMAIN s : \E i \in DOMAIN rows \cap I : s[j] = rows[i]
        /\ \A i \in DOMAIN rows \cap I : \E j \in DOMAIN s : s[j] = rows[i]
    <3>1. Takes(s, rows, I)
      BY AtHas
    <3> HIDE DEF s
    <3>. QED BY <3>1 DEF Takes
  <2> HIDE DEF s
  <2>6. UNION {s[i].flags : i \in DOMAIN s} = UNION {rows[i].flags : i \in I}
    BY <2>4, <2>5
  <2>7. CountsIn(s) = Weigh(s, Counts(DayRows))
    BY <2>2, CountsInIs
  <2>8. Weigh(s, Counts(DayRows)) = Weigh(rows, Within(DayRows, T, Counts(DayRows)))
    <3> HIDE DEF T
    <3>. QED BY <1>3, <2>3, WeighAt DEF s
  <2>9. Weigh(s, Counts(DayRows)) \in Nat
    BY <1>3, <2>2, WeighNat
  <2>10. OnDay(k) = Within(DayRows, T, Counts(DayRows))
    BY DEF OnDay
  <2> HIDE DEF T
  <2>11. /\ BaseOf(rows)[k].count = CountsIn(s)
         /\ BaseOf(rows)[k].flags = UNION {s[i].flags : i \in DOMAIN s}
    BY <2>1
  <2>12. BaseOf(rows)[k].count = Weigh(rows, OnDay(k)) /\ BaseOf(rows)[k].count \in Nat
    BY <2>7, <2>8, <2>9, <2>10, <2>11
  <2>13. BaseOf(rows)[k].flags = UNION {rows[i].flags : i \in {j \in DOMAIN rows : rows[j].key = k}}
    BY <2>6, <2>11 DEF I
  <2>. QED BY <2>12, <2>13
<1>5. \A k \in DOMAIN BaseOf(rows) : BaseOf(rows)[k].flags \subseteq Flags
  BY <1>0, <1>4
<1>. QED BY <1>0, <1>1, <1>2, <1>4, <1>5

\* A table with one row a day is its own base.
LEMMA BaseOfOneRowADay ==
  ASSUME NEW rows \in Seq(DayRows), OneRowADay(rows), NEW i \in DOMAIN rows
  PROVE  /\ rows[i].key \in DOMAIN BaseOf(rows)
         /\ BaseOf(rows)[rows[i].key].count = rows[i].count
         /\ BaseOf(rows)[rows[i].key].flags = rows[i].flags
<1> DEFINE k == rows[i].key
           g == OnDay(k)
<1>0. \A j \in DOMAIN rows : rows[j] \in DayRows
  OBVIOUS
<1>1. \A r \in DayRows : g[r] = (IF r.key = k THEN r.count ELSE 0) /\ g[r] \in Int
  BY DEF OnDay, Within, Counts, DayRows
<1>2. \A j \in DOMAIN rows \ {i} : g[rows[j]] = 0
  BY <1>0, <1>1 DEF OneRowADay
<1>3. g[rows[i]] = rows[i].count
  BY <1>0, <1>1
<1>4. k \in DOMAIN BaseOf(rows)
  BY BaseIs
<1>5. BaseOf(rows)[k].flags = UNION {rows[j].flags : j \in {h \in DOMAIN rows : rows[h].key = k}}
  BY <1>4, BaseIs
<1>6. {h \in DOMAIN rows : rows[h].key = k} = {i}
  BY DEF OneRowADay
<1>7. BaseOf(rows)[k].count = Weigh(rows, g)
  BY <1>4, BaseIs
<1>8. BaseOf(rows)[k].flags = rows[i].flags
  BY <1>5, <1>6
<1> HIDE DEF g
<1>9. Weigh(rows, g) = g[rows[i]]
  BY <1>1, <1>2, WeighOnly
<1>. QED BY <1>3, <1>4, <1>7, <1>8, <1>9

-----------------------------------------------------------------------------
(* The stage files of the import *)

\* One version more for the accumulator.
Taking(was, v) ==
  IF Cardinality(DOMAIN DayCounts(Append(was.open, v))) >= FlushRows
  THEN [files |-> Append(was.files, Append(was.open, v)), open |-> <<>>]
  ELSE [was EXCEPT !.open = Append(was.open, v)]

Accumulates(acc, vs) ==
  acc = [n \in 0..Len(vs) |->
           IF n = 0 THEN [files |-> <<>>, open |-> <<>>] ELSE Taking(acc[n - 1], vs[n])]

LEMMA FlushedIsChosen ==
  ASSUME NEW vs PROVE Flushed(vs) = (CHOOSE acc : Accumulates(acc, vs))[Len(vs)]
BY DEF Flushed, Accumulates, Taking

LEMMA AccumulatesExists ==
  ASSUME NEW vs, Len(vs) \in Nat PROVE \E acc : Accumulates(acc, vs)
<1> DEFINE none == [files |-> <<>>, open |-> <<>>]
           upTo(t, m) == /\ t = [n \in 0..m |-> t[n]]
                         /\ t[0] = none
                         /\ \A n \in 1..m : t[n] = Taking(t[n - 1], vs[n])
           Has == {m \in Nat : \E t : upTo(t, m)}
<1> HIDE DEF none
<1>1. 0 \in Has
  <2>1. upTo([n \in 0..0 |-> none], 0)
    OBVIOUS
  <2>. QED BY <2>1
<1>2. ASSUME NEW m \in Nat, m \in Has PROVE m + 1 \in Has
  <2>1. PICK t : upTo(t, m)
    BY <1>2
  <2> DEFINE u == [n \in 0..(m + 1) |-> IF n <= m THEN t[n] ELSE Taking(t[n - 1], vs[n])]
  <2>2. upTo(u, m + 1)
    BY <2>1
  <2> HIDE DEF upTo, u
  <2>. QED BY <2>2
<1>3. Nat \subseteq Has
  <2> HIDE DEF Has
  <2>. QED BY <1>1, <1>2, NaturalsBySteps
<1>4. PICK t : upTo(t, Len(vs))
  BY <1>3
<1>5. \A n \in 0..Len(vs) : t[n] = (IF n = 0 THEN none ELSE Taking(t[n - 1], vs[n]))
  BY <1>4
<1>6. t = [n \in 0..Len(vs) |-> t[n]]
  BY <1>4
<1>7. Accumulates(t, vs)
  BY <1>5, <1>6 DEF Accumulates, none
<1>. QED BY <1>7

\* What is written and what is left are the versions, in their order.
LEMMA FlushedKeeps ==
  ASSUME NEW vs \in Seq(Versions)
  PROVE  /\ Flushed(vs).files \in Seq(Seq(Versions)) /\ Flushed(vs).open \in Seq(Versions)
         /\ FlattenSeq(Flushed(vs).files) \o Flushed(vs).open = vs
<1> DEFINE t == CHOOSE acc : Accumulates(acc, vs)
           Shapes == [files : Seq(Seq(Versions)), open : Seq(Versions)]
           ok(n) == t[n] \in Shapes /\ FlattenSeq(t[n].files) \o t[n].open = SubSeq(vs, 1, n)
           Has == {n \in Nat : n <= Len(vs) => ok(n)}
<1>0. Len(vs) \in Nat
  OBVIOUS
<1>1. Accumulates(t, vs)
  BY <1>0, AccumulatesExists
<1>2. Flushed(vs) = t[Len(vs)]
  BY FlushedIsChosen
<1> HIDE DEF t
<1>3. /\ t[0] = [files |-> <<>>, open |-> <<>>]
      /\ \A n \in 1..Len(vs) : t[n] = Taking(t[n - 1], vs[n])
  <2>1. \A n \in 0..Len(vs) : t[n] = (IF n = 0 THEN [files |-> <<>>, open |-> <<>>] ELSE Taking(t[n - 1], vs[n]))
    BY <1>1 DEF Accumulates
  <2>. QED BY <1>0, <2>1
<1>4. 0 \in Has
  <2>1. <<>> \in Seq(Versions) /\ <<>> \in Seq(Seq(Versions)) /\ SubSeq(vs, 1, 0) = <<>> /\ <<>> \o <<>> = <<>>
    OBVIOUS
  <2>3. t[0].files = <<>> /\ t[0].open = <<>> /\ t[0] \in Shapes
    BY <1>3, <2>1
  <2>4. FlattenSeq(t[0].files) \o t[0].open = <<>>
    BY <2>1, <2>3, FlattenEmpty
  <2>2. ok(0)
    BY <2>1, <2>3, <2>4
  <2> HIDE DEF ok
  <2>. QED BY <2>2
<1> HIDE DEF ok, Shapes
<1>5. ASSUME NEW n \in Nat, n \in Has PROVE n + 1 \in Has
  <2>0. n + 1 \in Nat
    OBVIOUS
  <2> SUFFICES ASSUME n + 1 <= Len(vs) PROVE ok(n + 1)
    BY <2>0
  <2> DEFINE was == t[n]
             v == vs[n + 1]
             open == Append(was.open, v)
  <2>1. n + 1 \in 1..Len(vs) /\ (n + 1) - 1 = n /\ n <= Len(vs) /\ v \in Versions
    BY <1>0
  <2>2. was \in Shapes /\ FlattenSeq(was.files) \o was.open = SubSeq(vs, 1, n)
    BY <1>5, <2>1 DEF ok
  <2>3. t[n + 1] = Taking(was, v)
    BY <1>3, <2>1
  <2>4. SubSeq(vs, 1, n + 1) = Append(SubSeq(vs, 1, n), v)
    BY <2>1
  <2>5. was.files \in Seq(Seq(Versions)) /\ was.open \in Seq(Versions)
    BY <2>2 DEF Shapes
  <2> HIDE DEF was, v
  <2>6. FlattenSeq(was.files) \in Seq(Versions)
    BY <2>5, FlattenType
  <2>7. open \in Seq(Versions) /\ FlattenSeq(was.files) \o open = Append(FlattenSeq(was.files) \o was.open, v)
    <3>1. v \in Versions /\ was.open \in Seq(Versions)
      BY <2>1, <2>5
    <3>2. Append(was.open, v) \in Seq(Versions)
      BY <3>1, <2>6, ConcatAppend, Zenon
    <3>3. FlattenSeq(was.files) \o Append(was.open, v) = Append(FlattenSeq(was.files) \o was.open, v)
      <4> DEFINE F == FlattenSeq(was.files)
                 o == was.open
      <4>1. F \in Seq(Versions) /\ o \in Seq(Versions)
        BY <3>1, <2>6
      <4> HIDE DEF F, o
      <4>2. F \o Append(o, v) = Append(F \o o, v)
        BY <3>1, <4>1, ConcatAppend
      <4>. QED BY <4>2 DEF F, o
    <3>. QED BY <3>2, <3>3
  <2>8. FlattenSeq(was.files) \o open = SubSeq(vs, 1, n + 1)
    BY <2>2, <2>4, <2>7
  <2>9. CASE Cardinality(DOMAIN DayCounts(open)) >= FlushRows
    <3>1. t[n + 1] = [files |-> Append(was.files, open), open |-> <<>>]
      BY <2>3, <2>9 DEF Taking
    <3>2. FlattenSeq(Append(was.files, open)) = FlattenSeq(was.files) \o open
      BY <2>5, <2>7, FlattenAppend
    <3>3. (FlattenSeq(was.files) \o open) \o <<>> = FlattenSeq(was.files) \o open
      BY <2>6, <2>7
    <3>4. Append(was.files, open) \in Seq(Seq(Versions)) /\ <<>> \in Seq(Versions)
      BY <2>5, <2>7
    <3> HIDE DEF open
    <3>5. t[n + 1] \in Shapes
      BY <3>1, <3>4 DEF Shapes
    <3>6. FlattenSeq(t[n + 1].files) \o t[n + 1].open = SubSeq(vs, 1, n + 1)
      BY <2>8, <3>1, <3>2, <3>3
    <3>. QED BY <3>5, <3>6 DEF ok
  <2>10. CASE ~(Cardinality(DOMAIN DayCounts(open)) >= FlushRows)
    <3>1. t[n + 1] = [was EXCEPT !.open = open]
      BY <2>3, <2>10 DEF Taking
    <3>2. was = [files |-> was.files, open |-> was.open]
      BY <2>2 DEF Shapes
    <3>3. t[n + 1] = [files |-> was.files, open |-> open]
      BY <3>1, <3>2
    <3> HIDE DEF open
    <3>5. t[n + 1] \in Shapes
      BY <2>5, <2>7, <3>3 DEF Shapes
    <3>6. FlattenSeq(t[n + 1].files) \o t[n + 1].open = SubSeq(vs, 1, n + 1)
      BY <2>8, <3>3
    <3>. QED BY <3>5, <3>6 DEF ok
  <2>. QED BY <2>9, <2>10
<1>6. Nat \subseteq Has
  <2> HIDE DEF Has
  <2>. QED BY <1>4, <1>5, NaturalsBySteps
<1>7. ok(Len(vs))
  BY <1>0, <1>6
<1>8. SubSeq(vs, 1, Len(vs)) = vs
  OBVIOUS
<1>9. t[Len(vs)] \in Shapes /\ FlattenSeq(t[Len(vs)].files) \o t[Len(vs)].open = vs
  BY <1>7, <1>8, Zenon DEF ok
<1>10. t[Len(vs)].files \in Seq(Seq(Versions)) /\ t[Len(vs)].open \in Seq(Versions)
  BY <1>9 DEF Shapes
<1>. QED BY <1>2, <1>9, <1>10

LEMMA StageFilesKeep ==
  ASSUME NEW vs \in Seq(Versions)
  PROVE  StageFiles(vs) \in Seq(Seq(Versions)) /\ FlattenSeq(StageFiles(vs)) = vs
<1> DEFINE files == Flushed(vs).files
           open == Flushed(vs).open
<1>1. files \in Seq(Seq(Versions)) /\ open \in Seq(Versions) /\ FlattenSeq(files) \o open = vs
  BY FlushedKeeps
<1>2. StageFiles(vs) = IF open = <<>> THEN files ELSE Append(files, open)
  BY DEF StageFiles
<1> HIDE DEF files, open
<1>3. FlattenSeq(files) \in Seq(Versions) /\ FlattenSeq(Append(files, open)) = FlattenSeq(files) \o open
  BY <1>1, FlattenType, FlattenAppend
<1>4. FlattenSeq(files) \o <<>> = FlattenSeq(files) /\ Append(files, open) \in Seq(Seq(Versions))
  BY <1>1, <1>3
<1>5. CASE open = <<>>
  <2>1. vs = FlattenSeq(files)
    BY <1>1, <1>4, <1>5
  <2>. QED BY <1>1, <1>2, <1>5, <2>1
<1>6. CASE open # <<>>
  BY <1>1, <1>2, <1>3, <1>4, <1>6
<1>. QED BY <1>5, <1>6

-----------------------------------------------------------------------------
(* The rows the import writes *)

Slots(files) == UNION {{<<k[1], k[2], f>> : k \in DOMAIN DayCounts(files[f])} : f \in DOMAIN files}

RowAt(files, s) == [key |-> <<s[1], s[2]>>, count |-> DayCounts(files[s[3]])[<<s[1], s[2]>>], flags |-> {}]

LEMMA SlotsAre ==
  ASSUME NEW files \in Seq(Seq(Versions))
  PROVE  /\ IsFiniteSet(Slots(files)) /\ Slots(files) \subseteq Keys(3)
         /\ \A s \in Slots(files) : /\ s[3] \in DOMAIN files /\ <<s[1], s[2]>> \in DOMAIN DayCounts(files[s[3]])
                                    /\ <<s[1], s[2]>> \in Keys(2) /\ RowAt(files, s) \in DayRows
         /\ \A f \in DOMAIN files : \A k \in DOMAIN DayCounts(files[f]) :
              /\ <<k[1], k[2], f>> \in Slots(files) /\ k = <<k[1], k[2]>>
<1> DEFINE part(f) == {<<k[1], k[2], f>> : k \in DOMAIN DayCounts(files[f])}
           g == [f \in DOMAIN files |-> part(f)]
           all == {g[f] : f \in DOMAIN files}
<1>1. \A f \in DOMAIN files : files[f] \in Seq(Versions) /\ f \in Int
  OBVIOUS
<1>2. \A f \in DOMAIN files : IsFiniteSet(DOMAIN DayCounts(files[f])) /\ DOMAIN DayCounts(files[f]) \subseteq Keys(2)
  BY <1>1, DayCountsAre
<1>3. \A k \in Keys(2) : k = <<k[1], k[2]>> /\ k[1] \in Int /\ k[2] \in Int
  BY PairsAre
<1>4. \A k \in Keys(2) : \A f \in Int : <<k[1], k[2], f>> \in Keys(3)
  BY <1>3 DEF Keys
<1>5. Slots(files) = UNION all
  BY DEF Slots
<1>6. \A f \in DOMAIN files : IsFiniteSet(part(f))
  <2> TAKE f \in DOMAIN files
  <2> DEFINE D == DOMAIN DayCounts(files[f])
             h == [k \in D |-> <<k[1], k[2], f>>]
  <2>1. part(f) = {h[k] : k \in D}
    OBVIOUS
  <2>2. IsFiniteSet(D)
    BY <1>2
  <2> HIDE DEF h, D
  <2>. QED BY <2>1, <2>2, ImageIsFinite
<1>7. IsFiniteSet(Slots(files))
  <2>1. IsFiniteSet(DOMAIN files)
    BY FS_Interval
  <2>2. \A S \in all : IsFiniteSet(S)
    BY <1>6
  <2> HIDE DEF g
  <2>3. IsFiniteSet(all)
    BY <2>1, ImageIsFinite
  <2> HIDE DEF all
  <2>. QED BY <1>5, <2>2, <2>3, FS_UNION
<1>8. ASSUME NEW s \in Slots(files)
      PROVE  /\ s \in Keys(3) /\ s[3] \in DOMAIN files /\ <<s[1], s[2]>> \in DOMAIN DayCounts(files[s[3]])
             /\ <<s[1], s[2]>> \in Keys(2) /\ RowAt(files, s) \in DayRows
  <2>a. PICK f \in DOMAIN files : s \in part(f)
    BY <1>5
  <2>1. PICK k \in DOMAIN DayCounts(files[f]) : s = <<k[1], k[2], f>>
    BY <2>a
  <2>2. k \in Keys(2) /\ k = <<k[1], k[2]>> /\ s \in Keys(3)
    BY <1>1, <1>2, <1>3, <1>4, <2>1
  <2>3. s[1] = k[1] /\ s[2] = k[2] /\ s[3] = f
    BY <2>1
  <2>4. <<s[1], s[2]>> = k
    BY <2>2, <2>3
  <2>5. DayCounts(files[f])[k] \in Nat
    BY <1>1, <2>1, DayCountsAre
  <2>6. RowAt(files, s) = [key |-> k, count |-> DayCounts(files[f])[k], flags |-> {}]
    BY <2>3, <2>4 DEF RowAt
  <2>7. RowAt(files, s) \in DayRows
    BY <2>2, <2>5, <2>6 DEF DayRows
  <2>. QED BY <2>1, <2>2, <2>3, <2>4, <2>7
<1>9. \A f \in DOMAIN files : \A k \in DOMAIN DayCounts(files[f]) :
        <<k[1], k[2], f>> \in Slots(files) /\ k = <<k[1], k[2]>>
  BY <1>2, <1>3 DEF Slots
<1>. QED BY <1>7, <1>8, <1>9

LEMMA RowsOfAre ==
  ASSUME NEW files \in Seq(Seq(Versions))
  PROVE  /\ RowsOf(files) \in Seq(DayRows)
         /\ \A r \in DayRows : (\E i \in DOMAIN RowsOf(files) : RowsOf(files)[i] = r)
                               <=> \E s \in Slots(files) : r = RowAt(files, s)
         /\ \A g : (\A r \in DayRows : g[r] \in Int) =>
              Weigh(RowsOf(files), g)
                = SumFunctionOnSet([s \in Slots(files) |-> g[RowAt(files, s)]], Slots(files))
<1> DEFINE S == Slots(files)
           order == KeyRanked(S)
           n == Cardinality(S)
           rows == RowsOf(files)
<1>1. IsFiniteSet(S) /\ S \subseteq Keys(3) /\ \A s \in S : RowAt(files, s) \in DayRows
  BY SlotsAre
<1>2. RowsOf(files) = [i \in DOMAIN order |-> RowAt(files, order[i])]
  BY DEF RowsOf, Slots, RowAt, InOrder, KeyRanked
<1> HIDE DEF S
<1>a. order = KeyRanked(S) /\ n = Cardinality(S)
  OBVIOUS
<1> HIDE DEF order
<1>3. /\ order \in [1..n -> S] /\ n \in Nat
      /\ \A i, j \in 1..n : order[i] = order[j] => i = j
      /\ \A x \in S : \E i \in 1..n : order[i] = x
  <2> DEFINE three == 3
  <2>1. three \in Nat /\ S \subseteq Keys(three)
    BY <1>1
  <2> HIDE DEF three
  <2>2. KeyListed(order, S)
    BY <1>1, <1>a, <2>1, KeysInOrder
  <2>. QED BY <1>a, <2>2 DEF KeyListed
<1> HIDE DEF n
<1>4. rows = [i \in 1..n |-> RowAt(files, order[i])]
  BY <1>2, <1>3
<1> HIDE DEF rows
<1>5. rows \in Seq(DayRows) /\ DOMAIN rows = 1..n
  BY <1>1, <1>3, <1>4
<1>6. \A r \in DayRows : (\E i \in DOMAIN rows : rows[i] = r) <=> \E s \in S : r = RowAt(files, s)
  BY <1>3, <1>4, <1>5
<1>7. ASSUME NEW g, \A r \in DayRows : g[r] \in Int
      PROVE  Weigh(rows, g) = SumFunctionOnSet([s \in S |-> g[RowAt(files, s)]], S)
  <2> DEFINE f == [i \in DOMAIN rows |-> g[rows[i]]]
             c == [s \in S |-> g[RowAt(files, s)]]
  <2>1. Renames(order, 1..n, S)
    BY <1>3 DEF Renames
  <2>2. \A i \in 1..n : f[i] \in Int /\ f[i] = c[order[i]]
    BY <1>1, <1>3, <1>4, <1>5, <1>7
  <2>3. IsFiniteSet(1..n)
    BY <1>3, FS_Interval
  <2>4. Weigh(rows, g) = SumFunctionOnSet(f, 1..n)
    BY <1>5 DEF Weigh
  <2> DEFINE I == 1..n
  <2> HIDE DEF f, c
  <2>5. Renames(order, I, S) /\ IsFiniteSet(I) /\ \A i \in I : f[i] \in Int /\ f[i] = c[order[i]]
    BY <2>1, <2>2, <2>3
  <2> HIDE DEF I
  <2>6. SumFunctionOnSet(f, I) = SumFunctionOnSet(c, S)
    BY <2>5, SumRenamed
  <2>. QED BY <2>4, <2>6 DEF c, I
<1>. QED BY <1>5, <1>6, <1>7 DEF rows, S

-----------------------------------------------------------------------------

\* The base that the import leaves has the days of the stage files together.
LEMMA BaseOfRows ==
  ASSUME NEW files \in Seq(Seq(Versions)), NEW k
  PROVE  /\ k \in DOMAIN BaseOf(RowsOf(files)) <=> Weigh(FlattenSeq(files), OfDay(k)) # 0
         /\ k \in DOMAIN BaseOf(RowsOf(files)) =>
              /\ BaseOf(RowsOf(files))[k].count = Weigh(FlattenSeq(files), OfDay(k))
              /\ BaseOf(RowsOf(files))[k].flags = {}
<1> DEFINE S == Slots(files)
           rows == RowsOf(files)
           c == [s \in S |-> OnDay(k)[RowAt(files, s)]]
           R == {s \in S : <<s[1], s[2]>> = k}
           F == DOMAIN files
           e == [f \in F |-> Weigh(files[f], OfDay(k))]
           Fk == {f \in F : k \in DOMAIN DayCounts(files[f])}
           h == [s \in R |-> s[3]]
           w == [r \in Seq(Versions) |-> Weigh(r, OfDay(k))]
<1>1. IsFiniteSet(S) /\ IsFiniteSet(R) /\ R \in SUBSET S
  <2>1. IsFiniteSet(S)
    BY SlotsAre
  <2>. QED BY <2>1, FS_Subset
<1>2. /\ \A s \in S : /\ s[3] \in F /\ <<s[1], s[2]>> \in DOMAIN DayCounts(files[s[3]])
                      /\ RowAt(files, s) \in DayRows /\ s \in Keys(3)
      /\ \A f \in F : \A l \in DOMAIN DayCounts(files[f]) : <<l[1], l[2], f>> \in S /\ l = <<l[1], l[2]>>
  BY SlotsAre
<1>3. \A f \in F : /\ e[f] \in Nat /\ files[f] \in Seq(Versions)
                   /\ f \in Fk <=> e[f] # 0
                   /\ f \in Fk => DayCounts(files[f])[k] = e[f]
  <2> TAKE f \in F
  <2>1. files[f] \in Seq(Versions)
    OBVIOUS
  <2>. QED BY <2>1, DayCountsAre
<1>4. \A s \in S : /\ RowAt(files, s).key = <<s[1], s[2]>> /\ RowAt(files, s).flags = {}
                   /\ RowAt(files, s).count = DayCounts(files[s[3]])[<<s[1], s[2]>>]
  BY DEF RowAt
<1>5. \A s \in S : c[s] = IF s \in R THEN e[s[3]] ELSE 0
  <2> TAKE s \in S
  <2>1. OnDay(k)[RowAt(files, s)] = IF RowAt(files, s).key = k THEN RowAt(files, s).count ELSE 0
    BY <1>2 DEF OnDay, Within, Counts
  <2>2. s[3] \in F
    BY <1>2
  <2>3. CASE s \in R
    <3>1. <<s[1], s[2]>> = k /\ s[3] \in Fk
      BY <1>2, <2>3
    <3>2. c[s] = DayCounts(files[s[3]])[k]
      BY <1>4, <2>1, <3>1
    <3>. QED BY <1>3, <2>2, <2>3, <3>1, <3>2
  <2>4. CASE s \notin R
    BY <1>4, <2>1, <2>4
  <2>. QED BY <2>3, <2>4
<1>6. /\ rows \in Seq(DayRows)
      /\ \A r \in DayRows : (\E i \in DOMAIN rows : rows[i] = r) <=> \E s \in S : r = RowAt(files, s)
      /\ \A g : (\A r \in DayRows : g[r] \in Int) =>
           Weigh(rows, g) = SumFunctionOnSet([s \in S |-> g[RowAt(files, s)]], S)
  BY RowsOfAre
<1>7. \A r \in DayRows : OnDay(k)[r] \in Int
  BY DEF OnDay, Within, Counts, DayRows
<1>8. Weigh(rows, OnDay(k)) = SumFunctionOnSet(c, S)
  BY <1>6, <1>7
<1>9. Renames(h, R, Fk)
  <2>1. \A s \in R : h[s] = s[3] /\ s[3] \in Fk /\ s[1] = k[1] /\ s[2] = k[2] /\ s \in Keys(3)
    BY <1>2
  <2>2. \A x, y \in R : h[x] = h[y] => x = y
    <3> SUFFICES ASSUME NEW x \in R, NEW y \in R, h[x] = h[y] PROVE x = y
      OBVIOUS
    <3>1. x[1] = y[1] /\ x[2] = y[2] /\ x[3] = y[3] /\ x \in Keys(3) /\ y \in Keys(3)
      <4> HIDE DEF h, R, Fk
      <4>. QED BY <2>1
    <3>2. x \in Seq(Int) /\ y \in Seq(Int) /\ Len(x) = 3 /\ Len(y) = 3
      BY <3>1 DEF Keys
    <3>3. \A i \in 1..Len(x) : x[i] = y[i]
      <4>1. \A i \in 1..3 : i = 1 \/ i = 2 \/ i = 3
        OBVIOUS
      <4>. QED BY <3>1, <3>2, <4>1
    <3>. QED BY <3>2, <3>3, SeqEqual
  <2>3. \A z \in Fk : \E x \in R : h[x] = z
    <3> SUFFICES ASSUME NEW z \in Fk PROVE \E x \in R : h[x] = z
      OBVIOUS
    <3> DEFINE x == <<k[1], k[2], z>>
    <3>1. x \in S /\ k = <<k[1], k[2]>>
      BY <1>2
    <3>2. x[1] = k[1] /\ x[2] = k[2] /\ x[3] = z
      OBVIOUS
    <3> HIDE DEF x
    <3>3. x \in R
      BY <3>1, <3>2
    <3>. QED BY <3>2, <3>3
  <2>. QED BY <2>1, <2>2, <2>3 DEF Renames
<1>10. \A s \in R : c[s] \in Int /\ c[s] = e[h[s]] /\ s[3] \in F
  <2>1. \A s \in R : h[s] = s[3]
    OBVIOUS
  <2> HIDE DEF c, e, h, S, R, F, Fk
  <2>a. \A f \in F : e[f] \in Nat
    BY <1>3
  <2>b. \A s \in S : s[3] \in F
    BY <1>2
  <2>2. \A s \in S : e[s[3]] \in Int /\ s[3] \in F
    BY <2>a, <2>b
  <2>3. \A s \in R : s \in S /\ c[s] = e[s[3]]
    BY <1>1, <1>5
  <2>. QED BY <2>1, <2>2, <2>3
<1>11. \A s \in S : c[s] \in Int /\ (s \notin R => c[s] = 0)
  <2> HIDE DEF c, e, S, R, F, Fk
  <2>a. \A f \in F : e[f] \in Nat
    BY <1>3
  <2>b. \A s \in S : s[3] \in F
    BY <1>2
  <2>2. \A s \in S : e[s[3]] \in Int
    BY <2>a, <2>b
  <2>. QED BY <1>5, <2>2
<1>12. IsFiniteSet(F) /\ Fk \in SUBSET F /\ \A f \in F : e[f] \in Int /\ (f \notin Fk => e[f] = 0)
  <2>1. IsFiniteSet(F)
    BY FS_Interval
  <2>. QED BY <1>3, <2>1
<1>13. w \in [Seq(Versions) -> Nat] /\ \A r \in Seq(Versions) : w[r] = Weigh(r, OfDay(k))
  <2>1. \A r \in Seq(Versions) : Weigh(r, OfDay(k)) \in Nat
    BY DayCountsAre
  <2>. QED BY <2>1
<1>14. [f \in DOMAIN files |-> w[files[f]]] = e
  <2> HIDE DEF w
  <2>. QED BY <1>3, <1>13
<1>15. Weigh(files, w) = SumFunctionOnSet(e, F)
  BY <1>14 DEF Weigh
<1>16. \A v \in Versions : OfDay(k)[v] \in Int
  BY DEF OfDay, Ones
<1>17. Weigh(FlattenSeq(files), OfDay(k)) = Weigh(files, w)
  <2> HIDE DEF w
  <2>. QED BY <1>13, <1>16, WeighFlatten
<1>18. (\E i \in DOMAIN rows : rows[i].key = k) <=> R # {}
  <2>1. ASSUME NEW i \in DOMAIN rows, rows[i].key = k PROVE R # {}
    <3>1. rows[i] \in DayRows
      BY <1>6
    <3>2. PICK s \in S : rows[i] = RowAt(files, s)
      BY <1>6, <3>1
    <3>. QED BY <1>4, <2>1, <3>2
  <2>2. ASSUME NEW s \in R PROVE \E i \in DOMAIN rows : rows[i].key = k
    <3>1. RowAt(files, s) \in DayRows /\ RowAt(files, s).key = k
      BY <1>2, <1>4
    <3>2. PICK i \in DOMAIN rows : rows[i] = RowAt(files, s)
      BY <1>6, <3>1
    <3>. QED BY <3>1, <3>2
  <2>. QED BY <2>1, <2>2
<1>19. /\ DOMAIN BaseOf(rows) = {rows[i].key : i \in DOMAIN rows}
       /\ \A l \in DOMAIN BaseOf(rows) :
            /\ BaseOf(rows)[l].count = Weigh(rows, OnDay(l))
            /\ BaseOf(rows)[l].flags = UNION {rows[i].flags : i \in {j \in DOMAIN rows : rows[j].key = l}}
  BY <1>6, BaseIs
<1>20. \A i \in DOMAIN rows : rows[i].flags = {}
  <2> TAKE i \in DOMAIN rows
  <2>1. rows[i] \in DayRows
    BY <1>6
  <2>2. PICK s \in S : rows[i] = RowAt(files, s)
    BY <1>6, <2>1
  <2>. QED BY <1>4, <2>2
<1>21. R # {} <=> Fk # {}
  BY <1>9 DEF Renames
<1> HIDE DEF c, e, h, S, R, F, Fk, w, rows
<1>22. SumFunctionOnSet(c, S) = SumFunctionOnSet(c, R)
  BY <1>1, <1>11, SumInside
<1>23. SumFunctionOnSet(c, R) = SumFunctionOnSet(e, Fk)
  BY <1>1, <1>9, <1>10, SumRenamed
<1>24. SumFunctionOnSet(e, F) = SumFunctionOnSet(e, Fk)
  BY <1>12, SumInside
<1>25. SumFunctionOnSet(e, F) # 0 <=> Fk # {}
  <2>1. \A f \in F : e[f] \in Nat
    BY <1>3
  <2>2. SumFunctionOnSet(e, F) = 0 <=> \A f \in F : e[f] = 0
    BY <1>12, <2>1, SumPositive
  <2>. QED BY <1>3, <1>12, <2>2
<1>26. k \in DOMAIN BaseOf(rows) <=> Weigh(FlattenSeq(files), OfDay(k)) # 0
  BY <1>15, <1>17, <1>18, <1>19, <1>21, <1>25
<1>27. k \in DOMAIN BaseOf(rows) => BaseOf(rows)[k].count = Weigh(FlattenSeq(files), OfDay(k))
  BY <1>8, <1>15, <1>17, <1>19, <1>22, <1>23, <1>24
<1>28. k \in DOMAIN BaseOf(rows) => BaseOf(rows)[k].flags = {}
  <2>1. UNION {rows[i].flags : i \in {j \in DOMAIN rows : rows[j].key = k}} = {}
    BY <1>20
  <2>. QED BY <1>19, <2>1
<1>. QED BY <1>26, <1>27, <1>28 DEF rows

-----------------------------------------------------------------------------
(* The table a run writes *)

\* One row for every key of D, in order.
LEMMA RowsByKey ==
  ASSUME NEW D, IsFiniteSet(D), D \subseteq Keys(2), NEW m, \A k \in D : m[k] \in DayRows /\ m[k].key = k,
         NEW rows, rows = [i \in DOMAIN KeyRanked(D) |-> m[KeyRanked(D)[i]]]
  PROVE  /\ rows \in Seq(DayRows) /\ OneRowADay(rows) /\ DOMAIN BaseOf(rows) = D
         /\ \A k \in D : BaseOf(rows)[k].count = m[k].count /\ BaseOf(rows)[k].flags = m[k].flags
<1> DEFINE f == KeyRanked(D)
           n == Cardinality(D)
<1>1. KeyListed(f, D)
  <2> DEFINE two == 2
  <2>1. two \in Nat /\ D \subseteq Keys(two)
    OBVIOUS
  <2> HIDE DEF two
  <2>. QED BY <2>1, KeysInOrder
<1>2. rows = [i \in DOMAIN f |-> m[f[i]]]
  OBVIOUS
<1> HIDE DEF f
<1>3. /\ f \in [1..n -> D] /\ n \in Nat
      /\ \A i, j \in 1..n : f[i] = f[j] => i = j
      /\ \A x \in D : \E i \in 1..n : f[i] = x
  BY <1>1 DEF KeyListed
<1> HIDE DEF n
<1>4. DOMAIN rows = 1..n /\ \A i \in 1..n : rows[i] = m[f[i]] /\ f[i] \in D
  BY <1>2, <1>3
<1>5. \A i \in 1..n : rows[i] \in DayRows /\ rows[i].key = f[i]
  BY <1>4
<1>6. rows \in Seq(DayRows)
  <2>1. rows = [i \in 1..n |-> m[f[i]]]
    BY <1>2, <1>3
  <2>2. rows \in [1..n -> DayRows]
    BY <1>4, <1>5, <2>1
  <2>. QED BY <1>3, <2>2
<1>7. OneRowADay(rows)
  BY <1>3, <1>4, <1>5 DEF OneRowADay
<1>8. DOMAIN BaseOf(rows) = {rows[i].key : i \in DOMAIN rows}
  BY <1>6, BaseIs
<1>9. DOMAIN BaseOf(rows) = D
  <2>1. \A k \in D : \E i \in DOMAIN rows : rows[i].key = k
    BY <1>3, <1>4, <1>5
  <2>2. \A i \in DOMAIN rows : rows[i].key \in D
    BY <1>4, <1>5
  <2>3. {rows[i].key : i \in DOMAIN rows} = D
    BY <2>1, <2>2, Zenon
  <2>. QED BY <1>8, <2>3
<1>10. ASSUME NEW k \in D
       PROVE  BaseOf(rows)[k].count = m[k].count /\ BaseOf(rows)[k].flags = m[k].flags
  <2>1. PICK i \in 1..n : f[i] = k
    BY <1>3
  <2>2. rows[i].key = k /\ rows[i] = m[k] /\ i \in DOMAIN rows
    BY <1>4, <1>5, <2>1
  <2>3. /\ BaseOf(rows)[rows[i].key].count = rows[i].count
        /\ BaseOf(rows)[rows[i].key].flags = rows[i].flags
    BY <1>6, <1>7, <2>2, BaseOfOneRowADay
  <2>. QED BY <2>2, <2>3
<1>. QED BY <1>6, <1>7, <1>9, <1>10

LEMMA BaseIsBaseOf == Base = BaseOf(BaseRows)
BY DEF Base, BaseOf

\* A table of day rows is there.
LEMMA RowsAreThere == Absent \notin Seq(DayRows)
<1>1. DayRows \subseteq HistoryRows
  BY DEF DayRows, HistoryRows, Keys
<1>2. Seq(DayRows) \subseteq Seq(HistoryRows)
  BY <1>1, SeqMonotonic
<1>. QED BY <1>2, AbsentIsNoTable

\* What a merged row is made of, by a base and a delta of days.
LEMMA MergedRowIs ==
  ASSUME NEW base, NEW delta, NEW k, k \in DOMAIN base \cup DOMAIN delta, k \in Keys(2),
         k \in DOMAIN base => base[k].count \in Nat /\ base[k].flags \subseteq Flags,
         CountOf(delta, k) \in Nat, k \in DOMAIN delta => CountOf(delta, k) = delta[k]
  PROVE  /\ MergedRow(base, delta, FlagDays, k) \in DayRows
         /\ MergedRow(base, delta, FlagDays, k).key = k
         /\ MergedRow(base, delta, FlagDays, k).count
              = (IF k \in DOMAIN base THEN base[k].count ELSE 0) + CountOf(delta, k)
         /\ MergedRow(base, delta, FlagDays, k).flags
              = (IF k \in DOMAIN base THEN base[k].flags ELSE NewDayFlags(k)) \cup DayFlags(FlagDays, k)
<1> DEFINE was == IF k \in DOMAIN base THEN base[k].count ELSE 0
           count == was + CountOf(delta, k)
           flags == (IF k \in DOMAIN base THEN base[k].flags ELSE NewDayFlags(k)) \cup DayFlags(FlagDays, k)
<1>1. DayFlags(FlagDays, k) \subseteq Flags
  <2>1. DOMAIN FlagDays = {"edits", "moves", "spread", "tags", "langs"}
    BY DEF FlagDays
  <2> HIDE DEF FlagDays
  <2>. QED BY <2>1 DEF DayFlags, Flags
<1>2. NewDayFlags(k) \subseteq Flags
  <2> DEFINE low == Ranking(totals, Uid(k)) < LowRanking
  <2>1. NewDayFlags(k) = IF low THEN {"ranking"} ELSE {}
    BY DEF NewDayFlags
  <2> HIDE DEF low
  <2>. QED BY <2>1 DEF Flags
<1>3. flags \subseteq Flags /\ count \in Nat
  BY <1>1, <1>2
<1>4. MergedRow(base, delta, FlagDays, k) = [key |-> k, count |-> count, flags |-> flags]
  <2>1. CASE k \in DOMAIN base
    BY <2>1 DEF MergedRow
  <2>2. CASE k \notin DOMAIN base
    <3>1. count = delta[k]
      BY <2>2
    <3>2. flags = DayFlags(FlagDays, k) \cup NewDayFlags(k)
      BY <2>2
    <3> HIDE DEF count, flags
    <3>. QED BY <2>2, <3>1, <3>2 DEF MergedRow
  <2>. QED BY <2>1, <2>2
<1> HIDE DEF flags, count
<1>5. [key |-> k, count |-> count, flags |-> flags] \in DayRows
  BY <1>3 DEF DayRows
<1>. QED BY <1>4, <1>5 DEF count, flags

\* What Base holds of the day k.
WasCount(k) == IF k \in DOMAIN Base THEN Base[k].count ELSE 0

NewCount(k) == Weigh(Staged("history"), OfDay(k))

\* The staged versions of a root that is still to be read.
LEMMA StagedTyped ==
  ASSUME RunIsSound, NEW r \in StageRoots, phase \in Unread[r]
  PROVE  /\ stage[r] = RowBatches(r, target) /\ stage[r] \in SUBSET (DOMAIN batches)
         /\ Staged(r) \in Seq(Versions)
<1>1. batches \in Seq(Seq(Versions)) /\ manifest \in Nat
  BY StreamTypes
<1>2. stage[r] = RowBatches(r, target) /\ target \in 0..Len(batches)
  BY DEF RunIsSound
<1>3. stage[r] \in SUBSET (DOMAIN batches)
  BY <1>1, <1>2 DEF RowBatches
<1>4. \A x \in Versions : OfDay(<<>>)[x] \in Int
  BY DEF OfDay, Ones
<1>. QED BY <1>1, <1>2, <1>3, <1>4, WeighStaged

LEMMA HistoryStaged ==
  ASSUME RunIsSound, phase \in {"ranking", "history"}
  PROVE  /\ Staged("history") \in Seq(Versions) /\ \A k : NewCount(k) \in Nat
         /\ stage["history"] = RowBatches("history", target) /\ stage["history"] \in SUBSET (DOMAIN batches)
<1>1. "history" \in StageRoots /\ phase \in Unread["history"]
  BY DEF StageRoots, Unread, RunPhases
<1>2. /\ stage["history"] = RowBatches("history", target) /\ stage["history"] \in SUBSET (DOMAIN batches)
      /\ Staged("history") \in Seq(Versions)
  BY <1>1, StagedTyped
<1>. QED BY <1>2, DayCountsAre DEF NewCount

\* A run's table: the days of the base and of the staged versions, with the
\* sum of their counts and the flags of the base and of this run.
LEMMA HistoryWritten ==
  ASSUME RunIsSound, BaseRows \in Seq(DayRows), WriteHistory
  PROVE  /\ history' \in Seq(DayRows) /\ OneRowADay(history')
         /\ \A k : k \in DOMAIN Base' <=> k \in DOMAIN Base \/ NewCount(k) # 0
         /\ \A k \in DOMAIN Base' :
              /\ Base'[k].count = WasCount(k) + NewCount(k)
              /\ Base'[k].flags
                   = (IF k \in DOMAIN Base THEN Base[k].flags ELSE NewDayFlags(k)) \cup DayFlags(FlagDays, k)
<1> DEFINE base == BaseOf(BaseRows)
           delta == DayCounts(Staged("history"))
           D == DOMAIN base \cup DOMAIN delta
           m == [k \in D |-> MergedRow(base, delta, FlagDays, k)]
<1>1. Staged("history") \in Seq(Versions)
  BY HistoryStaged DEF WriteHistory
<1>2. \A k : /\ NewCount(k) \in Nat /\ CountOf(delta, k) = NewCount(k)
             /\ k \in DOMAIN delta <=> NewCount(k) # 0
             /\ k \in DOMAIN delta => delta[k] = NewCount(k)
  BY <1>1, DayCountsAre DEF NewCount
<1>3. IsFiniteSet(DOMAIN delta) /\ DOMAIN delta \subseteq Keys(2)
  BY <1>1, DayCountsAre
<1>4. /\ IsFiniteSet(DOMAIN base) /\ DOMAIN base \subseteq Keys(2)
      /\ \A k \in DOMAIN base : base[k].count \in Nat /\ base[k].flags \subseteq Flags
  BY BaseIs
<1>5. IsFiniteSet(D) /\ D \subseteq Keys(2)
  BY <1>3, <1>4, FS_Union
<1>6. Base = base
  BY BaseIsBaseOf
<1>7. history' = [i \in DOMAIN KeyRanked(D) |-> MergedRow(base, delta, FlagDays, KeyRanked(D)[i])]
  BY <1>6 DEF WriteHistory, InOrder, KeyRanked
<1> HIDE DEF base, delta
<1>8. \A k \in D : /\ MergedRow(base, delta, FlagDays, k) \in DayRows
                   /\ MergedRow(base, delta, FlagDays, k).key = k
                   /\ MergedRow(base, delta, FlagDays, k).count
                        = (IF k \in DOMAIN base THEN base[k].count ELSE 0) + CountOf(delta, k)
                   /\ MergedRow(base, delta, FlagDays, k).flags
                        = (IF k \in DOMAIN base THEN base[k].flags ELSE NewDayFlags(k))
                            \cup DayFlags(FlagDays, k)
  <2> TAKE k \in D
  <2>1. k \in DOMAIN base \cup DOMAIN delta /\ k \in Keys(2)
    BY <1>5
  <2>2. k \in DOMAIN base => base[k].count \in Nat /\ base[k].flags \subseteq Flags
    BY <1>4
  <2>3. CountOf(delta, k) \in Nat /\ (k \in DOMAIN delta => CountOf(delta, k) = delta[k])
    BY <1>2
  <2>. QED BY <2>1, <2>2, <2>3, MergedRowIs
<1>9. \A k \in D : m[k] = MergedRow(base, delta, FlagDays, k)
  OBVIOUS
<1>10. \A i \in DOMAIN KeyRanked(D) : KeyRanked(D)[i] \in D
  <2> DEFINE two == 2
  <2>1. two \in Nat /\ D \subseteq Keys(two)
    BY <1>5
  <2> HIDE DEF two, D
  <2>2. KeyListed(KeyRanked(D), D)
    BY <1>5, <2>1, KeysInOrder
  <2>. QED BY <2>2 DEF KeyListed
<1> HIDE DEF m, D
<1>11. history' = [i \in DOMAIN KeyRanked(D) |-> m[KeyRanked(D)[i]]]
  BY <1>7, <1>9, <1>10
<1>12. \A k \in D : m[k] \in DayRows /\ m[k].key = k
  BY <1>8, <1>9
<1> DEFINE rows == history'
<1>13. rows = [i \in DOMAIN KeyRanked(D) |-> m[KeyRanked(D)[i]]]
  BY <1>11
<1> HIDE DEF rows
<1>14. /\ rows \in Seq(DayRows) /\ OneRowADay(rows) /\ DOMAIN BaseOf(rows) = D
       /\ \A k \in D : BaseOf(rows)[k].count = m[k].count /\ BaseOf(rows)[k].flags = m[k].flags
  BY <1>5, <1>12, <1>13, RowsByKey
<1>15. Base' = BaseOf(rows)
  <2>1. Base' = BaseOf(BaseRows')
    BY DEF Base, BaseOf
  <2>2. BaseRows' = rows
    BY <1>14, RowsAreThere DEF BaseRows, rows
  <2>. QED BY <2>1, <2>2
<1>16. \A k : k \in D <=> k \in DOMAIN Base \/ NewCount(k) # 0
  BY <1>2, <1>6 DEF D
<1>17. \A k \in D : /\ BaseOf(rows)[k].count = WasCount(k) + NewCount(k)
                    /\ BaseOf(rows)[k].flags = (IF k \in DOMAIN Base THEN Base[k].flags ELSE NewDayFlags(k))
                                                 \cup DayFlags(FlagDays, k)
  BY <1>2, <1>6, <1>8, <1>9, <1>14 DEF WasCount
<1>. QED BY <1>14, <1>15, <1>16, <1>17 DEF rows

-----------------------------------------------------------------------------
(* The history through the runs *)

\* The table is one of day rows; what a run writes has one row for a day.
HistoryIsSound ==
  /\ RunIsSound
  /\ history = Absent \/ history \in Seq(DayRows)
  /\ phase = "suspects" => history \in Seq(DayRows) /\ OneRowADay(history)

\* Only the import and a run's rewrite touch the history.
LEMMA HistorySteps ==
  ASSUME [Next]_vars
  PROVE  \/ Import
         \/ WriteHistory
         \/ history' = history /\ (phase' = "suspects" => phase = "suspects")
<1>1. CASE Import BY <1>1
<1>2. CASE WriteHistory BY <1>2
<1>3. CASE StartRun
  <2>1. phase' = "scan" /\ history' = history
    BY <1>3 DEF StartRun, tables
  <2>. QED BY <2>1
<1>4. CASE Scan
  <2>1. phase' \in {"minutes", "scan"} /\ history' = history
    BY <1>4 DEF Scan, tables
  <2>. QED BY <2>1
<1>5. CASE FoldMinutes BY <1>5 DEF FoldMinutes, Fold, tables
<1>6. CASE FoldCells BY <1>6 DEF FoldCells, Fold, tables
<1>7. CASE FoldTags BY <1>7 DEF FoldTags, Fold, tables
<1>8. CASE FoldLangs BY <1>8 DEF FoldLangs, Fold, tables
<1>9. CASE FlagMoves BY <1>9 DEF FlagMoves, tables
<1>10. CASE WriteRanking
  <2>1. phase' \in {"manifest", "history"} /\ history' = history
    BY <1>10 DEF WriteRanking
  <2>. QED BY <2>1
<1>11. CASE WriteSuspects BY <1>11 DEF WriteSuspects
<1>12. CASE WriteManifest BY <1>12 DEF WriteManifest, tables
<1>13. CASE Crash BY <1>13 DEF Crash, tables
<1>14. CASE UNCHANGED vars BY <1>14 DEF vars, tables
<1>. QED BY <1>1, <1>2, <1>3, <1>4, <1>5, <1>6, <1>7, <1>8, <1>9, <1>10, <1>11, <1>12, <1>13, <1>14
         DEF Next, Done

\* The rows of the import are day rows.
LEMMA ImportWrites ==
  ASSUME RunIsSound, Import
  PROVE  history' = Absent \/ history' \in Seq(DayRows)
<1>1. history = Absent /\ imported \in Seq(Versions)
  BY StreamTypes DEF Import, RunIsSound
<1>2. CASE imported = <<>>
  BY <1>1, <1>2 DEF Import
<1>3. CASE imported # <<>>
  <2>1. history' = RowsOf(StageFiles(imported))
    BY <1>3 DEF Import
  <2>2. StageFiles(imported) \in Seq(Seq(Versions))
    BY <1>1, StageFilesKeep
  <2>. QED BY <2>1, <2>2, RowsOfAre
<1>. QED BY <1>2, <1>3

LEMMA BaseRowsTyped ==
  ASSUME HistoryIsSound PROVE BaseRows \in Seq(DayRows)
BY DEF BaseRows, HistoryIsSound

LEMMA HistoryIsSoundInit == Init => HistoryIsSound
BY RunIsSoundInit DEF Init, HistoryIsSound

LEMMA HistoryIsSoundStep == HistoryIsSound /\ [Next]_vars => HistoryIsSound'
<1> SUFFICES ASSUME HistoryIsSound, [Next]_vars PROVE HistoryIsSound'
  OBVIOUS
<1>1. RunIsSound /\ RunIsSound'
  BY RunIsSoundStep DEF HistoryIsSound
<1>2. CASE Import
  <2>1. phase' # "suspects"
    BY <1>2 DEF Import
  <2>. QED BY <1>1, <1>2, <2>1, ImportWrites DEF HistoryIsSound
<1>3. CASE WriteHistory
  <2>1. history' \in Seq(DayRows) /\ OneRowADay(history')
    BY <1>1, <1>3, BaseRowsTyped, HistoryWritten
  <2>. QED BY <1>1, <2>1 DEF HistoryIsSound, OneRowADay
<1>4. CASE history' = history /\ (phase' = "suspects" => phase = "suspects")
  BY <1>1, <1>4 DEF HistoryIsSound, OneRowADay
<1>. QED BY <1>2, <1>3, <1>4, HistorySteps

LEMMA HistoryIsSoundAlways == Spec => []HistoryIsSound
BY HistoryIsSoundInit, HistoryIsSoundStep, PTL DEF Spec

\* A flag once written persists, and filter 1 marks no day the history has.
THEOREM HistoryFlagsOnlyGrow == Spec => FlagsOnlyGrow
<1>1. ASSUME HistoryIsSound, [Next]_vars, history' # history
      PROVE  \A k \in DOMAIN Base :
               /\ k \in DOMAIN Base'
               /\ Base[k].flags \subseteq Base'[k].flags
               /\ "ranking" \in Base'[k].flags => "ranking" \in Base[k].flags
  <2>1. CASE Import
    <3>1. BaseRows = <<>>
      BY <1>1, <2>1 DEF HistoryIsSound, RunIsSound, Import, BaseRows
    <3>2. DOMAIN Base = {}
      BY <3>1 DEF Base
    <3>. QED BY <3>2
  <2>2. CASE WriteHistory
    <3>1. /\ \A k : k \in DOMAIN Base' <=> k \in DOMAIN Base \/ NewCount(k) # 0
          /\ \A k \in DOMAIN Base' :
               Base'[k].flags
                 = (IF k \in DOMAIN Base THEN Base[k].flags ELSE NewDayFlags(k)) \cup DayFlags(FlagDays, k)
      BY <1>1, <2>2, BaseRowsTyped, HistoryWritten DEF HistoryIsSound
    <3>2. \A k : "ranking" \notin DayFlags(FlagDays, k)
      BY DEF DayFlags, FlagDays
    <3> DEFINE base == Base
               base1 == Base'
    <3> HIDE DEF base, base1
    <3>3. \A k \in DOMAIN base : /\ k \in DOMAIN base1
                                 /\ base1[k].flags = base[k].flags \cup DayFlags(FlagDays, k)
      BY <3>1 DEF base, base1
    <3>4. \A k \in DOMAIN base : /\ k \in DOMAIN base1 /\ base[k].flags \subseteq base1[k].flags
                                 /\ "ranking" \in base1[k].flags => "ranking" \in base[k].flags
      BY <3>2, <3>3
    <3>. QED BY <3>4 DEF base, base1
  <2>. QED BY <1>1, <2>1, <2>2, HistorySteps
<1>2. HistoryIsSound /\ [Next]_vars
      => [\A k \in DOMAIN Base :
            /\ k \in DOMAIN Base'
            /\ Base[k].flags \subseteq Base'[k].flags
            /\ "ranking" \in Base'[k].flags => "ranking" \in Base[k].flags]_history
  BY <1>1
<1>. QED BY <1>2, HistoryIsSoundAlways, PTL DEF Spec, FlagsOnlyGrow

-----------------------------------------------------------------------------
(* The suspect table against the history *)

\* The suspect table is written in phase "suspects" alone, which nothing but
\* the write and a crash leaves.
LEMMA SuspectsSteps ==
  ASSUME [Next]_vars
  PROVE  \/ WriteSuspects
         \/ /\ suspects' = suspects /\ crashes' \in {crashes, crashes + 1}
            /\ phase = "suspects" /\ phase' # "suspects" => crashes' = crashes + 1
<1>1. CASE WriteSuspects BY <1>1
<1>2. CASE Import BY <1>2 DEF Import
<1>3. CASE StartRun BY <1>3 DEF StartRun, tables
<1>4. CASE Scan BY <1>4 DEF Scan, tables
<1>5. CASE FoldMinutes BY <1>5 DEF FoldMinutes, Fold, tables
<1>6. CASE FoldCells BY <1>6 DEF FoldCells, Fold, tables
<1>7. CASE FoldTags BY <1>7 DEF FoldTags, Fold, tables
<1>8. CASE FoldLangs BY <1>8 DEF FoldLangs, Fold, tables
<1>9. CASE FlagMoves BY <1>9 DEF FlagMoves, tables
<1>10. CASE WriteRanking BY <1>10 DEF WriteRanking
<1>11. CASE WriteHistory
  <2>1. phase = "history" /\ suspects' = suspects /\ crashes' = crashes
    BY <1>11 DEF WriteHistory
  <2>. QED BY <2>1
<1>12. CASE WriteManifest BY <1>12 DEF WriteManifest, tables
<1>13. CASE Crash BY <1>13 DEF Crash, tables
<1>14. CASE UNCHANGED vars BY <1>14 DEF vars, tables
<1>. QED BY <1>1, <1>2, <1>3, <1>4, <1>5, <1>6, <1>7, <1>8, <1>9, <1>10, <1>11, <1>12, <1>13, <1>14
         DEF Next, Done

\* The table has the flagged days, each from its row of the history.
LEMMA SuspectsWritten ==
  ASSUME HistoryIsSound, WriteSuspects
  PROVE  /\ \A k : k \in DOMAIN suspects' <=> k \in DOMAIN Base /\ Base[k].flags # {}
         /\ \A k \in DOMAIN suspects' :
              \E row \in DayRows : /\ row.key = k /\ suspects'[k] = SuspectRow(row)
                                   /\ row.flags = Base[k].flags /\ row.count = Base[k].count
<1>1. history \in Seq(DayRows) /\ OneRowADay(history)
  BY DEF HistoryIsSound, WriteSuspects
<1>2. BaseRows = history
  BY <1>1, RowsAreThere DEF BaseRows
<1>3. Base = BaseOf(history)
  BY <1>2, BaseIsBaseOf
<1>4. \A i \in DOMAIN history :
        /\ history[i] \in DayRows /\ history[i].key \in DOMAIN Base
        /\ Base[history[i].key].flags = history[i].flags
        /\ Base[history[i].key].count = history[i].count
  <2> TAKE i \in DOMAIN history
  <2>1. history[i] \in DayRows
    BY <1>1
  <2>. QED BY <1>1, <1>3, <2>1, BaseOfOneRowADay
<1>5. \A k \in DOMAIN Base : \E i \in DOMAIN history : history[i].key = k
  <2>1. DOMAIN BaseOf(history) = {history[i].key : i \in DOMAIN history}
    BY <1>1, BaseIs
  <2>2. DOMAIN Base = {history[i].key : i \in DOMAIN history}
    BY <1>3, <2>1
  <2>. QED BY <2>2, Zenon
<1> DEFINE flagged == {history[i] : i \in {j \in DOMAIN history : history[j].flags # {}}}
           days == {r.key : r \in flagged}
<1>6. suspects' = [k \in days |-> SuspectRow(CHOOSE r \in flagged : r.key = k)]
  BY DEF WriteSuspects
<1>7. \A r \in flagged : /\ r \in DayRows /\ r.key \in DOMAIN Base
                         /\ Base[r.key].flags = r.flags /\ Base[r.key].count = r.count /\ r.flags # {}
  BY <1>4
<1>8. \A k : k \in days <=> k \in DOMAIN Base /\ Base[k].flags # {}
  <2>1. \A k \in days : k \in DOMAIN Base /\ Base[k].flags # {}
    BY <1>7
  <2>2. ASSUME NEW k \in DOMAIN Base, Base[k].flags # {} PROVE k \in days
    <3>1. PICK i \in DOMAIN history : history[i].key = k
      BY <1>5
    <3>2. history[i].flags # {}
      BY <1>4, <2>2, <3>1
    <3>3. history[i] \in flagged
      BY <3>2
    <3>. QED BY <3>1, <3>3
  <2> HIDE DEF days
  <2>. QED BY <2>1, <2>2
<1>9. ASSUME NEW k \in days
      PROVE  \E row \in DayRows : /\ row.key = k /\ suspects'[k] = SuspectRow(row)
                                  /\ row.flags = Base[k].flags /\ row.count = Base[k].count
  <2> DEFINE row == CHOOSE r \in flagged : r.key = k
  <2>1. \E r \in flagged : r.key = k
    OBVIOUS
  <2>2. row \in flagged /\ row.key = k
    <3> HIDE DEF flagged
    <3>. QED BY <2>1
  <2>3. suspects'[k] = SuspectRow(row)
    <3> HIDE DEF days, flagged
    <3>. QED BY <1>6
  <2> HIDE DEF row, flagged
  <2>4. /\ row \in DayRows /\ row.key = k /\ suspects'[k] = SuspectRow(row)
        /\ row.flags = Base[k].flags /\ row.count = Base[k].count
    BY <1>7, <2>2, <2>3
  <2>. QED BY <2>4
<1>10. DOMAIN suspects' = days
  BY <1>6
<1> HIDE DEF days, flagged
<1>. QED BY <1>8, <1>9, <1>10

\* The days of the suspect table, by its rows.
Agrees == \A k \in DOMAIN suspects : /\ k \in DOMAIN Base /\ suspects[k].changes \in Nat
                                     /\ suspects[k].flags \subseteq Base[k].flags
                                     /\ suspects[k].changes <= Base[k].count

AgreesFully == \A k \in DOMAIN Base : Base[k].flags # {} =>
                 k \in DOMAIN suspects /\ suspects[k].flags = Base[k].flags /\ suspects[k].changes = Base[k].count

FilesAgreeInvariant ==
  /\ HistoryIsSound
  /\ suspects # Absent => /\ Agrees
                          /\ crashes = 0 /\ phase # "suspects" => AgreesFully

LEMMA FilesAgreeInit == Init => FilesAgreeInvariant
BY HistoryIsSoundInit DEF Init, FilesAgreeInvariant

LEMMA FilesAgreeStep == FilesAgreeInvariant /\ [Next]_vars => FilesAgreeInvariant'
<1> SUFFICES ASSUME FilesAgreeInvariant, [Next]_vars PROVE FilesAgreeInvariant'
  OBVIOUS
<1>1. HistoryIsSound /\ RunIsSound /\ HistoryIsSound'
  BY HistoryIsSoundStep DEF FilesAgreeInvariant, HistoryIsSound
<1>2. CASE Import
  <2>1. suspects' = Absent
    BY <1>1, <1>2 DEF Import, RunIsSound
  <2>. QED BY <1>1, <2>1 DEF FilesAgreeInvariant
<1>3. CASE WriteHistory
  <2>1. suspects' = suspects /\ phase' = "suspects"
    BY <1>3 DEF WriteHistory
  <2>2. /\ \A k : k \in DOMAIN Base' <=> k \in DOMAIN Base \/ NewCount(k) # 0
        /\ \A k \in DOMAIN Base' :
             /\ Base'[k].count = WasCount(k) + NewCount(k)
             /\ Base'[k].flags
                  = (IF k \in DOMAIN Base THEN Base[k].flags ELSE NewDayFlags(k)) \cup DayFlags(FlagDays, k)
    BY <1>1, <1>3, BaseRowsTyped, HistoryWritten
  <2>3. \A k : NewCount(k) \in Nat
    BY <1>1, <1>3, HistoryStaged DEF WriteHistory
  <2>4. \A k \in DOMAIN Base : Base[k].count \in Nat
    BY <1>1, BaseRowsTyped, BaseIsBaseOf, BaseIs
  <2>5. suspects # Absent => Agrees'
    <3> SUFFICES ASSUME suspects # Absent PROVE Agrees'
      OBVIOUS
    <3> DEFINE base == Base
               base1 == Base'
               rows == suspects
    <3>1. \A k \in DOMAIN rows : k \in DOMAIN base /\ rows[k].changes \in Nat /\ rows[k].flags \subseteq base[k].flags
                                 /\ rows[k].changes <= base[k].count
      BY DEF FilesAgreeInvariant, Agrees
    <3>2. \A k \in DOMAIN base : /\ k \in DOMAIN base1 /\ base[k].flags \subseteq base1[k].flags
                                 /\ base1[k].count = base[k].count + NewCount(k)
      <4> HIDE DEF base1
      <4>. QED BY <2>2 DEF WasCount, base1
    <3>5. rows' = rows
      BY <2>1
    <3> HIDE DEF base, base1, rows
    <3>6. \A k \in DOMAIN base : base[k].count \in Nat /\ NewCount(k) \in Nat
      BY <2>3, <2>4 DEF base
    <3>7. ASSUME NEW k \in DOMAIN rows
          PROVE  /\ k \in DOMAIN base1 /\ rows[k].changes \in Nat /\ rows[k].flags \subseteq base1[k].flags
                 /\ rows[k].changes <= base1[k].count
      <4>1. k \in DOMAIN base /\ base1[k].count = base[k].count + NewCount(k)
        BY <3>1, <3>2
      <4>2. rows[k].changes <= base1[k].count
        BY <3>1, <3>6, <4>1
      <4>. QED BY <3>1, <3>2, <4>1, <4>2
    <3>8. \A k \in DOMAIN suspects' :
            /\ k \in DOMAIN Base' /\ suspects'[k].changes \in Nat /\ suspects'[k].flags \subseteq Base'[k].flags
            /\ suspects'[k].changes <= Base'[k].count
      BY <2>1, <3>7 DEF base1, rows
    <3>. QED BY <3>8 DEF Agrees
  <2>. QED BY <1>1, <2>1, <2>5 DEF FilesAgreeInvariant
<1>4. CASE history' = history /\ (phase' = "suspects" => phase = "suspects")
  <2>0. Base' = Base
    BY <1>4 DEF Base, BaseRows
  <2>1. CASE WriteSuspects
    <3>1. /\ \A k : k \in DOMAIN suspects' <=> k \in DOMAIN Base /\ Base[k].flags # {}
          /\ \A k \in DOMAIN suspects' :
               \E row \in DayRows : /\ row.key = k /\ suspects'[k] = SuspectRow(row)
                                    /\ row.flags = Base[k].flags /\ row.count = Base[k].count
      BY <1>1, <2>1, SuspectsWritten
    <3>2. \A row \in DayRows : row.count \in Nat
      BY DEF DayRows
    <3>3. \A row : SuspectRow(row).flags = row.flags /\ SuspectRow(row).changes = row.count
      BY DEF SuspectRow
    <3>4. \A k \in DOMAIN suspects' :
            /\ k \in DOMAIN Base /\ suspects'[k].changes \in Nat
            /\ suspects'[k].flags = Base[k].flags /\ suspects'[k].changes = Base[k].count
      BY <3>1, <3>2, <3>3
    <3>5. Agrees' /\ AgreesFully'
      <4> DEFINE rows == suspects'
                 base == Base
      <4>1. /\ \A k : k \in DOMAIN rows <=> k \in DOMAIN base /\ base[k].flags # {}
            /\ \A k \in DOMAIN rows : /\ k \in DOMAIN base /\ rows[k].changes \in Nat
                                      /\ rows[k].flags = base[k].flags /\ rows[k].changes = base[k].count
        BY <3>1, <3>4
      <4> HIDE DEF rows, base
      <4>2. \A k \in DOMAIN rows : /\ k \in DOMAIN base /\ rows[k].changes \in Nat
                                   /\ rows[k].flags \subseteq base[k].flags
                                   /\ rows[k].changes <= base[k].count
        BY <4>1
      <4>3. \A k \in DOMAIN base : base[k].flags # {} =>
              k \in DOMAIN rows /\ rows[k].flags = base[k].flags /\ rows[k].changes = base[k].count
        BY <4>1
      <4>. QED BY <2>0, <4>2, <4>3 DEF rows, base, Agrees, AgreesFully
    <3>. QED BY <1>1, <3>5 DEF FilesAgreeInvariant
  <2>2. CASE /\ suspects' = suspects /\ crashes' \in {crashes, crashes + 1}
             /\ phase = "suspects" /\ phase' # "suspects" => crashes' = crashes + 1
    <3>1. crashes \in Nat
      BY <1>1 DEF RunIsSound
    <3>2. crashes' = 0 /\ phase' # "suspects" => crashes = 0 /\ phase # "suspects"
      BY <2>2, <3>1
    <3>3. suspects' = suspects
      BY <2>2
    <3>4. Agrees' = Agrees /\ AgreesFully' = AgreesFully
      BY <2>0, <3>3 DEF Agrees, AgreesFully
    <3>. QED BY <1>1, <3>2, <3>3, <3>4 DEF FilesAgreeInvariant
  <2>. QED BY <2>1, <2>2, SuspectsSteps
<1>. QED BY <1>2, <1>3, <1>4, HistorySteps

LEMMA FilesAgreeAlways == Spec => []FilesAgreeInvariant
BY FilesAgreeInit, FilesAgreeStep, PTL DEF Spec

\* The suspect table and the history agree.
THEOREM TablesAgree == Spec => []FilesAgree
<1>1. FilesAgreeInvariant => FilesAgree
  BY DEF FilesAgreeInvariant, FilesAgree, Agrees, AgreesFully
<1>. QED BY <1>1, FilesAgreeAlways, PTL

-----------------------------------------------------------------------------
(* What the tables owe the stream *)

\* The weight of the import and of the first n batches.
Due(g, n) == Weigh(imported, g) + Heaped(g, 1..n)

LEMMA DueSame ==
  ASSUME imported' = imported, batches' = batches PROVE \A g, n : Due(g, n)' = Due(g, n)
<1>1. \A g, B : Heaped(g, B)' = Heaped(g, B)
  BY HeapedSame
<1>2. ASSUME NEW g, NEW n PROVE Due(g, n)' = Due(g, n)
  <2>1. Heaped(g, 1..n)' = Heaped(g, 1..n)
    BY DEF Heaped, Weigh
  <2>2. Weigh(imported, g)' = Weigh(imported, g)
    BY DEF Weigh
  <2>. QED BY <2>1, <2>2 DEF Due
<1>. QED BY <1>2

LEMMA DueIs ==
  ASSUME RunIsSound, NEW g, \A x \in Versions : g[x] \in Nat
  PROVE  /\ \A n \in 0..Len(batches) : /\ Due(g, n) \in Nat /\ imported \o Prefix(n) \in Seq(Versions)
                                       /\ Weigh(imported \o Prefix(n), g) = Due(g, n)
         /\ Due(g, 0) = Weigh(imported, g)
         /\ \A n \in 0..Len(batches) : \A m \in 0..n :
              Due(g, m) <= Due(g, n) /\ Due(g, n) = Due(g, m) + Heaped(g, m+1..n)
<1>1. imported \in Seq(Versions) /\ batches \in Seq(Seq(Versions)) /\ Len(batches) \in Nat
  BY StreamTypes
<1>2. \A x \in Versions : g[x] \in Int
  OBVIOUS
<1>3. Weigh(imported, g) \in Nat
  BY <1>1, WeighNat
<1>4. \A n \in 0..Len(batches) : Heaped(g, 1..n) \in Nat
  <2> TAKE n \in 0..Len(batches)
  <2>1. 1..n \in SUBSET (DOMAIN batches)
    BY <1>1
  <2>. QED BY <1>1, <2>1, HeapedNat
<1>5. ASSUME NEW n \in 0..Len(batches)
      PROVE  /\ imported \o Prefix(n) \in Seq(Versions)
             /\ Weigh(imported \o Prefix(n), g) = Due(g, n) /\ Due(g, n) \in Nat
  <2>1. Prefix(n) \in Seq(Versions) /\ Weigh(Prefix(n), g) = Heaped(g, 1..n)
    BY <1>1, <1>2, WeighPrefix
  <2>2. Weigh(imported \o Prefix(n), g) = Weigh(imported, g) + Weigh(Prefix(n), g)
    BY <1>1, <1>2, <2>1, WeighConcat
  <2>3. imported \o Prefix(n) \in Seq(Versions)
    BY <1>1, <2>1
  <2>. QED BY <1>3, <1>4, <2>1, <2>2, <2>3 DEF Due
<1>6. Due(g, 0) = Weigh(imported, g)
  <2>1. 1..0 = {}
    OBVIOUS
  <2>2. Heaped(g, {}) = 0
    BY SumEmpty DEF Heaped
  <2>. QED BY <1>3, <2>1, <2>2 DEF Due
<1>7. ASSUME NEW n \in 0..Len(batches), NEW m \in 0..n
      PROVE  Due(g, m) <= Due(g, n) /\ Due(g, n) = Due(g, m) + Heaped(g, m+1..n)
  <2> DEFINE B == 1..m
             C == m+1..n
  <2>1. B \in SUBSET (DOMAIN batches) /\ C \in SUBSET (DOMAIN batches) /\ B \cap C = {} /\ B \cup C = 1..n
    BY <1>1
  <2>2. Heaped(g, C) \in Nat /\ Heaped(g, B) \in Nat
    BY <1>1, <2>1, HeapedNat
  <2>3. Heaped(g, B \cup C) = Heaped(g, B) + Heaped(g, C)
    BY <1>1, <1>2, <2>1, HeapedUnion
  <2>4. Heaped(g, 1..n) = Heaped(g, 1..m) + Heaped(g, C)
    BY <2>1, <2>3
  <2> HIDE DEF C
  <2>5. Due(g, n) = Due(g, m) + Heaped(g, C)
    BY <1>3, <2>2, <2>4 DEF Due
  <2>6. Due(g, m) \in Nat
    BY <1>5
  <2>. QED BY <2>2, <2>5, <2>6 DEF C
<1>. QED BY <1>5, <1>6, <1>7

\* What is staged for the history is all there is between manifest and target.
LEMMA DueStaged ==
  ASSUME RunIsSound, NEW g, \A x \in Versions : g[x] \in Nat, phase \in {"ranking", "history"}
  PROVE  /\ Weigh(Staged("history"), g) \in Nat
         /\ Due(g, target) = Due(g, manifest) + Weigh(Staged("history"), g)
         /\ stage["history"] = {} => Due(g, target) = Due(g, manifest)
<1>1. batches \in Seq(Seq(Versions)) /\ manifest \in Nat /\ Len(batches) \in Nat
  BY StreamTypes
<1>2. /\ stage["history"] = RowBatches("history", target) /\ stage["history"] \in SUBSET (DOMAIN batches)
      /\ Staged("history") \in Seq(Versions)
  BY HistoryStaged
<1>3. target \in 0..Len(batches) /\ manifest \in 0..target
  <2>1. phase \in RunPhases
    BY DEF RunPhases
  <2>. QED BY <1>1, <2>1 DEF RunIsSound
<1>4. \A x \in Versions : g[x] \in Int
  OBVIOUS
<1>5. Weigh(Staged("history"), g) = Heaped(g, stage["history"])
  BY <1>1, <1>2, <1>4, WeighStaged
<1> DEFINE B == manifest+1..target
<1>6. B \in SUBSET (DOMAIN batches)
  BY <1>1, <1>3
<1>7. stage["history"] \in SUBSET B /\ \A b \in B \ stage["history"] : batches[b] = <<>>
  <2>1. \A b : HasRows("history", b) <=> batches[b] # <<>>
    BY DEF HasRows, Roots
  <2>2. RowBatches("history", target) = {b \in B : HasRows("history", b)}
    BY DEF RowBatches
  <2> HIDE DEF B
  <2>. QED BY <1>2, <2>1, <2>2
<1>8. \A b \in B \ stage["history"] : Weigh(batches[b], g) = 0
  BY <1>7, WeighEmpty
<1>9. Due(g, target) = Due(g, manifest) + Heaped(g, B) /\ Due(g, manifest) \in Nat
  <2>1. manifest \in 0..Len(batches)
    BY <1>1, <1>3
  <2>. QED BY <1>3, <2>1, DueIs
<1> HIDE DEF B
<1>10. Heaped(g, B) = Heaped(g, stage["history"])
  BY <1>1, <1>4, <1>6, <1>7, <1>8, HeapedInside
<1>11. Heaped(g, B) \in Nat
  BY <1>1, <1>6, HeapedNat
<1>12. stage["history"] = {} => Heaped(g, B) = 0
  BY <1>10, SumEmpty DEF Heaped
<1>. QED BY <1>5, <1>9, <1>10, <1>11, <1>12

-----------------------------------------------------------------------------
(* The history covers the stream *)

HistoryCovers(n) ==
  \A k : /\ WasCount(k) \in Nat /\ k \in DOMAIN Base <=> WasCount(k) # 0
         /\ WasCount(k) >= Due(OfDay(k), n)
         /\ crashes = 0 => WasCount(k) = Due(OfDay(k), n)

LEMMA HistoryCoversStays ==
  ASSUME RunIsSound, UNCHANGED <<imported, batches, history>>, crashes' \in {crashes, crashes + 1}
  PROVE  \A n : HistoryCovers(n) => HistoryCovers(n)'
<1>1. crashes \in Nat /\ (crashes' = 0 => crashes = 0)
  BY DEF RunIsSound
<1>2. Base' = Base
  BY DEF Base, BaseRows
<1>3. \A k : WasCount(k)' = WasCount(k)
  BY <1>2 DEF WasCount
<1>4. \A g, n : Due(g, n)' = Due(g, n)
  BY DueSame
<1>5. ASSUME NEW n, NEW k PROVE Due(OfDay(k), n)' = Due(OfDay(k), n) /\ WasCount(k)' = WasCount(k)
  <2> DEFINE g == OfDay(k)
  <2>1. Due(g, n)' = Due(g, n)
    <3> HIDE DEF g
    <3>. QED BY <1>4
  <2>. QED BY <1>3, <2>1
<1>. QED BY <1>1, <1>2, <1>5 DEF HistoryCovers

\* After a crash a table that reaches further still covers less.
LEMMA HistoryCoversLess ==
  ASSUME RunIsSound, NEW n \in 0..Len(batches), NEW m \in 0..n, HistoryCovers(n),
         UNCHANGED <<imported, batches, history>>, crashes' = crashes + 1
  PROVE  HistoryCovers(m)'
<1>0. crashes' # 0 /\ m \in 0..Len(batches)
  BY StreamTypes DEF RunIsSound
<1>1. Base' = Base
  BY DEF Base, BaseRows
<1>2. ASSUME NEW k
      PROVE  /\ WasCount(k)' \in Nat /\ k \in DOMAIN Base' <=> WasCount(k)' # 0
             /\ WasCount(k)' >= Due(OfDay(k), m)'
  <2> DEFINE g == OfDay(k)
  <2>1. \A x \in Versions : g[x] \in Nat
    BY OnesAreNumbers DEF OfDay
  <2>2. WasCount(k) \in Nat /\ WasCount(k) >= Due(g, n) /\ (k \in DOMAIN Base <=> WasCount(k) # 0)
    BY DEF HistoryCovers
  <2> HIDE DEF g
  <2>3. Due(g, m) <= Due(g, n) /\ Due(g, n) \in Nat /\ Due(g, m) \in Nat
    BY <1>0, <2>1, DueIs
  <2>4. Due(g, m)' = Due(g, m)
    BY DueSame
  <2>5. WasCount(k)' = WasCount(k)
    BY <1>1 DEF WasCount
  <2>6. WasCount(k)' \in Nat /\ WasCount(k)' >= Due(g, m)'
    BY <2>2, <2>3, <2>4, <2>5
  <2>. QED BY <1>1, <2>2, <2>5, <2>6 DEF g
<1>. QED BY <1>0, <1>2 DEF HistoryCovers

\* The import's table.
LEMMA ImportCovers ==
  ASSUME RunIsSound, Import PROVE HistoryCovers(0)'
<1>1. history = Absent /\ imported \in Seq(Versions) /\ crashes' = crashes /\ crashes = 0
  BY StreamTypes DEF Import, RunIsSound
<1> DEFINE base == Base'
<1>2. \A k : /\ k \in DOMAIN base <=> Weigh(imported, OfDay(k)) # 0
             /\ k \in DOMAIN base => base[k].count = Weigh(imported, OfDay(k))
  <2>1. CASE imported = <<>>
    <3>1. BaseRows' = <<>>
      BY <1>1, <2>1 DEF Import, BaseRows
    <3>2. DOMAIN base = {}
      BY <3>1 DEF Base
    <3>3. \A k : Weigh(imported, OfDay(k)) = 0
      BY <2>1, WeighEmpty
    <3> HIDE DEF base
    <3>. QED BY <3>2, <3>3
  <2>2. CASE imported # <<>>
    <3> DEFINE files == StageFiles(imported)
    <3>1. files \in Seq(Seq(Versions)) /\ FlattenSeq(files) = imported
      BY <1>1, StageFilesKeep
    <3> HIDE DEF files
    <3>2. history' = RowsOf(files)
      BY <2>2 DEF Import, files
    <3>3. RowsOf(files) \in Seq(DayRows)
      BY <3>1, RowsOfAre
    <3>4. BaseRows' = RowsOf(files)
      BY <3>2, <3>3, RowsAreThere DEF BaseRows
    <3>5. base = BaseOf(RowsOf(files))
      <4>1. base = BaseOf(BaseRows')
        BY DEF Base, BaseOf
      <4>. QED BY <3>4, <4>1
    <3> HIDE DEF base
    <3>. QED BY <3>1, <3>5, BaseOfRows
  <2>. QED BY <2>1, <2>2
<1>3. ASSUME NEW k
      PROVE  /\ WasCount(k)' \in Nat /\ k \in DOMAIN base <=> WasCount(k)' # 0
             /\ WasCount(k)' = Due(OfDay(k), 0)'
  <2>1. Weigh(imported, OfDay(k)) \in Nat
    BY <1>1, DayCountsAre
  <2>2. WasCount(k)' = IF k \in DOMAIN base THEN base[k].count ELSE 0
    BY DEF WasCount
  <2> HIDE DEF base
  <2>3. WasCount(k)' = Weigh(imported, OfDay(k)) /\ (k \in DOMAIN base <=> Weigh(imported, OfDay(k)) # 0)
    BY <1>2, <2>2
  <2> DEFINE g == OfDay(k)
  <2>4. \A x \in Versions : g[x] \in Nat
    BY OnesAreNumbers DEF OfDay
  <2> HIDE DEF g
  <2>5. Due(g, 0) = Weigh(imported, g)
    BY <2>4, DueIs
  <2>6. Due(g, 0)' = Due(g, 0)
    <3>1. imported' = imported /\ batches' = batches
      BY DEF Import
    <3>. QED BY <3>1, DueSame
  <2>7. Due(OfDay(k), 0)' = Due(g, 0)'
    BY DEF g
  <2>. QED BY <2>1, <2>3, <2>5, <2>6, <2>7 DEF g
<1>. QED BY <1>3 DEF HistoryCovers, base

-----------------------------------------------------------------------------

\* A run's rewrite of the history takes it from the manifest to the target.
LEMMA RewriteCovers ==
  ASSUME HistoryIsSound, WriteHistory, HistoryCovers(manifest)
  PROVE  \A n : n = target => HistoryCovers(n)'
<1>1. RunIsSound /\ BaseRows \in Seq(DayRows) /\ phase \in {"ranking", "history"} /\ crashes' = crashes
  BY BaseRowsTyped DEF HistoryIsSound, WriteHistory
<1> DEFINE base == Base
           base1 == Base'
<1>2. /\ \A k : k \in DOMAIN base1 <=> k \in DOMAIN base \/ NewCount(k) # 0
      /\ \A k \in DOMAIN base1 : base1[k].count = WasCount(k) + NewCount(k)
  BY <1>1, HistoryWritten
<1>3. \A k : WasCount(k)' = IF k \in DOMAIN base1 THEN base1[k].count ELSE 0
  BY DEF WasCount
<1>4. \A k : WasCount(k) = IF k \in DOMAIN base THEN base[k].count ELSE 0
  BY DEF WasCount
<1> HIDE DEF base, base1
<1>5. \A k : /\ WasCount(k) \in Nat /\ k \in DOMAIN base <=> WasCount(k) # 0
             /\ WasCount(k) >= Due(OfDay(k), manifest)
             /\ crashes = 0 => WasCount(k) = Due(OfDay(k), manifest)
  BY DEF HistoryCovers, base
<1>6. ASSUME NEW k
      PROVE  /\ WasCount(k)' \in Nat /\ k \in DOMAIN base1 <=> WasCount(k)' # 0
             /\ WasCount(k)' >= Due(OfDay(k), target)
             /\ crashes = 0 => WasCount(k)' = Due(OfDay(k), target)
  <2>1. \A x \in Versions : OfDay(k)[x] \in Nat
    BY OnesAreNumbers DEF OfDay
  <2>2. /\ NewCount(k) \in Nat
        /\ Due(OfDay(k), target) = Due(OfDay(k), manifest) + NewCount(k)
    BY <1>1, <2>1, DueStaged DEF NewCount
  <2>3. Due(OfDay(k), manifest) \in Nat
    <3>1. manifest \in 0..Len(batches)
      BY <1>1 DEF RunIsSound
    <3>. QED BY <1>1, <2>1, <3>1, DueIs
  <2>4. WasCount(k)' = WasCount(k) + NewCount(k)
    BY <1>2, <1>3, <1>4, <1>5, <2>2
  <2>5. k \in DOMAIN base1 <=> WasCount(k)' # 0
    BY <1>2, <1>5, <2>2, <2>4
  <2>. QED BY <1>5, <2>2, <2>3, <2>4, <2>5
<1>7. ASSUME NEW n, n = target, NEW k PROVE Due(OfDay(k), n)' = Due(OfDay(k), target)
  <2> DEFINE g == OfDay(k)
  <2>1. imported' = imported /\ batches' = batches
    BY DEF WriteHistory
  <2>2. Due(g, n)' = Due(g, n)
    <3> HIDE DEF g
    <3>. QED BY <2>1, DueSame
  <2>. QED BY <1>7, <2>2
<1>. QED BY <1>1, <1>6, <1>7 DEF HistoryCovers, base1

-----------------------------------------------------------------------------
(* The totals cover the stream *)

TotalsTyped == totals = Absent \/ \E U \in SUBSET Uids : IsFiniteSet(U) /\ totals \in [U -> [Aspects -> Nat]]

TotalsCover(n) ==
  /\ TotalsTyped
  /\ \A u : /\ Due(OfUser(u), n) # 0 => u \in Users
            /\ crashes = 0 /\ u \in Users => Due(OfUser(u), n) # 0
  /\ \A u, a : a \in Aspects => /\ TotalsOf(u)[a] \in Nat /\ TotalsOf(u)[a] >= Due(OfAspect(u, a), n)
                                /\ crashes = 0 => TotalsOf(u)[a] = Due(OfAspect(u, a), n)

LEMMA TotalsCoverStays ==
  ASSUME RunIsSound, UNCHANGED <<imported, batches, totals>>, crashes' \in {crashes, crashes + 1}
  PROVE  \A n : TotalsCover(n) => TotalsCover(n)'
<1>1. crashes \in Nat /\ (crashes' = 0 => crashes = 0)
  BY DEF RunIsSound
<1>2. \A u : TotalsOf(u)' = TotalsOf(u)
  BY DEF TotalsOf
<1>3. Users' = Users /\ TotalsTyped' = TotalsTyped
  BY DEF Users, TotalsTyped
<1>4. \A g, n : Due(g, n)' = Due(g, n)
  BY DueSame
<1>5. ASSUME NEW n, NEW u PROVE Due(OfUser(u), n)' = Due(OfUser(u), n)
  <2> DEFINE g == OfUser(u)
  <2>1. Due(g, n)' = Due(g, n)
    <3> HIDE DEF g
    <3>. QED BY <1>4
  <2>. QED BY <2>1
<1>6. ASSUME NEW n, NEW u, NEW a PROVE Due(OfAspect(u, a), n)' = Due(OfAspect(u, a), n)
  <2> DEFINE g == OfAspect(u, a)
  <2>1. Due(g, n)' = Due(g, n)
    <3> HIDE DEF g
    <3>. QED BY <1>4
  <2>. QED BY <2>1
<1>. QED BY <1>1, <1>2, <1>3, <1>5, <1>6 DEF TotalsCover

LEMMA OfAreNumbers ==
  /\ \A u : \A x \in Versions : OfUser(u)[x] \in Nat
  /\ \A u, a : \A x \in Versions : OfAspect(u, a)[x] \in Nat
BY OnesAreNumbers DEF OfUser, OfAspect

LEMMA TotalsCoverLess ==
  ASSUME RunIsSound, NEW n \in 0..Len(batches), NEW m \in 0..n, TotalsCover(n),
         UNCHANGED <<imported, batches, totals>>, crashes' = crashes + 1
  PROVE  TotalsCover(m)'
<1>0. crashes' # 0 /\ m \in 0..Len(batches)
  BY StreamTypes DEF RunIsSound
<1>1. ASSUME NEW u PROVE Due(OfUser(u), m)' # 0 => u \in Users'
  <2> DEFINE g == OfUser(u)
  <2>1. \A x \in Versions : g[x] \in Nat
    BY OfAreNumbers
  <2>2. Due(g, n) # 0 => u \in Users
    BY DEF TotalsCover
  <2> HIDE DEF g
  <2>3. Due(g, m) <= Due(g, n) /\ Due(g, n) \in Nat /\ Due(g, m) \in Nat
    BY <1>0, <2>1, DueIs
  <2>4. Due(g, m)' = Due(g, m) /\ Users' = Users
    BY DueSame DEF Users
  <2>5. Due(g, m)' # 0 => u \in Users'
    BY <2>2, <2>3, <2>4
  <2>. QED BY <2>5 DEF g
<1>2. ASSUME NEW u, NEW a, a \in Aspects
      PROVE  TotalsOf(u)'[a] \in Nat /\ TotalsOf(u)'[a] >= Due(OfAspect(u, a), m)'
  <2> DEFINE g == OfAspect(u, a)
  <2>1. \A x \in Versions : g[x] \in Nat
    BY OfAreNumbers
  <2>2. TotalsOf(u)[a] \in Nat /\ TotalsOf(u)[a] >= Due(g, n)
    BY <1>2 DEF TotalsCover
  <2> HIDE DEF g
  <2>3. Due(g, m) <= Due(g, n) /\ Due(g, n) \in Nat /\ Due(g, m) \in Nat
    BY <1>0, <2>1, DueIs
  <2>4. Due(g, m)' = Due(g, m)
    BY DueSame
  <2>5. TotalsOf(u)' = TotalsOf(u)
    BY DEF TotalsOf
  <2>6. TotalsOf(u)'[a] \in Nat /\ TotalsOf(u)'[a] >= Due(g, m)'
    BY <2>2, <2>3, <2>4, <2>5
  <2>. QED BY <2>6 DEF g
<1>3. TotalsTyped'
  BY DEF TotalsCover, TotalsTyped
<1>. QED BY <1>0, <1>1, <1>2, <1>3 DEF TotalsCover

\* What the totals hold once they are W on U.
LEMMA TotalsAt ==
  ASSUME NEW U \in SUBSET Uids, IsFiniteSet(U), totals' \in [U -> [Aspects -> Nat]]
  PROVE  /\ TotalsTyped' /\ Users' = U
         /\ \A u : \A a \in Aspects : TotalsOf(u)'[a] = IF u \in U THEN totals'[u][a] ELSE 0
<1>1. totals' # Absent
  BY AbsentIsNoTable
<1>2. Users' = U
  BY <1>1 DEF Users
<1>3. TotalsTyped'
  BY DEF TotalsTyped
<1>4. \A u : TotalsOf(u)' = IF u \in U THEN totals'[u] ELSE NoTotals
  BY <1>1 DEF TotalsOf
<1>. QED BY <1>2, <1>3, <1>4 DEF NoTotals

-----------------------------------------------------------------------------

LEMMA ImportTotals ==
  ASSUME RunIsSound, Import PROVE TotalsCover(0)'
<1>1. /\ totals = Absent /\ imported \in Seq(Versions) /\ \A i \in DOMAIN imported : imported[i].uid \in Uids
      /\ imported' = imported /\ batches' = batches
  BY StreamTypes DEF Import, RunIsSound
<1> DEFINE sums == Totals(imported)
           U == DOMAIN sums
<1>2. /\ \A u : u \in U <=> Weigh(imported, OfUser(u)) # 0
      /\ \A u \in U : sums[u] = [a \in Aspects |-> Weigh(imported, OfAspect(u, a))]
      /\ \A u, a : /\ Weigh(imported, OfAspect(u, a)) \in Nat
                   /\ u \notin U => Weigh(imported, OfAspect(u, a)) = 0
      /\ U = {imported[i].uid : i \in DOMAIN imported} /\ IsFiniteSet(U)
  BY <1>1, TotalsAre
<1>3. U \in SUBSET Uids
  BY <1>1, <1>2
<1>a. sums = [u \in U |-> sums[u]]
  BY DEF Totals
<1> HIDE DEF sums
<1>4. sums \in [U -> [Aspects -> Nat]]
  <2>1. ASSUME NEW u \in U PROVE sums[u] \in [Aspects -> Nat]
    <3>1. \A a \in Aspects : Weigh(imported, OfAspect(u, a)) \in Nat
      BY <1>2
    <3>2. sums[u] = [a \in Aspects |-> Weigh(imported, OfAspect(u, a))]
      BY <1>2
    <3>. QED BY <3>1, <3>2
  <2> HIDE DEF U
  <2>. QED BY <1>a, <2>1
<1> HIDE DEF U
<1>5. /\ TotalsTyped' /\ Users' = U
      /\ \A u : \A a \in Aspects : TotalsOf(u)'[a] = Weigh(imported, OfAspect(u, a))
  <2>1. CASE imported # <<>>
    <3>1. totals' = sums
      BY <2>1 DEF Import, sums
    <3>2. /\ TotalsTyped' /\ Users' = U
          /\ \A u : \A a \in Aspects : TotalsOf(u)'[a] = IF u \in U THEN totals'[u][a] ELSE 0
      BY <1>2, <1>3, <1>4, <3>1, TotalsAt
    <3>3. ASSUME NEW u, NEW a \in Aspects PROVE TotalsOf(u)'[a] = Weigh(imported, OfAspect(u, a))
      <4>1. u \in U => totals'[u][a] = Weigh(imported, OfAspect(u, a))
        BY <1>2, <3>1
      <4>. QED BY <1>2, <3>2, <4>1
    <3>. QED BY <3>2, <3>3
  <2>2. CASE imported = <<>>
    <3>1. totals' = Absent
      BY <1>1, <2>2 DEF Import
    <3>2. U = {}
      BY <1>2, <2>2
    <3>3. TotalsTyped' /\ Users' = U /\ \A u : TotalsOf(u)' = NoTotals
      BY <3>1, <3>2 DEF TotalsTyped, Users, TotalsOf
    <3>. QED BY <1>2, <3>2, <3>3 DEF NoTotals
  <2>. QED BY <2>1, <2>2
<1>6. ASSUME NEW u PROVE Due(OfUser(u), 0)' = Weigh(imported, OfUser(u))
  <2> DEFINE g == OfUser(u)
  <2>1. \A x \in Versions : g[x] \in Nat
    BY OfAreNumbers
  <2> HIDE DEF g
  <2>2. Due(g, 0) = Weigh(imported, g) /\ Due(g, 0)' = Due(g, 0)
    BY <1>1, <2>1, DueIs, DueSame
  <2>. QED BY <2>2 DEF g
<1>7. ASSUME NEW u, NEW a PROVE Due(OfAspect(u, a), 0)' = Weigh(imported, OfAspect(u, a))
  <2> DEFINE g == OfAspect(u, a)
  <2>1. \A x \in Versions : g[x] \in Nat
    BY OfAreNumbers
  <2> HIDE DEF g
  <2>2. Due(g, 0) = Weigh(imported, g) /\ Due(g, 0)' = Due(g, 0)
    BY <1>1, <2>1, DueIs, DueSame
  <2>. QED BY <2>2 DEF g
<1>8. ASSUME NEW u, NEW a, a \in Aspects
      PROVE  TotalsOf(u)'[a] \in Nat /\ TotalsOf(u)'[a] >= Due(OfAspect(u, a), 0)'
             /\ TotalsOf(u)'[a] = Due(OfAspect(u, a), 0)'
  BY <1>2, <1>5, <1>7, <1>8
<1>. QED BY <1>2, <1>5, <1>6, <1>8 DEF TotalsCover

\* The users of the staged versions.
LEMMA StagedUsers ==
  ASSUME RunIsSound, phase \in {"ranking", "history"}
  PROVE  DOMAIN Totals(Staged("history")) \in SUBSET Uids
<1>1. batches \in Seq(Seq(Versions)) /\ \A b \in DOMAIN batches : \A i \in DOMAIN batches[b] : batches[b][i].uid \in Uids
  BY StreamTypes
<1>2. Staged("history") \in Seq(Versions) /\ stage["history"] \in SUBSET (DOMAIN batches)
  BY HistoryStaged
<1>3. ASSUME NEW u, u \in DOMAIN Totals(Staged("history")) PROVE u \in Uids
  <2> DEFINE g == OfUser(u)
             B == stage["history"]
  <2>1. Weigh(Staged("history"), g) # 0
    BY <1>2, <1>3, TotalsAre
  <2>2. \A x \in Versions : g[x] \in Nat
    BY OfAreNumbers
  <2>3. \A b \in DOMAIN batches : Weigh(batches[b], g) = 0 <=> \A i \in DOMAIN batches[b] : batches[b][i].uid # u
    <3> TAKE b \in DOMAIN batches
    <3>1. batches[b] \in Seq(Versions)
      BY <1>1
    <3> DEFINE T == {v \in Versions : v.uid = u}
    <3>2. Weigh(batches[b], Ones(Versions, T)) = 0 <=> \A i \in DOMAIN batches[b] : batches[b][i] \notin T
      <4> HIDE DEF T
      <4>. QED BY <3>1, NumberZero
    <3>3. \A i \in DOMAIN batches[b] : batches[b][i] \in Versions
      BY <3>1
    <3>. QED BY <3>2, <3>3 DEF OfUser
  <2> HIDE DEF g
  <2>4. Weigh(Staged("history"), g) = Heaped(g, B)
    <3>1. \A x \in Versions : g[x] \in Int
      BY <2>2
    <3>. QED BY <1>1, <1>2, <3>1, WeighStaged
  <2>5. PICK b \in B : Weigh(batches[b], g) # 0
    BY <1>1, <1>2, <2>1, <2>2, <2>4, HeapedNat
  <2>. QED BY <1>1, <1>2, <2>3, <2>5
<1>. QED BY <1>3

\* A run's new totals take them from the manifest to the target.
LEMMA RankingCovers ==
  ASSUME RunIsSound, WriteRanking, TotalsCover(manifest), stage["history"] # {}
  PROVE  \A n : n = target => TotalsCover(n)'
<1>1. /\ phase \in {"ranking", "history"} /\ crashes' = crashes /\ imported' = imported /\ batches' = batches
      /\ manifest \in 0..Len(batches)
  BY DEF WriteRanking, RunIsSound
<1> DEFINE delta == Totals(Staged("history"))
           at(u, a) == TotalsOf(u)[a] + (IF u \in DOMAIN delta THEN delta[u][a] ELSE 0)
           U == Users \cup DOMAIN delta
           new(u, a) == Weigh(Staged("history"), OfAspect(u, a))
<1>2. Staged("history") \in Seq(Versions)
  BY <1>1, HistoryStaged
<1>3. /\ \A u : u \in DOMAIN delta <=> Weigh(Staged("history"), OfUser(u)) # 0
      /\ \A u \in DOMAIN delta : delta[u] = [a \in Aspects |-> new(u, a)]
      /\ \A u, a : new(u, a) \in Nat /\ (u \notin DOMAIN delta => new(u, a) = 0)
      /\ IsFiniteSet(DOMAIN delta)
  BY <1>2, TotalsAre
<1>4. DOMAIN delta \in SUBSET Uids
  BY <1>1, StagedUsers
<1>5. Users \in SUBSET Uids /\ IsFiniteSet(Users)
  <2>1. TotalsTyped
    BY DEF TotalsCover
  <2>2. CASE totals = Absent
    BY <2>2, FS_EmptySet DEF Users
  <2>3. CASE totals # Absent
    <3>1. PICK W \in SUBSET Uids : IsFiniteSet(W) /\ totals \in [W -> [Aspects -> Nat]]
      BY <2>1, <2>3 DEF TotalsTyped
    <3>. QED BY <2>3, <3>1 DEF Users
  <2>. QED BY <2>2, <2>3
<1>6. U \in SUBSET Uids /\ IsFiniteSet(U)
  BY <1>3, <1>4, <1>5, FS_Union
<1>7. totals' = [u \in U |-> [a \in Aspects |-> at(u, a)]]
  BY DEF WriteRanking
<1>8. \A u, a : a \in Aspects => TotalsOf(u)[a] \in Nat /\ at(u, a) = TotalsOf(u)[a] + new(u, a)
  <2>1. \A u, a : a \in Aspects => TotalsOf(u)[a] \in Nat
    BY DEF TotalsCover
  <2> HIDE DEF delta, new
  <2>. QED BY <1>3, <2>1
<1>9. \A u : u \notin Users => TotalsOf(u) = NoTotals
  BY DEF Users, TotalsOf
<1> HIDE DEF delta, at, new
<1>10. totals' \in [U -> [Aspects -> Nat]]
  BY <1>3, <1>7, <1>8
<1>11. /\ TotalsTyped' /\ Users' = U
       /\ \A u : \A a \in Aspects : TotalsOf(u)'[a] = IF u \in U THEN totals'[u][a] ELSE 0
  <2> HIDE DEF U
  <2>. QED BY <1>6, <1>10, TotalsAt
<1>12. ASSUME NEW u, NEW a, a \in Aspects PROVE TotalsOf(u)'[a] = TotalsOf(u)[a] + new(u, a)
  <2>1. CASE u \in U
    BY <1>7, <1>8, <1>11, <1>12, <2>1
  <2>2. CASE u \notin U
    <3>1. TotalsOf(u)[a] = 0 /\ new(u, a) = 0
      BY <1>3, <1>9, <1>12, <2>2 DEF NoTotals
    <3>. QED BY <1>11, <1>12, <2>2, <3>1
  <2>. QED BY <2>1, <2>2
<1>13. ASSUME NEW u, NEW a, a \in Aspects, NEW n, n = target
       PROVE  /\ TotalsOf(u)'[a] \in Nat /\ TotalsOf(u)'[a] >= Due(OfAspect(u, a), n)'
              /\ crashes = 0 => TotalsOf(u)'[a] = Due(OfAspect(u, a), n)'
  <2> DEFINE g == OfAspect(u, a)
  <2>1. \A x \in Versions : g[x] \in Nat
    BY OfAreNumbers
  <2>2. new(u, a) = Weigh(Staged("history"), g)
    BY DEF new
  <2>3. /\ TotalsOf(u)[a] \in Nat /\ TotalsOf(u)[a] >= Due(g, manifest)
        /\ crashes = 0 => TotalsOf(u)[a] = Due(g, manifest)
    BY <1>13 DEF TotalsCover
  <2> HIDE DEF g
  <2>4. Due(g, n)' = Due(g, target)
    BY <1>1, <1>13, DueSame
  <2>5. Due(g, target) = Due(g, manifest) + new(u, a) /\ new(u, a) \in Nat
    BY <1>1, <2>1, <2>2, DueStaged
  <2>6. Due(g, manifest) \in Nat
    BY <1>1, <2>1, DueIs
  <2>7. TotalsOf(u)'[a] = TotalsOf(u)[a] + new(u, a)
    BY <1>12, <1>13
  <2>8. /\ TotalsOf(u)'[a] \in Nat /\ TotalsOf(u)'[a] >= Due(g, n)'
        /\ crashes = 0 => TotalsOf(u)'[a] = Due(g, n)'
    BY <2>3, <2>4, <2>5, <2>6, <2>7
  <2>. QED BY <2>8 DEF g
<1>14. ASSUME NEW u, NEW n, n = target
       PROVE  /\ Due(OfUser(u), n)' # 0 => u \in U
              /\ crashes = 0 /\ u \in U => Due(OfUser(u), n)' # 0
  <2> DEFINE g == OfUser(u)
  <2>1. \A x \in Versions : g[x] \in Nat
    BY OfAreNumbers
  <2>2. u \in DOMAIN delta <=> Weigh(Staged("history"), g) # 0
    BY <1>3
  <2>3. /\ Due(g, manifest) # 0 => u \in Users
        /\ crashes = 0 /\ u \in Users => Due(g, manifest) # 0
    BY DEF TotalsCover
  <2> HIDE DEF g
  <2>4. Due(g, n)' = Due(g, target)
    BY <1>1, <1>14, DueSame
  <2>5. /\ Due(g, target) = Due(g, manifest) + Weigh(Staged("history"), g)
        /\ Weigh(Staged("history"), g) \in Nat
    BY <1>1, <2>1, DueStaged
  <2>6. Due(g, manifest) \in Nat
    BY <1>1, <2>1, DueIs
  <2>7. /\ Due(g, n)' # 0 => u \in U
        /\ crashes = 0 /\ u \in U => Due(g, n)' # 0
    BY <2>2, <2>3, <2>4, <2>5, <2>6
  <2>. QED BY <2>7 DEF g
<1> HIDE DEF U
<1>. QED BY <1>1, <1>11, <1>13, <1>14 DEF TotalsCover

-----------------------------------------------------------------------------
(* The tables through the runs *)

\* The batch the history, and the totals, reach: the target once a run has
\* rewritten them.
HistoryMark == IF phase \in {"suspects", "manifest"} THEN target ELSE manifest

TotalsMark == IF phase \in {"history", "suspects", "manifest"} THEN target ELSE manifest

CountsAreSound ==
  /\ HistoryIsSound
  /\ phase # "none" => /\ \A n : n = HistoryMark => HistoryCovers(n)
                       /\ \A n : n = TotalsMark => TotalsCover(n)

LEMMA MarksStay ==
  ASSUME [Next]_vars
  PROVE  \/ Import \/ WriteRanking \/ WriteHistory \/ Crash
         \/ /\ UNCHANGED <<imported, batches, totals, history, crashes>>
            /\ HistoryMark' = HistoryMark /\ TotalsMark' = TotalsMark
            /\ phase' # "none" => phase # "none"
<1> USE DEF HistoryMark, TotalsMark
<1>1. CASE Import BY <1>1
<1>2. CASE WriteRanking BY <1>2
<1>3. CASE WriteHistory BY <1>3
<1>4. CASE Crash BY <1>4
<1>5. CASE StartRun
  <2>1. phase = "idle" /\ phase' = "scan" /\ UNCHANGED <<imported, batches, totals, history, crashes, manifest>>
    BY <1>5 DEF StartRun, tables
  <2>. QED BY <2>1
<1>6. CASE Scan
  <2>1. /\ phase = "scan" /\ phase' \in {"minutes", "scan"}
        /\ UNCHANGED <<imported, batches, totals, history, crashes, manifest>>
    BY <1>6 DEF Scan, tables
  <2>. QED BY <2>1
<1>7. ASSUME NEW root \in Roots, NEW next \in {"cells", "tags", "moves", "ranking"}, Fold(root, next)
      PROVE  /\ UNCHANGED <<imported, batches, totals, history, crashes>>
             /\ HistoryMark' = HistoryMark /\ TotalsMark' = TotalsMark
             /\ phase' # "none" => phase # "none"
  <2>1. /\ phase = root /\ phase' = next
        /\ UNCHANGED <<imported, batches, totals, history, crashes, manifest>>
    BY <1>7 DEF Fold, tables
  <2>. QED BY <2>1 DEF Roots
<1>8. CASE FoldMinutes BY <1>7, <1>8 DEF FoldMinutes, Roots
<1>9. CASE FoldCells BY <1>7, <1>9 DEF FoldCells, Roots
<1>10. CASE FoldTags BY <1>7, <1>10 DEF FoldTags, Roots
<1>11. CASE FoldLangs BY <1>7, <1>11 DEF FoldLangs, Roots
<1>12. CASE FlagMoves
  <2>1. /\ phase = "moves" /\ phase' = "langs"
        /\ UNCHANGED <<imported, batches, totals, history, crashes, manifest>>
    BY <1>12 DEF FlagMoves, tables
  <2>. QED BY <2>1
<1>13. CASE WriteSuspects
  <2>1. /\ phase = "suspects" /\ phase' = "manifest"
        /\ UNCHANGED <<imported, batches, totals, history, crashes, manifest, target>>
    BY <1>13 DEF WriteSuspects
  <2>. QED BY <2>1
<1>14. CASE WriteManifest
  <2>1. /\ phase = "manifest" /\ phase' = "idle" /\ manifest' = target
        /\ UNCHANGED <<imported, batches, totals, history, crashes>>
    BY <1>14 DEF WriteManifest, tables
  <2>. QED BY <2>1
<1>15. CASE UNCHANGED vars BY <1>15 DEF vars, tables
<1>. QED BY <1>1, <1>2, <1>3, <1>4, <1>5, <1>6, <1>8, <1>9, <1>10, <1>11, <1>12, <1>13, <1>14, <1>15
         DEF Next, Done

LEMMA CountsAreSoundInit == Init => CountsAreSound
BY HistoryIsSoundInit DEF Init, CountsAreSound

LEMMA CountsAreSoundStep == CountsAreSound /\ [Next]_vars => CountsAreSound'
<1> SUFFICES ASSUME CountsAreSound, [Next]_vars PROVE CountsAreSound'
  OBVIOUS
<1>1. HistoryIsSound /\ RunIsSound /\ HistoryIsSound'
  BY HistoryIsSoundStep DEF CountsAreSound, HistoryIsSound
<1>2. manifest \in 0..Len(batches) /\ target \in 0..Len(batches) /\ crashes \in Nat
  BY <1>1 DEF RunIsSound
<1>3. SUFFICES phase' # "none" => /\ \A n : n = HistoryMark' => HistoryCovers(n)'
                                  /\ \A n : n = TotalsMark' => TotalsCover(n)'
  BY <1>1 DEF CountsAreSound
<1>4. CASE Import
  <2>1. HistoryCovers(0)' /\ TotalsCover(0)'
    BY <1>1, <1>4, ImportCovers, ImportTotals
  <2>2. manifest' = 0 /\ phase' = "idle"
    BY <1>1, <1>4 DEF Import, RunIsSound
  <2>3. HistoryMark' = 0 /\ TotalsMark' = 0
    BY <2>2 DEF HistoryMark, TotalsMark
  <2>4. ASSUME NEW n, n = 0 PROVE HistoryCovers(n)' /\ TotalsCover(n)'
    BY <2>1, <2>4
  <2>. QED BY <2>3, <2>4
<1>5. CASE WriteHistory
  <2>1. /\ phase = "history" /\ phase' = "suspects" /\ target' = target
        /\ UNCHANGED <<imported, batches, totals, crashes>>
    BY <1>5 DEF WriteHistory
  <2>2. HistoryMark = manifest /\ HistoryMark' = target /\ TotalsMark = target /\ TotalsMark' = target
    BY <2>1 DEF HistoryMark, TotalsMark
  <2>3. HistoryCovers(manifest) /\ \A n : n = target => TotalsCover(n)
    BY <2>1, <2>2 DEF CountsAreSound
  <2>4. \A n : n = target => HistoryCovers(n)'
    BY <1>1, <1>5, <2>3, RewriteCovers
  <2>5. \A n : n = target => TotalsCover(n)'
    BY <1>1, <2>1, <2>3, TotalsCoverStays
  <2>. QED BY <2>2, <2>4, <2>5
<1>6. CASE WriteRanking
  <2>1. /\ phase = "ranking" /\ target' = target /\ manifest' = manifest /\ phase' \in {"history", "manifest"}
        /\ UNCHANGED <<imported, batches, history, crashes>>
    BY <1>6 DEF WriteRanking
  <2>2. HistoryMark = manifest /\ TotalsMark = manifest
    BY <2>1 DEF HistoryMark, TotalsMark
  <2>3. HistoryCovers(manifest) /\ TotalsCover(manifest)
    BY <2>1, <2>2 DEF CountsAreSound
  <2>4. CASE stage["history"] # {}
    <3>1. phase' = "history"
      BY <1>6, <2>4 DEF WriteRanking
    <3>2. HistoryMark' = manifest /\ TotalsMark' = target
      BY <2>1, <3>1 DEF HistoryMark, TotalsMark
    <3>3. \A n : n = target => TotalsCover(n)'
      BY <1>1, <1>6, <2>3, <2>4, RankingCovers
    <3>4. \A n : n = manifest => HistoryCovers(n)'
      BY <1>1, <2>1, <2>3, HistoryCoversStays
    <3>. QED BY <3>2, <3>3, <3>4
  <2>5. CASE stage["history"] = {}
    <3>1. phase' = "manifest" /\ totals' = totals
      BY <1>6, <2>5 DEF WriteRanking
    <3>2. HistoryMark' = target /\ TotalsMark' = target
      BY <2>1, <3>1 DEF HistoryMark, TotalsMark
    <3>3. \A g : (\A x \in Versions : g[x] \in Nat) => Due(g, target) = Due(g, manifest)
      BY <1>1, <2>1, <2>5, DueStaged
    <3>4. HistoryCovers(target)
      <4>1. ASSUME NEW k PROVE Due(OfDay(k), target) = Due(OfDay(k), manifest)
        <5>1. \A x \in Versions : OfDay(k)[x] \in Nat
          BY OnesAreNumbers DEF OfDay
        <5>. QED BY <3>3, <5>1
      <4>. QED BY <2>3, <4>1 DEF HistoryCovers
    <3>5. TotalsCover(target)
      <4>1. ASSUME NEW u PROVE Due(OfUser(u), target) = Due(OfUser(u), manifest)
        BY <3>3, OfAreNumbers
      <4>2. ASSUME NEW u, NEW a PROVE Due(OfAspect(u, a), target) = Due(OfAspect(u, a), manifest)
        BY <3>3, OfAreNumbers
      <4>. QED BY <2>3, <4>1, <4>2 DEF TotalsCover
    <3>6. \A n : n = target => HistoryCovers(n)' /\ TotalsCover(n)'
      BY <1>1, <2>1, <3>1, <3>4, <3>5, HistoryCoversStays, TotalsCoverStays
    <3>. QED BY <3>2, <3>6
  <2>. QED BY <2>4, <2>5
<1>7. CASE Crash
  <2>1. /\ phase \notin {"none", "idle"} /\ phase' = "idle" /\ manifest' = manifest /\ crashes' = crashes + 1
        /\ UNCHANGED <<imported, batches, totals, history>>
    BY <1>7 DEF Crash, tables
  <2>2. HistoryMark' = manifest /\ TotalsMark' = manifest
    BY <2>1 DEF HistoryMark, TotalsMark
  <2>3. manifest < target /\ HistoryMark \in {manifest, target} /\ TotalsMark \in {manifest, target}
    <3>1. phase \in RunPhases
      BY <1>1, <2>1 DEF RunIsSound
    <3>. QED BY <1>1, <3>1 DEF RunIsSound, HistoryMark, TotalsMark
  <2>4. HistoryCovers(HistoryMark) /\ TotalsCover(TotalsMark)
    BY <2>1 DEF CountsAreSound
  <2>5. /\ HistoryMark \in 0..Len(batches) /\ manifest \in 0..HistoryMark
        /\ TotalsMark \in 0..Len(batches) /\ manifest \in 0..TotalsMark
    BY <1>2, <2>3
  <2>6. ASSUME NEW n, n = manifest PROVE HistoryCovers(n)' /\ TotalsCover(n)'
    <3>1. n \in 0..HistoryMark /\ n \in 0..TotalsMark
      BY <2>5, <2>6
    <3> DEFINE h == HistoryMark
               t == TotalsMark
    <3>2. h \in 0..Len(batches) /\ t \in 0..Len(batches) /\ n \in 0..h /\ n \in 0..t
          /\ HistoryCovers(h) /\ TotalsCover(t)
      BY <2>4, <2>5, <3>1
    <3> HIDE DEF h, t
    <3>. QED BY <1>1, <2>1, <3>2, HistoryCoversLess, TotalsCoverLess
  <2>. QED BY <2>2, <2>6
<1>8. CASE /\ UNCHANGED <<imported, batches, totals, history, crashes>>
           /\ HistoryMark' = HistoryMark /\ TotalsMark' = TotalsMark
           /\ phase' # "none" => phase # "none"
  <2>1. phase' # "none" => /\ \A n : n = HistoryMark => HistoryCovers(n)
                           /\ \A n : n = TotalsMark => TotalsCover(n)
    BY <1>8 DEF CountsAreSound
  <2>2. \A n : (HistoryCovers(n) => HistoryCovers(n)') /\ (TotalsCover(n) => TotalsCover(n)')
    BY <1>1, <1>8, HistoryCoversStays, TotalsCoverStays
  <2>. QED BY <1>8, <2>1, <2>2
<1>. QED BY <1>4, <1>5, <1>6, <1>7, <1>8, MarksStay

LEMMA CountsAreSoundAlways == Spec => []CountsAreSound
BY CountsAreSoundInit, CountsAreSoundStep, PTL DEF Spec

\* At rest the tables count every version of the import and of the manifest's
\* batches, exactly so without a crash.
THEOREM TablesCoverTheStream == Spec => []CountsCoverStream
<1>1. ASSUME CountsAreSound, phase = "idle" PROVE CountsCoverStream
  <2> DEFINE versions == imported \o Prefix(manifest)
             days == DayCounts(versions)
             sums == Totals(versions)
  <2>1. HistoryCovers(manifest) /\ TotalsCover(manifest) /\ RunIsSound
    BY <1>1 DEF CountsAreSound, HistoryMark, TotalsMark, HistoryIsSound
  <2>2. manifest \in 0..Len(batches)
    BY <2>1 DEF RunIsSound
  <2>3. versions \in Seq(Versions)
    BY <2>1, <2>2, OfAreNumbers, DueIs
  <2>4. \A g : (\A x \in Versions : g[x] \in Nat) => Weigh(versions, g) = Due(g, manifest)
    BY <2>1, <2>2, DueIs
  <2> HIDE DEF versions
  <2>5. ASSUME NEW k
        PROVE  /\ k \in DOMAIN days <=> Due(OfDay(k), manifest) # 0
               /\ k \in DOMAIN days => days[k] = Due(OfDay(k), manifest)
               /\ Due(OfDay(k), manifest) \in Nat
    <3>1. \A x \in Versions : OfDay(k)[x] \in Nat
      BY OnesAreNumbers DEF OfDay
    <3>2. Weigh(versions, OfDay(k)) = Due(OfDay(k), manifest)
      BY <2>4, <3>1
    <3>. QED BY <2>3, <3>2, DayCountsAre
  <2>6. /\ \A u : u \in DOMAIN sums <=> Due(OfUser(u), manifest) # 0
        /\ \A u \in DOMAIN sums : sums[u] = [a \in Aspects |-> Due(OfAspect(u, a), manifest)]
    <3>1. /\ \A u : Weigh(versions, OfUser(u)) = Due(OfUser(u), manifest)
          /\ \A u, a : Weigh(versions, OfAspect(u, a)) = Due(OfAspect(u, a), manifest)
      BY <2>4, OfAreNumbers
    <3>2. /\ \A u : u \in DOMAIN sums <=> Weigh(versions, OfUser(u)) # 0
          /\ \A u \in DOMAIN sums : sums[u] = [a \in Aspects |-> Weigh(versions, OfAspect(u, a))]
      BY <2>3, TotalsAre
    <3>. QED BY <3>1, <3>2
  <2>7. \A k : /\ WasCount(k) \in Nat /\ k \in DOMAIN Base <=> WasCount(k) # 0
               /\ WasCount(k) >= Due(OfDay(k), manifest)
               /\ crashes = 0 => WasCount(k) = Due(OfDay(k), manifest)
    BY <2>1 DEF HistoryCovers
  <2>8. \A k \in DOMAIN Base : WasCount(k) = Base[k].count
    BY DEF WasCount
  <2> HIDE DEF days, sums
  <2>9. \A k \in DOMAIN days : k \in DOMAIN Base /\ Base[k].count >= days[k]
    <3> TAKE k \in DOMAIN days
    <3>1. k \in DOMAIN Base
      BY <2>5, <2>7
    <3>. QED BY <2>5, <2>7, <2>8, <3>1
  <2>10. crashes = 0 => /\ DOMAIN Base = DOMAIN days
                        /\ \A k \in DOMAIN days : Base[k].count = days[k]
    <3> SUFFICES ASSUME crashes = 0 PROVE DOMAIN Base = DOMAIN days /\ \A k \in DOMAIN days : Base[k].count = days[k]
      OBVIOUS
    <3>1. \A k : k \in DOMAIN Base <=> k \in DOMAIN days
      BY <2>5, <2>7
    <3>. QED BY <2>5, <2>7, <2>8, <3>1
  <2>11. /\ \A u : /\ Due(OfUser(u), manifest) # 0 => u \in Users
                   /\ crashes = 0 /\ u \in Users => Due(OfUser(u), manifest) # 0
         /\ \A u, a : a \in Aspects => /\ TotalsOf(u)[a] \in Nat
                                       /\ TotalsOf(u)[a] >= Due(OfAspect(u, a), manifest)
                                       /\ crashes = 0 => TotalsOf(u)[a] = Due(OfAspect(u, a), manifest)
    BY <2>1 DEF TotalsCover
  <2>12. \A u \in Users : totals[u] = TotalsOf(u)
    BY DEF Users, TotalsOf
  <2>13. \A u \in DOMAIN sums : u \in Users /\ \A a \in Aspects : totals[u][a] >= sums[u][a]
    BY <2>6, <2>11, <2>12
  <2>14. \A u \in Users : DOMAIN totals[u] = Aspects /\ totals[u] = [a \in Aspects |-> totals[u][a]]
    <3>1. TotalsTyped
      BY <2>1 DEF TotalsCover
    <3>. QED BY <3>1 DEF TotalsTyped, Users
  <2>15. crashes = 0 => Users = DOMAIN sums /\ \A u \in Users : totals[u] = sums[u]
    <3> SUFFICES ASSUME crashes = 0 PROVE Users = DOMAIN sums /\ \A u \in Users : totals[u] = sums[u]
      OBVIOUS
    <3>1. \A u : u \in Users <=> u \in DOMAIN sums
      BY <2>6, <2>11
    <3>2. ASSUME NEW u \in Users PROVE totals[u] = sums[u]
      <4>1. \A a \in Aspects : totals[u][a] = Due(OfAspect(u, a), manifest)
        BY <2>11, <2>12
      <4>2. sums[u] = [a \in Aspects |-> Due(OfAspect(u, a), manifest)]
        BY <2>6, <3>1
      <4>. QED BY <2>14, <4>1, <4>2
    <3>. QED BY <3>1, <3>2
  <2>. QED BY <2>9, <2>10, <2>13, <2>15 DEF CountsCoverStream, versions, days, sums
<1>2. CountsAreSound => CountsCoverStream
  <2>1. CASE phase = "idle"
    BY <1>1, <2>1
  <2>2. CASE phase # "idle"
    BY <2>2 DEF CountsCoverStream
  <2>. QED BY <2>1, <2>2
<1>. QED BY <1>2, CountsAreSoundAlways, PTL

-----------------------------------------------------------------------------
(* Factorials *)

LEMMA UnitIs ==
  ASSUME NEW t, Cardinality(DOMAIN t) \in Nat
  PROVE  /\ Unit(t) \in Nat \ {0}
         /\ \A d \in 1..Cardinality(DOMAIN t) :
              Unit(t) \div d \in Nat /\ d * (Unit(t) \div d) = Unit(t)
<1> DEFINE n == Cardinality(DOMAIN t)
           p == CHOOSE q : Factorial(q, n)
<1>1. Unit(t) = p[n]
  BY DEF Unit, Factorial
<1> HIDE DEF n
<1>2. n \in Nat
  BY DEF n
<1>3. Factorial(p, n)
  BY <1>2, FactorialExists
<1> HIDE DEF p
<1>4. /\ p[n] \in Nat \ {0}
      /\ \A d \in 1..n : \E m \in Nat : p[n] = m * d
  BY <1>2, <1>3, FactorialIs
<1> DEFINE u == Unit(t)
<1>5. u \in Nat \ {0} /\ \A d \in 1..n : \E m \in Nat : u = m * d
  BY <1>1, <1>4
<1> HIDE DEF u
<1>6. ASSUME NEW d \in 1..n PROVE u \div d \in Nat /\ d * (u \div d) = u
  <2>1. PICK m \in Nat : u = m * d
    BY <1>5
  <2>2. d \in Nat \ {0}
    BY <1>2
  <2>3. u \div d = m
    BY <2>1, <2>2, QuotientExact
  <2>4. d * m = m * d
    BY <2>2
  <2>. QED BY <2>1, <2>3, <2>4
<1>. QED BY <1>5, <1>6 DEF u, n

-----------------------------------------------------------------------------
(* The ranking *)

LEMMA PointsAre ==
  ASSUME NEW U, IsFiniteSet(U), NEW t \in [U -> [Aspects -> Nat]], NEW a \in Aspects
  PROVE  /\ \A u \in U : Points(t, a, u) \in Nat
         /\ \A u, w \in U : t[u][a] <= t[w][a] => Points(t, a, u) <= Points(t, a, w)
         /\ \A u \in U : t[u][a] = 0 => Points(t, a, u) = 0
         /\ \A w \in U : t[w][a] > 0 /\ (\A o \in U \ {w} : t[o][a] < t[w][a])
                           => Points(t, a, w) = Caps[a] * Unit(t)
<1> DEFINE A == Active(t, a)
           others == Cardinality(A) - 1
           unit == Unit(t)
           cap == Caps[a]
           F(u) == {w \in A : t[w][a] < t[u][a]}
           fewer(u) == Cardinality(F(u))
           share == unit \div others
<1>1. DOMAIN t = U /\ \A u \in U : t[u][a] \in Nat
  OBVIOUS
<1>2. A = {u \in U : t[u][a] > 0}
  BY <1>1 DEF Active
<1>3. IsFiniteSet(A) /\ Cardinality(A) \in Nat /\ Cardinality(A) <= Cardinality(U) /\ Cardinality(U) \in Nat
  <2>1. A \in SUBSET U
    BY <1>2
  <2> HIDE DEF A
  <2>. QED BY <2>1, FS_Subset, FS_CardinalityType
<1>4. unit \in Nat \ {0} /\ \A d \in 1..Cardinality(U) : unit \div d \in Nat /\ d * (unit \div d) = unit
  BY <1>1, <1>3, UnitIs
<1>5. cap \in Nat
  BY RankingIsInPoints DEF Aspects
<1>6. \A u : Points(t, a, u) = IF u \notin A THEN 0 ELSE IF others = 0 THEN cap * unit
                               ELSE cap * fewer(u) * share
  BY DEF Points, FewerThan
<1>7. \A u : IsFiniteSet(F(u)) /\ fewer(u) \in Nat /\ F(u) \subseteq A
  <2> TAKE u
  <2>1. F(u) \in SUBSET A
    OBVIOUS
  <2> HIDE DEF F, A
  <2>. QED BY <1>3, <2>1, FS_Subset, FS_CardinalityType
<1>8. ASSUME NEW u \in A PROVE fewer(u) <= others /\ others \in Nat
  <2>1. u \in U /\ u \notin F(u)
    BY <1>1, <1>2
  <2>2. F(u) \in SUBSET (A \ {u})
    BY <2>1
  <2> HIDE DEF F, A
  <2>3. /\ IsFiniteSet(A \ {u}) /\ Cardinality(A \ {u}) \in Nat
        /\ Cardinality(A) = Cardinality(A \ {u}) + 1
    BY <1>3, OneLess
  <2>4. fewer(u) <= Cardinality(A \ {u})
    BY <2>2, <2>3, FS_Subset
  <2>. QED BY <1>7, <2>3, <2>4
<1> HIDE DEF unit
<1>9. others # 0 /\ A # {} => share \in Nat /\ others * share = unit /\ others \in Nat
  <2> SUFFICES ASSUME others # 0, NEW u \in A PROVE share \in Nat /\ others * share = unit /\ others \in Nat
    OBVIOUS
  <2>1. others \in Nat
    BY <1>8
  <2>2. others \in 1..Cardinality(U)
    BY <1>3, <2>1
  <2> HIDE DEF others
  <2>. QED BY <1>4, <2>1, <2>2
<1>10. ASSUME NEW u \in U, NEW w \in U, t[u][a] <= t[w][a]
       PROVE  (u \in A => w \in A) /\ fewer(u) <= fewer(w)
  <2>1. u \in A => w \in A
    BY <1>1, <1>2, <1>10
  <2>2. F(u) \in SUBSET F(w)
    <3> SUFFICES ASSUME NEW o \in A, t[o][a] < t[u][a] PROVE t[o][a] < t[w][a]
      OBVIOUS
    <3>1. t[o][a] \in Nat /\ t[u][a] \in Nat /\ t[w][a] \in Nat
      BY <1>1, <1>2
    <3>. QED BY <1>10, <3>1
  <2> HIDE DEF F
  <2>3. fewer(u) <= fewer(w)
    BY <1>7, <2>2, FS_Subset
  <2>. QED BY <2>1, <2>3
<1>11. ASSUME NEW w \in U, t[w][a] > 0, \A o \in U \ {w} : t[o][a] < t[w][a]
       PROVE  w \in A /\ fewer(w) = others
  <2>1. w \in A
    BY <1>2, <1>11
  <2>2. F(w) = A \ {w}
    <3>1. ASSUME NEW o \in A PROVE o \in F(w) <=> o # w
      <4>1. o \in U /\ t[w][a] \in Nat
        BY <1>1, <1>2
      <4>. QED BY <1>11, <4>1
    <3>. QED BY <3>1
  <2> HIDE DEF F, A
  <2>3. Cardinality(A) = Cardinality(A \ {w}) + 1 /\ Cardinality(A \ {w}) \in Nat
    BY <1>3, <2>1, OneLess
  <2>. QED BY <2>1, <2>2, <2>3
<1> HIDE DEF A, others, share, cap, fewer
<1>12. ASSUME NEW u \in U PROVE Points(t, a, u) \in Nat
  <2>1. CASE u \in A /\ others # 0
    <3>1. share \in Nat /\ fewer(u) \in Nat
      BY <1>7, <1>9, <2>1
    <3>. QED BY <1>5, <1>6, <2>1, <3>1
  <2>2. CASE ~(u \in A /\ others # 0)
    BY <1>4, <1>5, <1>6, <2>2
  <2>. QED BY <2>1, <2>2
<1>13. ASSUME NEW u \in U, NEW w \in U, t[u][a] <= t[w][a] PROVE Points(t, a, u) <= Points(t, a, w)
  <2>1. CASE u \in A /\ others # 0
    <3>1. share \in Nat /\ fewer(u) \in Nat /\ fewer(w) \in Nat /\ w \in A /\ fewer(u) <= fewer(w)
      BY <1>7, <1>9, <1>10, <1>13, <2>1
    <3>2. fewer(u) * (cap * share) <= fewer(w) * (cap * share)
      <4>1. cap * share \in Nat
        BY <1>5, <3>1
      <4>. QED BY <3>1, <4>1, TimesMonotone
    <3>3. \A n \in Nat : cap * n * share = n * (cap * share)
      BY <1>5, <3>1
    <3>4. Points(t, a, u) = cap * fewer(u) * share /\ Points(t, a, w) = cap * fewer(w) * share
      BY <1>6, <2>1, <3>1
    <3>. QED BY <3>1, <3>2, <3>3, <3>4
  <2>2. CASE u \in A /\ others = 0
    <3>1. w \in A
      BY <1>10, <1>13, <2>2
    <3>2. Points(t, a, u) = Points(t, a, w)
      BY <1>6, <2>2, <3>1
    <3>. QED BY <1>12, <3>2
  <2>3. CASE u \notin A
    <3>1. Points(t, a, u) = 0 /\ Points(t, a, w) \in Nat
      BY <1>6, <1>12, <2>3
    <3>. QED BY <3>1
  <2>. QED BY <2>1, <2>2, <2>3
<1>14. ASSUME NEW u \in U, t[u][a] = 0 PROVE Points(t, a, u) = 0
  BY <1>2, <1>6, <1>14
<1>15. ASSUME NEW w \in U, t[w][a] > 0, \A o \in U \ {w} : t[o][a] < t[w][a]
       PROVE  Points(t, a, w) = cap * unit
  <2>1. w \in A /\ fewer(w) = others
    BY <1>11, <1>15
  <2>2. CASE others = 0
    BY <1>6, <2>1, <2>2
  <2>3. CASE others # 0
    <3>1. share \in Nat /\ others * share = unit /\ others \in Nat
      BY <1>9, <2>1, <2>3
    <3>2. Points(t, a, w) = cap * others * share
      BY <1>6, <2>1, <2>3
    <3>3. cap * others * share = cap * (others * share)
      BY <1>5, <3>1
    <3>. QED BY <3>1, <3>2, <3>3
  <2>. QED BY <2>2, <2>3
<1>16. \A u, w \in U : t[u][a] <= t[w][a] => Points(t, a, u) <= Points(t, a, w)
  BY <1>13
<1>17. \A w \in U : t[w][a] > 0 /\ (\A o \in U \ {w} : t[o][a] < t[w][a])
                      => Points(t, a, w) = Caps[a] * Unit(t)
  BY <1>15 DEF cap, unit
<1>. QED BY <1>12, <1>14, <1>16, <1>17

LEMMA AspectsAreFinite == IsFiniteSet(Aspects)
<1> DEFINE h == [t \in TopTags |-> 3 + t]
<1>1. {3 + t : t \in TopTags} = {h[t] : t \in TopTags}
  OBVIOUS
<1>2. IsFiniteSet({h[t] : t \in TopTags})
  <2> HIDE DEF h
  <2>. QED BY TagsAreNumbers, ImageIsFinite
<1>3. {1, 2, 3} = {1} \cup ({2} \cup {3})
  OBVIOUS
<1>4. IsFiniteSet({1, 2, 3})
  <2>1. IsFiniteSet({1}) /\ IsFiniteSet({2}) /\ IsFiniteSet({3})
    BY FS_Singleton
  <2>2. IsFiniteSet({2} \cup {3})
    BY <2>1, FS_Union
  <2>3. IsFiniteSet({1} \cup ({2} \cup {3}))
    BY <2>1, <2>2, FS_Union
  <2>. QED BY <1>3, <2>3
<1>. QED BY <1>1, <1>2, <1>4, FS_Union DEF Aspects

LEMMA RankingIs ==
  ASSUME NEW U, IsFiniteSet(U), NEW t \in [U -> [Aspects -> Nat]]
  PROVE  /\ \A u \in U : Ranking(t, u) \in 0..100
         /\ \A u, w \in U : (\A a \in Aspects : t[u][a] <= t[w][a]) => Ranking(t, u) <= Ranking(t, w)
         /\ \A u \in U : (\A a \in Aspects : t[u][a] = 0) => Ranking(t, u) = 0
         /\ \A w \in U : (\A a \in Aspects : t[w][a] > 0 /\ \A o \in U \ {w} : t[o][a] < t[w][a])
                           => Ranking(t, w) = Min({100, SumFunction([a \in Aspects |-> Caps[a]])})
<1> DEFINE unit == Unit(t)
           pts(u) == [a \in Aspects |-> Points(t, a, u)]
           sum(u) == SumFunctionOnSet(pts(u), Aspects)
           caps == [a \in Aspects |-> Caps[a]]
<1>1. unit \in Nat \ {0}
  <2>1. Cardinality(DOMAIN t) \in Nat
    BY FS_CardinalityType
  <2>. QED BY <2>1, UnitIs
<1>2. \A u : Ranking(t, u) = Rounded(sum(u), unit)
  BY DEF Ranking, SumFunction, Rounded
<1>3. \A a \in Aspects :
        /\ \A u \in U : Points(t, a, u) \in Nat
        /\ \A u, w \in U : t[u][a] <= t[w][a] => Points(t, a, u) <= Points(t, a, w)
        /\ \A u \in U : t[u][a] = 0 => Points(t, a, u) = 0
        /\ \A w \in U : t[w][a] > 0 /\ (\A o \in U \ {w} : t[o][a] < t[w][a])
                           => Points(t, a, w) = Caps[a] * Unit(t)
  BY PointsAre
<1> HIDE DEF unit
<1>4. \A u \in U : \A a \in Aspects : pts(u)[a] \in Nat /\ pts(u)[a] = Points(t, a, u)
  BY <1>3
<1> HIDE DEF pts
<1>5. \A u \in U : sum(u) \in Nat
  BY <1>4, AspectsAreFinite, SumNat
<1>6. ASSUME NEW u \in U, NEW w \in U, \A a \in Aspects : t[u][a] <= t[w][a]
      PROVE  sum(u) <= sum(w)
  <2>1. \A a \in Aspects : pts(u)[a] <= pts(w)[a] /\ pts(u)[a] \in Int /\ pts(w)[a] \in Int
    BY <1>3, <1>4, <1>6
  <2>. QED BY <2>1, AspectsAreFinite, SumLeq
<1>7. ASSUME NEW u \in U, \A a \in Aspects : t[u][a] = 0 PROVE sum(u) = 0
  <2>1. \A a \in Aspects : pts(u)[a] = 0
    BY <1>3, <1>4, <1>7
  <2>. QED BY <2>1, AspectsAreFinite, SumZero
<1>8. ASSUME NEW w \in U, \A a \in Aspects : t[w][a] > 0 /\ \A o \in U \ {w} : t[o][a] < t[w][a]
      PROVE  sum(w) = SumFunctionOnSet(caps, Aspects) * unit
  <2>1. \A a \in Aspects : caps[a] = Caps[a] /\ Caps[a] \in Int
    BY RankingIsInPoints DEF Aspects
  <2>2. \A a \in Aspects : pts(w)[a] = Caps[a] * unit
    BY <1>3, <1>4, <1>8 DEF unit
  <2> HIDE DEF caps
  <2>3. \A a \in Aspects : caps[a] \in Int /\ pts(w)[a] = caps[a] * unit
    BY <2>1, <2>2
  <2>4. unit \in Int
    BY <1>1
  <2>. QED BY <2>3, <2>4, AspectsAreFinite, SumTimes
<1>9. SumFunction([a \in Aspects |-> Caps[a]]) = SumFunctionOnSet(caps, Aspects)
  BY DEF SumFunction
<1>10. SumFunctionOnSet(caps, Aspects) \in Nat
  <2>1. \A a \in Aspects : caps[a] \in Nat
    BY RankingIsInPoints DEF Aspects
  <2> HIDE DEF caps
  <2>. QED BY <2>1, AspectsAreFinite, SumNat
<1> HIDE DEF sum, caps
<1>11. /\ \A s \in Nat : Rounded(s, unit) \in 0..100
       /\ \A s, r \in Nat : s <= r => Rounded(s, unit) <= Rounded(r, unit)
       /\ Rounded(0, unit) = 0
       /\ \A c \in Nat : Rounded(c * unit, unit) = Min({100, c})
  BY <1>1, RoundedIs
<1>12. \A u \in U : Ranking(t, u) \in 0..100
  BY <1>2, <1>5, <1>11
<1>13. \A u, w \in U : (\A a \in Aspects : t[u][a] <= t[w][a]) => Ranking(t, u) <= Ranking(t, w)
  BY <1>2, <1>5, <1>6, <1>11
<1>14. \A u \in U : (\A a \in Aspects : t[u][a] = 0) => Ranking(t, u) = 0
  BY <1>2, <1>7, <1>11
<1>15. \A w \in U : (\A a \in Aspects : t[w][a] > 0 /\ \A o \in U \ {w} : t[o][a] < t[w][a])
                      => Ranking(t, w) = Min({100, SumFunction([a \in Aspects |-> Caps[a]])})
  BY <1>2, <1>8, <1>9, <1>10, <1>11
<1>. QED BY <1>12, <1>13, <1>14, <1>15

\* The points rank as the totals do, nothing ranks 0 and the best in everything
\* has every cap.
THEOREM RankingFollowsTotals == Spec => []RankingRespectsTotals
<1>1. ASSUME TotalsTyped PROVE RankingRespectsTotals
  <2>1. CASE totals = Absent
    BY <2>1 DEF RankingRespectsTotals, Users
  <2>2. CASE totals # Absent
    <3>1. PICK U \in SUBSET Uids : IsFiniteSet(U) /\ totals \in [U -> [Aspects -> Nat]]
      BY <1>1, <2>2 DEF TotalsTyped
    <3>2. Users = U
      BY <2>2, <3>1 DEF Users
    <3>3. \A u \in U : totals[u] = NoTotals => \A a \in Aspects : totals[u][a] = 0
      BY DEF NoTotals
    <3>4. /\ \A u, w \in U : (\A a \in Aspects : totals[u][a] <= totals[w][a])
                                => Ranking(totals, u) <= Ranking(totals, w)
          /\ \A u \in U : (\A a \in Aspects : totals[u][a] = 0) => Ranking(totals, u) = 0
          /\ \A w \in U : (\A a \in Aspects : totals[w][a] > 0 /\ \A o \in U \ {w} : totals[o][a] < totals[w][a])
                           => Ranking(totals, w) = Min({100, SumFunction([a \in Aspects |-> Caps[a]])})
      BY <3>1, RankingIs
    <3>. QED BY <3>2, <3>3, <3>4 DEF RankingRespectsTotals
  <2>. QED BY <2>1, <2>2
<1>2. CountsAreSound => TotalsTyped
  <2> SUFFICES ASSUME CountsAreSound PROVE TotalsTyped
    OBVIOUS
  <2>1. CASE phase = "none"
    BY <2>1 DEF CountsAreSound, HistoryIsSound, RunIsSound, TotalsTyped
  <2>2. CASE phase # "none"
    BY <2>2 DEF CountsAreSound, TotalsCover
  <2>. QED BY <2>1, <2>2
<1>. QED BY <1>1, <1>2, CountsAreSoundAlways, PTL

-----------------------------------------------------------------------------
(* The stores are prefixes of the stream *)

\* A store is that of a prefix of the stream.
IsAPrefix(r) == stores[r] = Absent \/ \E s \in 1..Len(batches) : stores[r] = Written(Tally(r, Prefix(s)), s)

\* The batches after the stamp, up to the n-th, have nothing for the store.
Quiet(r, n) == \A b \in AppliedSeqOf(stores[r])+1..n : ~HasRows(r, b)

LEMMA TallyOfPrefix ==
  ASSUME RunIsSound, NEW r \in StreamRoots, NEW n \in 0..Len(batches)
  PROVE  /\ IsFiniteSet(DOMAIN Tally(r, Prefix(n))) /\ DOMAIN Tally(r, Prefix(n)) \subseteq Keys(KeyLength[r])
         /\ KeyLength[r] \in Nat
         /\ \A k \in DOMAIN Tally(r, Prefix(n)) : Tally(r, Prefix(n))[k] \in Nat
         /\ Tally(r, Prefix(n)) = [k \in DOMAIN Tally(r, Prefix(n)) |-> Tally(r, Prefix(n))[k]]
<1> DEFINE c == Tally(r, Prefix(n))
<1>1. \A x \in Versions : Ones(Versions, {})[x] \in Int BY OnesAreNumbers
<1>2. Prefix(n) \in Seq(Versions) BY <1>1, WeighPrefix, StreamTypes
<1>3. r \in Roots BY DEF StreamRoots, Roots
<1>4. /\ \A k : /\ Weigh(Prefix(n), OfKey(r, k)) \in Nat
                /\ k \in DOMAIN c => c[k] = Weigh(Prefix(n), OfKey(r, k))
      /\ IsFiniteSet(DOMAIN c) /\ DOMAIN c \subseteq Keys(KeyLength[r])
      /\ c = [k \in DOMAIN c |-> Weigh(Prefix(n), OfKey(r, k))]
  BY <1>2, <1>3, TallyIs
<1>5. KeyLength[r] \in Nat BY DEF KeyLength, StreamRoots
<1> HIDE DEF c
<1>6. \A k \in DOMAIN c : c[k] \in Nat BY <1>4
<1>7. c = [k \in DOMAIN c |-> c[k]] BY <1>4
<1> QED BY <1>4, <1>5, <1>6, <1>7 DEF c

\* The contents and the stamp of a store that is a prefix.
LEMMA PrefixStore ==
  ASSUME RunIsSound, NEW r \in StreamRoots, IsAPrefix(r), NEW s, s = AppliedSeqOf(stores[r])
  PROVE  /\ s \in 0..Len(batches) /\ Contents(stores[r]) = Tally(r, Prefix(s))
         /\ stores[r] = Absent => s = 0
         /\ stores[r] # Absent => s \in 1..Len(batches) /\ stores[r] = Written(Tally(r, Prefix(s)), s)
<1>1. CASE stores[r] = Absent
  <2>1. s = 0 BY <1>1 DEF AppliedSeqOf
  <2>2. Prefix(0) = <<>>
    <3>1. SubSeq(batches, 1, 0) = <<>> BY StreamTypes
    <3> QED BY <3>1, FlattenEmpty DEF Prefix
  <2>3. Contents(stores[r]) = NoRows
    <3>1. Records(stores[r]) = <<>> BY <1>1 DEF Records
    <3>2. {Records(stores[r])[i].key : i \in DOMAIN Records(stores[r])} = {} BY <3>1
    <3> QED BY <3>1, <3>2 DEF Contents, NoRows
  <2>4. Tally(r, <<>>) = NoRows
    <3>1. UNION {KeysOf(r, v) : v \in {<<>>[i] : i \in DOMAIN <<>>}} = {} OBVIOUS
    <3> QED BY <3>1 DEF Tally, NoRows
  <2>5. Len(batches) \in Nat BY StreamTypes
  <2> QED BY <1>1, <2>1, <2>2, <2>3, <2>4, <2>5
<1>2. CASE stores[r] # Absent
  <2>1. PICK n \in 1..Len(batches) : stores[r] = Written(Tally(r, Prefix(n)), n) BY <1>2 DEF IsAPrefix
  <2>2. Len(batches) \in Nat BY StreamTypes
  <2>3. n \in 0..Len(batches) /\ n \in Nat BY <2>2
  <2> DEFINE c == Tally(r, Prefix(n))
             m == KeyLength[r]
  <2>4. /\ IsFiniteSet(DOMAIN c) /\ DOMAIN c \subseteq Keys(m) /\ m \in Nat
        /\ \A k \in DOMAIN c : c[k] \in Nat
        /\ c = [k \in DOMAIN c |-> c[k]]
    BY <2>3, TallyOfPrefix
  <2>6. stores[r] = Written(c, n) BY <2>1
  <2> HIDE DEF c, m
  <2>7. AppliedSeqOf(Written(c, n)) = n BY <2>3, <2>4, ReadsBack
  <2>8. Contents(Written(c, n)) = c BY <2>3, <2>4, ContentsOfWritten
  <2>9. s = n BY <2>6, <2>7
  <2>10. Contents(stores[r]) = Tally(r, Prefix(s)) BY <2>6, <2>8, <2>9 DEF c
  <2>11. stores[r] = Written(Tally(r, Prefix(s)), s) BY <2>1, <2>9
  <2> QED BY <1>2, <2>3, <2>9, <2>10, <2>11
<1> QED BY <1>1, <1>2

\* A batch without rows weighs nothing by a key.
LEMMA NoRowsIs ==
  ASSUME RunIsSound, NEW r \in StreamRoots, NEW b \in DOMAIN batches
  PROVE  /\ batches[b] \in Seq(Versions)
         /\ \A k : /\ Weigh(batches[b], OfKey(r, k)) \in Nat
                   /\ k \in DOMAIN Tally(r, batches[b]) <=> Weigh(batches[b], OfKey(r, k)) # 0
                   /\ CountOf(Tally(r, batches[b]), k) = Weigh(batches[b], OfKey(r, k))
                   /\ ~HasRows(r, b) => Weigh(batches[b], OfKey(r, k)) = 0
<1>1. batches[b] \in Seq(Versions) BY StreamTypes
<1>2. r \in Roots /\ r # "history" /\ r # "moves" BY DEF StreamRoots, Roots
<1>3. \A k : /\ Weigh(batches[b], OfKey(r, k)) \in Nat
             /\ k \in DOMAIN Tally(r, batches[b]) <=> Weigh(batches[b], OfKey(r, k)) # 0
             /\ CountOf(Tally(r, batches[b]), k) = Weigh(batches[b], OfKey(r, k))
  BY <1>1, <1>2, TallyIs
<1>4. HasRows(r, b) <=> Tally(r, batches[b]) # NoRows BY <1>2 DEF HasRows, Roots, StreamRoots
<1>5. ASSUME ~HasRows(r, b), NEW k PROVE Weigh(batches[b], OfKey(r, k)) = 0
  <2>1. Tally(r, batches[b]) = NoRows BY <1>4, <1>5
  <2>2. DOMAIN NoRows = {} BY DEF NoRows
  <2>3. k \notin DOMAIN Tally(r, batches[b]) BY <2>1, <2>2
  <2> QED BY <2>3, <1>3
<1> QED BY <1>1, <1>3, <1>5

\* A fold that finds anything new takes the store to the target.
LEMMA MergedIs ==
  ASSUME RunIsSound, NEW r \in StreamRoots, IsAPrefix(r), Quiet(r, manifest), phase = r, ~AlreadyFolded(r)
  PROVE  /\ Merged(r) = Tally(r, Prefix(target))
         /\ target \in 1..Len(batches)
<1> DEFINE s == AppliedSeqOf(stores[r])
           fresh == {b \in stage[r] : s = 0 \/ b > s}
           base == Contents(stores[r])
           g(k) == OfKey(r, k)
           rows(b) == Tally(r, batches[b])
           part(k) == [b \in fresh |-> CountOf(rows(b), k)]
           whole == Tally(r, Prefix(target))
<1>1. /\ s \in 0..Len(batches) /\ base = Tally(r, Prefix(s))
      /\ stores[r] = Absent => s = 0
  BY PrefixStore
<1>2. Len(batches) \in Nat /\ target \in Nat /\ manifest \in Nat /\ batches \in Seq(Seq(Versions)) BY StreamTypes
<1>3. manifest < target /\ target <= Len(batches)
  <2>1. phase \in RunPhases BY DEF StreamRoots, RunPhases
  <2> QED BY <2>1, <1>2 DEF RunIsSound
<1>4. s < target BY <1>1, <1>2, <1>3 DEF AlreadyFolded
<1>5. stage[r] = {b \in manifest+1..target : HasRows(r, b)}
  <2>1. phase \in Unread[r] /\ r \in StageRoots BY DEF StreamRoots, Unread, StageRoots, Roots
  <2> QED BY <2>1 DEF RunIsSound, RowBatches
<1>6. \A b \in s+1..manifest : ~HasRows(r, b) BY DEF Quiet
<1>7. r \in Roots BY DEF StreamRoots, Roots
<1> HIDE DEF s, base
<1>8. fresh \subseteq s+1..target /\ s+1..target \subseteq DOMAIN batches
  <2>1. s \in Nat BY <1>1, <1>2
  <2>2. DOMAIN batches = 1..Len(batches) BY <1>2
  <2>3. s+1..target \subseteq 1..Len(batches) BY <2>1, <1>2, <1>3
  <2>4. \A b \in stage[r] : b \in Nat /\ 1 <= b /\ b <= target BY <1>2, <1>5
  <2>5. \A b \in fresh : b \in s+1..target BY <2>1, <2>4, <1>2
  <2> QED BY <2>2, <2>3, <2>5
<1>9. ASSUME NEW b \in s+1..target, b \notin fresh PROVE ~HasRows(r, b)
  <2>1. s \in Nat /\ b \in Int /\ b > s /\ b <= target BY <1>1, <1>2
  <2>2. b \notin stage[r] BY <1>9, <2>1
  <2>3. CASE b <= manifest
    <3>1. b \in s+1..manifest BY <1>2, <2>1, <2>3
    <3> QED BY <1>6, <3>1
  <2>4. CASE b > manifest
    <3>1. b \in manifest+1..target BY <1>2, <2>1, <2>4
    <3> QED BY <1>5, <2>2, <3>1
  <2> QED BY <1>2, <2>1, <2>3, <2>4
<1>10. IsFiniteSet(fresh)
  <2>1. IsFiniteSet(s+1..target) BY <1>1, <1>2, FS_Interval
  <2> QED BY <2>1, <1>8, FS_Subset
<1> HIDE DEF fresh
<1>11. ASSUME NEW k PROVE /\ Weigh(Prefix(target), g(k)) = CountOf(base, k) + SumFunction(part(k))
                          /\ Weigh(Prefix(target), g(k)) # 0
                               <=> k \in DOMAIN base \cup UNION {DOMAIN rows(b) : b \in fresh}
  <2> DEFINE w == g(k)
             o == s+1..target
  <2>1. \A x \in Versions : w[x] \in Nat BY OfKeyIsNumbers
  <2>2. \A x \in Versions : w[x] \in Int BY OfKeyIsNumbers
  <2>3. \A b \in DOMAIN batches : /\ Weigh(batches[b], w) \in Nat
                                  /\ k \in DOMAIN rows(b) <=> Weigh(batches[b], w) # 0
                                  /\ CountOf(rows(b), k) = Weigh(batches[b], w)
                                  /\ ~HasRows(r, b) => Weigh(batches[b], w) = 0
    BY NoRowsIs
  <2> HIDE DEF w, rows
  <2>4. target \in 0..Len(batches) BY <1>2, <1>3
  <2>5. Weigh(Prefix(target), w) = Heaped(w, 1..target) BY <1>2, <2>2, <2>4, WeighPrefix
  <2>6. Prefix(s) \in Seq(Versions) /\ Weigh(Prefix(s), w) = Heaped(w, 1..s) BY <1>1, <1>2, <2>2, WeighPrefix
  <2>7. CountOf(base, k) = Heaped(w, 1..s) /\ (k \in DOMAIN base <=> Heaped(w, 1..s) # 0)
    <3>1. /\ k \in DOMAIN Tally(r, Prefix(s)) <=> Weigh(Prefix(s), OfKey(r, k)) # 0
          /\ CountOf(Tally(r, Prefix(s)), k) = Weigh(Prefix(s), OfKey(r, k))
      BY <1>7, <2>6, TallyIs
    <3> QED BY <3>1, <1>1, <2>6 DEF w
  <2>8. (1..s) \cup o = 1..target /\ (1..s) \cap o = {} BY <1>1, <1>2, <1>4
  <2>9. 1..s \in SUBSET (DOMAIN batches) /\ o \in SUBSET (DOMAIN batches) BY <1>1, <1>2, <1>8
  <2> HIDE DEF o
  <2>10. Heaped(w, 1..target) = Heaped(w, 1..s) + Heaped(w, o)
    <3>1. Heaped(w, (1..s) \cup o) = Heaped(w, 1..s) + Heaped(w, o) BY <1>2, <2>2, <2>8, <2>9, HeapedUnion
    <3> QED BY <3>1, <2>8
  <2>11. fresh \in SUBSET o /\ \A b \in o \ fresh : ~HasRows(r, b) BY <1>8, <1>9 DEF o
  <2>12. \A b \in o \ fresh : Weigh(batches[b], w) = 0 BY <2>3, <2>9, <2>11
  <2>13. Heaped(w, o) = Heaped(w, fresh) BY <1>2, <2>2, <2>9, <2>11, <2>12, HeapedInside
  <2>14. SumFunction(part(k)) = Heaped(w, fresh)
    <3> DEFINE p == part(k)
               h == [b \in DOMAIN batches |-> Weigh(batches[b], w)]
    <3>1. \A b \in fresh : p[b] \in Int /\ p[b] = h[b] BY <2>3, <2>9, <2>11
    <3>2. DOMAIN p = fresh OBVIOUS
    <3> HIDE DEF p, h
    <3>3. SumFunctionOnSet(p, fresh) = SumFunctionOnSet(h, fresh) BY <3>1, <1>10, SumSame
    <3>4. SumFunction(p) = SumFunctionOnSet(p, DOMAIN p) BY DEF SumFunction
    <3>5. SumFunction(p) = SumFunctionOnSet(h, fresh) BY <3>2, <3>3, <3>4
    <3> QED BY <3>5 DEF p, h, Heaped
  <2>15. fresh \in SUBSET (DOMAIN batches) BY <2>9, <2>11
  <2>16. /\ Heaped(w, fresh) \in Nat
         /\ Heaped(w, fresh) = 0 <=> \A b \in fresh : Weigh(batches[b], w) = 0
    BY <1>2, <2>1, <2>15, HeapedNat
  <2>17. Heaped(w, 1..s) \in Nat BY <1>2, <2>1, <2>9, HeapedNat
  <2>18. Weigh(Prefix(target), w) = CountOf(base, k) + SumFunction(part(k))
    BY <2>5, <2>7, <2>10, <2>13, <2>14
  <2>19. k \in UNION {DOMAIN rows(b) : b \in fresh} <=> Heaped(w, fresh) # 0 BY <2>3, <2>15, <2>16
  <2>20. Weigh(Prefix(target), w) # 0 <=> k \in DOMAIN base \/ k \in UNION {DOMAIN rows(b) : b \in fresh}
    BY <2>5, <2>7, <2>10, <2>13, <2>16, <2>17, <2>19
  <2> QED BY <2>18, <2>20 DEF w
<1>12. Prefix(target) \in Seq(Versions)
  <2>1. \A x \in Versions : OfKey(r, 0)[x] \in Int BY OfKeyIsNumbers
  <2>2. target \in 0..Len(batches) BY <1>2, <1>3
  <2> QED BY <2>1, <2>2, <1>2, WeighPrefix
<1>13. /\ \A k : k \in DOMAIN whole <=> Weigh(Prefix(target), g(k)) # 0
       /\ whole = [k \in DOMAIN whole |-> Weigh(Prefix(target), g(k))]
  BY <1>12, <1>7, TallyIs
<1>14. Merged(r) = [k \in DOMAIN base \cup UNION {DOMAIN rows(b) : b \in fresh} |->
                      CountOf(base, k) + SumFunction(part(k))]
  BY DEF Merged, s, base, fresh
<1> HIDE DEF g, part, rows, whole
<1>15. DOMAIN whole = DOMAIN base \cup UNION {DOMAIN rows(b) : b \in fresh} BY <1>11, <1>13, Zenon
<1>16. Merged(r) = whole BY <1>11, <1>13, <1>14, <1>15
<1> QED BY <1>16, <1>2, <1>3 DEF whole

\* Each store is that of a prefix of the stream, and lacks nothing up to the
\* manifest; nor up to the target, once its fold is behind.
StoresAreSound ==
  /\ RunIsSound
  /\ DOMAIN stores = Roots
  /\ \A r \in StreamRoots : /\ IsAPrefix(r) /\ Quiet(r, manifest)
                            /\ phase \in RunPhases \ (Unread[r] \cup {"scan"}) => Quiet(r, target)

\* The stores change at their folds alone.
LEMMA StoresSteps ==
  ASSUME [Next]_vars
  PROVE  /\ UNCHANGED <<imported, batches>>
         /\ UNCHANGED <<target, manifest>> \/ (UNCHANGED stores /\ (StartRun \/ WriteManifest))
         /\ \/ \E r \in StreamRoots : \E next \in RunPhases : Fold(r, next)
            \/ FoldLangs
            \/ UNCHANGED stores
<1> USE DEF tables
<1>1. CASE Import BY <1>1 DEF Import
<1>2. CASE StartRun BY <1>2 DEF StartRun
<1>3. CASE Scan BY <1>3 DEF Scan
<1>4. ASSUME NEW r \in Roots, NEW next, Fold(r, next)
      PROVE  UNCHANGED <<imported, batches, target, manifest>>
  BY <1>4 DEF Fold
<1>5. CASE FoldMinutes BY <1>4, <1>5 DEF FoldMinutes, StreamRoots, Roots, RunPhases
<1>6. CASE FoldCells BY <1>4, <1>6 DEF FoldCells, StreamRoots, Roots, RunPhases
<1>7. CASE FoldTags BY <1>4, <1>7 DEF FoldTags, StreamRoots, Roots, RunPhases
<1>8. CASE FlagMoves BY <1>8 DEF FlagMoves
<1>9. CASE FoldLangs BY <1>4, <1>9 DEF FoldLangs, StreamRoots, Roots, RunPhases
<1>10. CASE WriteRanking BY <1>10 DEF WriteRanking
<1>11. CASE WriteHistory BY <1>11 DEF WriteHistory
<1>12. CASE WriteSuspects BY <1>12 DEF WriteSuspects
<1>13. CASE WriteManifest BY <1>13 DEF WriteManifest
<1>14. CASE Crash BY <1>14 DEF Crash
<1>15. CASE Done BY <1>15 DEF Done, vars
<1>16. CASE UNCHANGED vars BY <1>16 DEF vars
<1> QED
  BY <1>1, <1>2, <1>3, <1>5, <1>6, <1>7, <1>8, <1>9, <1>10, <1>11, <1>12, <1>13, <1>14, <1>15, <1>16
  DEF Next

\* After its own fold a store lacks nothing up to the target.
LEMMA FoldedIs ==
  ASSUME StoresAreSound, NEW r \in StreamRoots, NEW next, Fold(r, next)
  PROVE  /\ IsAPrefix(r)'
         /\ Quiet(r, manifest)'
         /\ Quiet(r, target)'
         /\ DOMAIN stores' = Roots /\ \A q \in Roots \ {r} : stores'[q] = stores[q]
<1>1. phase = r /\ UNCHANGED <<imported, batches, manifest, target>> BY DEF Fold
<1>2. \A q, b : HasRows(q, b)' = HasRows(q, b) BY <1>1, RowBatchesStay
<1>3. \A n : Prefix(n)' = Prefix(n) BY <1>1 DEF Prefix
<1>4. Len(batches) \in Nat /\ target \in Nat /\ manifest \in Nat BY StreamTypes DEF StoresAreSound
<1>5. manifest < target
  <2>1. phase \in RunPhases BY <1>1 DEF StreamRoots, RunPhases
  <2> QED BY <2>1 DEF StoresAreSound, RunIsSound
<1>6. r \in Roots /\ DOMAIN stores = Roots BY DEF StreamRoots, Roots, StoresAreSound
<1>7. IsAPrefix(r) /\ Quiet(r, manifest) BY DEF StoresAreSound
<1>8. ASSUME NEW n \in Nat, stores'[r] = stores[r], Quiet(r, n)
      PROVE  \A m : m = n => Quiet(r, m)'
  BY <1>2, <1>8 DEF Quiet
<1>9. CASE AlreadyFolded(r)
  <2>1. stores' = stores BY <1>9 DEF Fold
  <2>2. AppliedSeqOf(stores[r]) >= target BY <1>9 DEF AlreadyFolded
  <2>3. AppliedSeqOf(stores[r]) \in Nat BY <1>4, <1>7, PrefixStore DEF StoresAreSound
  <2>4. AppliedSeqOf(stores[r])+1..target = {} /\ AppliedSeqOf(stores[r])+1..manifest = {}
    BY <2>2, <2>3, <1>4, <1>5
  <2>5. Quiet(r, target)' /\ Quiet(r, manifest)' BY <1>1, <2>1, <2>4 DEF Quiet
  <2>6. IsAPrefix(r)' BY <1>1, <1>3, <1>7, <2>1 DEF IsAPrefix
  <2> QED BY <2>1, <2>5, <2>6, <1>6
<1>10. CASE stage[r] = {}
  <2>1. stores' = stores BY <1>10 DEF Fold
  <2>2. stage[r] = {b \in manifest+1..target : HasRows(r, b)}
    <3>1. phase \in Unread[r] /\ r \in StageRoots BY <1>1 DEF StreamRoots, Unread, StageRoots, Roots
    <3> QED BY <3>1 DEF StoresAreSound, RunIsSound, RowBatches
  <2>3. AppliedSeqOf(stores[r]) \in Nat BY <1>4, <1>7, PrefixStore DEF StoresAreSound
  <2>4. \A b \in AppliedSeqOf(stores[r])+1..target : ~HasRows(r, b)
    BY <1>7, <2>2, <2>3, <1>4, <1>10 DEF Quiet
  <2>5. Quiet(r, target)' /\ Quiet(r, manifest)' BY <1>1, <1>2, <1>7, <2>1, <2>4 DEF Quiet
  <2>6. IsAPrefix(r)' BY <1>1, <1>3, <1>7, <2>1 DEF IsAPrefix
  <2> QED BY <2>1, <2>5, <2>6, <1>6
<1>11. CASE ~AlreadyFolded(r) /\ stage[r] # {}
  <2>1. stores' = [stores EXCEPT ![r] = Written(Merged(r), target)] BY <1>11 DEF Fold
  <2>2. Merged(r) = Tally(r, Prefix(target)) /\ target \in 1..Len(batches)
    BY <1>1, <1>7, <1>11, MergedIs DEF StoresAreSound
  <2>3. stores'[r] = Written(Tally(r, Prefix(target)), target) BY <1>6, <2>1, <2>2
  <2>4. IsAPrefix(r)' BY <1>1, <1>3, <2>2, <2>3 DEF IsAPrefix
  <2>5. AppliedSeqOf(stores'[r]) = target
    <3> DEFINE c == Tally(r, Prefix(target))
               m == KeyLength[r]
    <3>1. /\ IsFiniteSet(DOMAIN c) /\ DOMAIN c \subseteq Keys(m) /\ m \in Nat
          /\ \A k \in DOMAIN c : c[k] \in Nat
      BY <1>4, <2>2, TallyOfPrefix DEF StoresAreSound
    <3>2. stores'[r] = Written(c, target) BY <2>3
    <3> HIDE DEF c, m
    <3> QED BY <3>1, <3>2, <1>4, ReadsBack
  <2>6. Quiet(r, target)' /\ Quiet(r, manifest)'
    <3>1. target+1..target = {} /\ target+1..manifest = {} BY <1>4, <1>5
    <3> QED BY <1>1, <2>5, <3>1 DEF Quiet
  <2>7. DOMAIN stores' = Roots /\ \A q \in Roots \ {r} : stores'[q] = stores[q] BY <2>1, <1>6
  <2> QED BY <2>4, <2>6, <2>7
<1> QED BY <1>9, <1>10, <1>11

\* The phases of a run after a root's fold are entered from the fold alone.
LEMMA PastFold ==
  ASSUME [Next]_vars, NEW r \in StreamRoots, phase' \in RunPhases \ (Unread[r] \cup {"scan"})
  PROVE  /\ \/ \E next \in RunPhases : Fold(r, next)
            \/ phase \in RunPhases \ (Unread[r] \cup {"scan"})
         /\ target' = target
<1> USE DEF StreamRoots, RunPhases, Unread
<1>1. CASE Import BY <1>1 DEF Import
<1>2. CASE StartRun BY <1>2 DEF StartRun
<1>3. CASE Scan BY <1>3 DEF Scan
<1>5. CASE FoldMinutes
  <2>1. Fold("minutes", "cells") BY <1>5 DEF FoldMinutes
  <2>2. target' = target /\ phase = "minutes" /\ phase' = "cells" BY <2>1 DEF Fold
  <2> QED BY <2>1, <2>2
<1>6. CASE FoldCells
  <2>1. Fold("cells", "tags") BY <1>6 DEF FoldCells
  <2>2. target' = target /\ phase = "cells" /\ phase' = "tags" BY <2>1 DEF Fold
  <2> QED BY <2>1, <2>2
<1>7. CASE FoldTags
  <2>1. Fold("tags", "moves") BY <1>7 DEF FoldTags
  <2>2. target' = target /\ phase = "tags" /\ phase' = "moves" BY <2>1 DEF Fold
  <2> QED BY <2>1, <2>2
<1>8. CASE FlagMoves BY <1>8 DEF FlagMoves
<1>9. CASE FoldLangs BY <1>9 DEF FoldLangs, Fold
<1>10. CASE WriteRanking BY <1>10 DEF WriteRanking
<1>11. CASE WriteHistory BY <1>11 DEF WriteHistory
<1>12. CASE WriteSuspects BY <1>12 DEF WriteSuspects
<1>13. CASE WriteManifest BY <1>13 DEF WriteManifest
<1>14. CASE Crash BY <1>14 DEF Crash
<1>15. CASE Done BY <1>15 DEF Done, vars
<1>16. CASE UNCHANGED vars BY <1>16 DEF vars
<1> QED
  BY <1>1, <1>2, <1>3, <1>5, <1>6, <1>7, <1>8, <1>9, <1>10, <1>11, <1>12, <1>13, <1>14, <1>15, <1>16
  DEF Next

LEMMA StoresAreSoundInit == Init => StoresAreSound
<1> SUFFICES ASSUME Init PROVE StoresAreSound OBVIOUS
<1>1. RunIsSound BY RunIsSoundInit
<1>2. manifest = 0 /\ phase = "none" /\ stores = [r \in Roots |-> Absent] BY DEF Init
<1>3. \A r \in StreamRoots : stores[r] = Absent BY <1>2 DEF StreamRoots, Roots
<1>4. \A r \in StreamRoots : AppliedSeqOf(stores[r]) = 0 BY <1>3 DEF AppliedSeqOf
<1>5. 0+1..0 = {} OBVIOUS
<1>6. \A r \in StreamRoots : IsAPrefix(r) /\ Quiet(r, manifest)
  BY <1>2, <1>3, <1>4, <1>5 DEF IsAPrefix, Quiet
<1>7. phase \notin RunPhases BY <1>2 DEF RunPhases
<1> QED BY <1>1, <1>2, <1>6, <1>7 DEF StoresAreSound

\* No store counts a batch twice or leaves one out, whatever run is interrupted.
LEMMA StoresAreSoundStep == StoresAreSound /\ [Next]_vars => StoresAreSound'
<1> SUFFICES ASSUME StoresAreSound, [Next]_vars PROVE StoresAreSound' OBVIOUS
<1>1. RunIsSound' BY RunIsSoundStep DEF StoresAreSound
<1>2. UNCHANGED <<imported, batches>> BY StoresSteps
<1>3. \A q, b : HasRows(q, b)' = HasRows(q, b) BY <1>2, RowBatchesStay
<1>4. \A n : Prefix(n)' = Prefix(n) BY <1>2 DEF Prefix
<1>5. DOMAIN stores = Roots BY DEF StoresAreSound
<1>6. ASSUME NEW r \in StreamRoots, \A next \in RunPhases : ~Fold(r, next)
      PROVE  /\ IsAPrefix(r)' /\ Quiet(r, manifest)'
             /\ phase' \in RunPhases \ (Unread[r] \cup {"scan"}) => Quiet(r, target)'
  <2>1. /\ IsAPrefix(r) /\ Quiet(r, manifest)
        /\ phase \in RunPhases \ (Unread[r] \cup {"scan"}) => Quiet(r, target)
    BY DEF StoresAreSound
  <2>2. stores'[r] = stores[r]
    <3>1. ASSUME NEW q \in StreamRoots, NEW next \in RunPhases, Fold(q, next) PROVE stores'[r] = stores[r]
      <4>1. q # r BY <1>6, <3>1
      <4>2. \A o \in Roots \ {q} : stores'[o] = stores[o] BY <3>1, FoldedIs
      <4> QED BY <4>1, <4>2 DEF StreamRoots, Roots
    <3>2. CASE FoldLangs BY <1>5, <3>2 DEF FoldLangs, Fold, StreamRoots, Roots
    <3> QED BY <3>1, <3>2, StoresSteps
  <2>3. \A n : Quiet(r, n)' <=> Quiet(r, n) BY <1>3, <2>2 DEF Quiet
  <2>4. IsAPrefix(r)' BY <1>2, <1>4, <2>1, <2>2 DEF IsAPrefix
  <2>5. manifest' = manifest \/ (WriteManifest /\ manifest' = target)
    BY StoresSteps DEF StartRun, WriteManifest
  <2>6. WriteManifest => Quiet(r, target)
    BY <2>1 DEF WriteManifest, RunPhases, Unread, StreamRoots
  <2>7. Quiet(r, manifest)'
    <3>1. \A n : n = manifest' /\ Quiet(r, n)' => Quiet(r, manifest)' BY DEF Quiet
    <3> QED BY <2>1, <2>3, <2>5, <2>6, <3>1
  <2>8. ASSUME phase' \in RunPhases \ (Unread[r] \cup {"scan"}) PROVE Quiet(r, target)'
    <3>1. target' = target /\ phase \in RunPhases \ (Unread[r] \cup {"scan"}) BY <1>6, <2>8, PastFold
    <3>2. \A n : n = target' /\ Quiet(r, n)' => Quiet(r, target)' BY DEF Quiet
    <3> QED BY <2>1, <2>3, <3>1, <3>2
  <2> QED BY <2>4, <2>7, <2>8
<1>7. ASSUME NEW r \in StreamRoots, NEW next \in RunPhases, Fold(r, next)
      PROVE  IsAPrefix(r)' /\ Quiet(r, manifest)' /\ Quiet(r, target)' /\ DOMAIN stores' = Roots
  BY <1>7, FoldedIs
<1>8. DOMAIN stores' = Roots
  <2>1. FoldLangs => DOMAIN stores' = Roots BY <1>5 DEF FoldLangs, Fold
  <2> QED BY <1>5, <1>7, <2>1, StoresSteps
<1> QED BY <1>1, <1>6, <1>7, <1>8 DEF StoresAreSound

LEMMA StoresAreSoundAlways == Spec => []StoresAreSound
BY StoresAreSoundInit, StoresAreSoundStep, PTL DEF Spec

\* A store stamped s holds the counts of the batches 1..s, each once; at rest
\* it lacks nothing of the manifest's batches.
THEOREM StoresHoldThePrefix == Spec => []StoresAreTheStream
<1>1. StoresAreSound => StoresAreTheStream
  <2> SUFFICES ASSUME StoresAreSound, NEW r \in StreamRoots
               PROVE  /\ Contents(stores[r]) = Tally(r, Prefix(AppliedSeqOf(stores[r])))
                      /\ \A b \in AppliedSeqOf(stores[r])+1..manifest : ~HasRows(r, b)
    BY DEF StoresAreTheStream, StreamRoots
  <2>1. RunIsSound /\ IsAPrefix(r) /\ Quiet(r, manifest) BY DEF StoresAreSound
  <2> QED BY <2>1, PrefixStore DEF Quiet
<1> QED BY <1>1, StoresAreSoundAlways, PTL

-----------------------------------------------------------------------------
(* The far moves *)

\* The day's part of a sequence.
DayPart(t, s, k) ==
  /\ t \in Seq(Versions) /\ Len(t) = Weigh(s, OfDay(k))
  /\ \A v \in Versions : (\E j \in DOMAIN t : t[j] = v) <=> (DayKey(v) = k /\ \E i \in DOMAIN s : s[i] = v)

LEMMA OnDayIs ==
  ASSUME NEW s \in Seq(Versions), NEW k, NEW I, I = {i \in DOMAIN s : DayKey(s[i]) = k}
  PROVE  DayPart(At(s, I), s, k) /\ Cardinality(I) = Weigh(s, OfDay(k))
<1> DEFINE T == {v \in Versions : DayKey(v) = k}
<1>1. At(s, I) \in Seq(Versions) BY AtType
<1>2. \A i \in DOMAIN s : s[i] \in Versions OBVIOUS
<1>3. \A i \in DOMAIN s : i \in I <=> s[i] \in T BY <1>2
<1>4. I = {i \in DOMAIN s : s[i] \in T} BY <1>2
<1> HIDE DEF T
<1>5. Cardinality(I) = Weigh(s, Ones(Versions, T)) BY <1>4, NumberIs
<1>6. Len(At(s, I)) = Weigh(s, Ones(Versions, T))
  <2>1. Len(At(s, I)) = Weigh(At(s, I), Ones(Versions, Versions)) BY <1>1, LengthIs
  <2> DEFINE one == Ones(Versions, Versions)
  <2>2. \A x \in Versions : one[x] \in Int BY OnesAreNumbers
  <2>3. Within(Versions, T, one) = Ones(Versions, T) BY DEF Within, Ones
  <2> HIDE DEF one
  <2>4. Weigh(At(s, I), one) = Weigh(s, Within(Versions, T, one)) BY <1>3, <2>2, WeighAt
  <2> QED BY <2>1, <2>3, <2>4 DEF one
<1>7. Ones(Versions, T) = OfDay(k) BY DEF OfDay, T
<1>8. ASSUME NEW v \in Versions
      PROVE  (\E j \in DOMAIN At(s, I) : At(s, I)[j] = v) <=> (DayKey(v) = k /\ \E i \in DOMAIN s : s[i] = v)
  <2>1. /\ \A j \in DOMAIN At(s, I) : \E i \in DOMAIN s \cap I : At(s, I)[j] = s[i]
        /\ \A i \in DOMAIN s \cap I : \E j \in DOMAIN At(s, I) : At(s, I)[j] = s[i]
    <3>1. Takes(At(s, I), s, I) BY AtHas
    <3> DEFINE t == At(s, I)
    <3> HIDE DEF t
    <3>2. /\ \A j \in DOMAIN t : \E i \in DOMAIN s \cap I : t[j] = s[i]
          /\ \A i \in DOMAIN s \cap I : \E j \in DOMAIN t : t[j] = s[i]
      BY <3>1 DEF Takes, t
    <3> QED BY <3>2 DEF t
  <2>2. \A i \in DOMAIN s \cap I : DayKey(s[i]) = k OBVIOUS
  <2>3. \A i \in DOMAIN s : DayKey(s[i]) = k => i \in I OBVIOUS
  <2>4. ASSUME NEW j \in DOMAIN At(s, I), At(s, I)[j] = v PROVE DayKey(v) = k /\ \E i \in DOMAIN s : s[i] = v
    BY <2>1, <2>2, <2>4
  <2>5. ASSUME NEW i \in DOMAIN s, s[i] = v, DayKey(v) = k PROVE \E j \in DOMAIN At(s, I) : At(s, I)[j] = v
    <3>1. i \in DOMAIN s \cap I BY <2>3, <2>5
    <3>2. PICK j \in DOMAIN At(s, I) : At(s, I)[j] = s[i] BY <2>1, <3>1
    <3> QED BY <2>5, <3>2
  <2> QED BY <2>4, <2>5
<1> DEFINE t == At(s, I)
<1>9. t \in Seq(Versions) /\ Len(t) = Weigh(s, OfDay(k)) BY <1>1, <1>6, <1>7
<1>10. \A v \in Versions : (\E j \in DOMAIN t : t[j] = v) <=> (DayKey(v) = k /\ \E i \in DOMAIN s : s[i] = v)
  BY <1>8
<1> HIDE DEF t
<1>11. DayPart(t, s, k) BY <1>9, <1>10 DEF DayPart
<1> QED BY <1>5, <1>7, <1>11 DEF t

-----------------------------------------------------------------------------
(* The moves of a run *)

RunFar == FarMoves(FlattenSeq(SubSeq(batches, manifest + 1, target)))

\* The far moves that are staged are those of the run's batches.
LEMMA StagedMoves ==
  ASSUME RunIsSound, phase = "moves"
  PROVE  /\ FarMoves(Staged("moves")) \in Seq(Versions) /\ RunFar \in Seq(Versions)
         /\ \A g : (\A x \in Versions : g[x] \in Int) => Weigh(FarMoves(Staged("moves")), g) = Weigh(RunFar, g)
<1>1. batches \in Seq(Seq(Versions)) /\ manifest \in Nat /\ target \in Nat /\ Len(batches) \in Nat
  BY StreamTypes
<1>2. /\ stage["moves"] = RowBatches("moves", target) /\ stage["moves"] \in SUBSET (DOMAIN batches)
      /\ Staged("moves") \in Seq(Versions)
  BY StagedTyped DEF StageRoots, Unread
<1>3. manifest < target /\ target <= Len(batches)
  <2>1. phase \in RunPhases BY DEF RunPhases
  <2> QED BY <2>1, <1>1 DEF RunIsSound
<1> DEFINE stretch == FlattenSeq(SubSeq(batches, manifest + 1, target))
           B == manifest+1..target
<1>4. stretch \in Seq(Versions)
  <2>1. \A x \in Versions : Ones(Versions, {})[x] \in Int BY OnesAreNumbers
  <2>2. target \in 0..Len(batches) /\ manifest <= target BY <1>1, <1>3
  <2> QED BY <1>1, <2>1, <2>2, WeighStretch
<1>5. FarMoves(Staged("moves")) \in Seq(Versions) /\ RunFar \in Seq(Versions)
  BY <1>2, <1>4, FarMovesAre DEF RunFar
<1>6. ASSUME NEW g, \A x \in Versions : g[x] \in Int
      PROVE  Weigh(FarMoves(Staged("moves")), g) = Weigh(RunFar, g)
  <2> DEFINE w == Within(Versions, FarVersions, g)
  <2>1. \A x \in Versions : w[x] \in Int BY <1>6 DEF Within
  <2>2. Weigh(FarMoves(Staged("moves")), g) = Weigh(Staged("moves"), w) BY <1>2, <1>6, FarMovesAre
  <2>3. Weigh(RunFar, g) = Weigh(stretch, w) BY <1>4, <1>6, FarMovesAre DEF RunFar
  <2>4. ASSUME NEW b \in B, b \notin stage["moves"] PROVE Weigh(batches[b], w) = 0
    <3>1. b \in DOMAIN batches BY <1>1, <1>3
    <3>2. batches[b] \in Seq(Versions) BY <1>1, <3>1
    <3>3. ~HasRows("moves", b) BY <1>2, <2>4 DEF RowBatches
    <3>4. FarMoves(batches[b]) = <<>> BY <3>3 DEF HasRows, Roots
    <3>5. Weigh(FarMoves(batches[b]), g) = Weigh(batches[b], w) BY <1>6, <3>2, FarMovesAre
    <3> QED BY <3>4, <3>5, WeighEmpty
  <2>5. B \in SUBSET (DOMAIN batches) BY <1>1, <1>3
  <2>6. stage["moves"] \in SUBSET B BY <1>2 DEF RowBatches
  <2> HIDE DEF w
  <2>7. Weigh(Staged("moves"), w) = Heaped(w, stage["moves"]) BY <1>1, <1>2, <2>1, WeighStaged
  <2>8. Weigh(stretch, w) = Heaped(w, B)
    <3>1. target \in 0..Len(batches) /\ manifest <= target BY <1>1, <1>3
    <3> QED BY <1>1, <2>1, <3>1, WeighStretch
  <2> HIDE DEF B, stretch
  <2>9. \A b \in B \ stage["moves"] : Weigh(batches[b], w) = 0 BY <2>4
  <2>10. Heaped(w, B) = Heaped(w, stage["moves"]) BY <1>1, <2>1, <2>5, <2>6, <2>9, HeapedInside
  <2> QED BY <2>2, <2>3, <2>7, <2>8, <2>10
<1> QED BY <1>5, <1>6

\* The columns of the day k: how many of the run's far moves are of the day,
\* and one at least as long as each.
MovesHold(k) ==
  IF k \in DOMAIN moves
  THEN moves[k].count = Len(RunMoves(k)) /\ \A v \in Range(RunMoves(k)) : moves[k].longest >= v.move
  ELSE Len(RunMoves(k)) = 0 /\ \A v \in Range(RunMoves(k)) : 0 >= v.move

\* From the fold that reads them until the run's end.
MovesAreTheRun ==
  /\ HistoryIsSound
  /\ phase \in {"langs", "ranking", "history", "suspects"} => \A k : MovesHold(k)

LEMMA MovesHoldStays ==
  ASSUME UNCHANGED <<batches, manifest, target, moves>> PROVE \A k : MovesHold(k)' <=> MovesHold(k)
<1>1. ASSUME NEW k PROVE RunMoves(k)' = RunMoves(k) BY DEF RunMoves
<1> QED BY <1>1 DEF MovesHold

\* Only flagging the moves leads into the phases after it.
LEMMA MovesSteps ==
  ASSUME [Next]_vars, phase' \in {"langs", "ranking", "history", "suspects"}
  PROVE  \/ FlagMoves
         \/ /\ UNCHANGED <<batches, manifest, target, moves>>
            /\ phase \in {"langs", "ranking", "history", "suspects"}
<1> USE DEF tables
<1>1. CASE Import BY <1>1 DEF Import
<1>2. CASE StartRun BY <1>2 DEF StartRun
<1>3. CASE Scan BY <1>3 DEF Scan
<1>5. CASE FoldMinutes BY <1>5 DEF FoldMinutes, Fold
<1>6. CASE FoldCells BY <1>6 DEF FoldCells, Fold
<1>7. CASE FoldTags BY <1>7 DEF FoldTags, Fold
<1>8. CASE FlagMoves BY <1>8
<1>9. CASE FoldLangs BY <1>9 DEF FoldLangs, Fold
<1>10. CASE WriteRanking BY <1>10 DEF WriteRanking
<1>11. CASE WriteHistory BY <1>11 DEF WriteHistory
<1>12. CASE WriteSuspects BY <1>12 DEF WriteSuspects
<1>13. CASE WriteManifest BY <1>13 DEF WriteManifest
<1>14. CASE Crash BY <1>14 DEF Crash
<1>15. CASE Done BY <1>15 DEF Done, vars
<1>16. CASE UNCHANGED vars BY <1>16 DEF vars
<1> QED
  BY <1>1, <1>2, <1>3, <1>5, <1>6, <1>7, <1>8, <1>9, <1>10, <1>11, <1>12, <1>13, <1>14, <1>15, <1>16
  DEF Next

\* The moves flagged from the stage are those of the run's batches.
LEMMA FlaggedAreTheRun ==
  ASSUME RunIsSound, FlagMoves PROVE \A k : MovesHold(k)'
<1> DEFINE far == FarMoves(Staged("moves"))
           of(k) == {i \in DOMAIN far : DayKey(far[i]) = k}
           run == RunFar
<1>1. phase = "moves" /\ UNCHANGED <<batches, manifest, target>> BY DEF FlagMoves
<1>2. moves' = [k \in {DayKey(far[i]) : i \in DOMAIN far} |->
                  [count |-> Cardinality(of(k)), longest |-> Max({far[i].move : i \in of(k)})]]
  BY DEF FlagMoves
<1>3. /\ far \in Seq(Versions) /\ run \in Seq(Versions)
      /\ \A g : (\A x \in Versions : g[x] \in Int) => Weigh(far, g) = Weigh(run, g)
  BY <1>1, StagedMoves
<1> HIDE DEF far, run
<1>4. \A v \in Versions : (\E i \in DOMAIN far : far[i] = v) <=> (\E i \in DOMAIN run : run[i] = v)
  <2>1. \A v \in Versions : \A x \in Versions : Ones(Versions, {v})[x] \in Int BY OnesAreNumbers
  <2>2. \A v \in Versions : Weigh(far, Ones(Versions, {v})) = Weigh(run, Ones(Versions, {v}))
    BY <1>3, <2>1
  <2>3. Alike(Versions, far, run) BY <1>3, <2>2, SameElements
  <2> QED BY <2>3 DEF Alike
<1>5. ASSUME NEW k PROVE MovesHold(k)'
  <2> DEFINE mine == {i \in DOMAIN run : DayKey(run[i]) = k}
             its == At(run, mine)
  <2>1. /\ its \in Seq(Versions) /\ Len(its) = Weigh(run, OfDay(k))
        /\ \A v \in Versions : (\E j \in DOMAIN its : its[j] = v)
                                 <=> (DayKey(v) = k /\ \E i \in DOMAIN run : run[i] = v)
    <3>1. DayPart(its, run, k) BY <1>3, OnDayIs
    <3> HIDE DEF its
    <3> QED BY <3>1 DEF DayPart
  <2>2. Cardinality(of(k)) = Weigh(far, OfDay(k)) BY <1>3, OnDayIs
  <2>3. Weigh(far, OfDay(k)) = Weigh(run, OfDay(k))
    <3>1. \A x \in Versions : OfDay(k)[x] \in Int BY OnesAreNumbers DEF OfDay
    <3> QED BY <1>3, <3>1
  <2>4. RunMoves(k)' = its
    <3>1. RunMoves(k) = its BY DEF RunMoves, run, RunFar
    <3>2. RunMoves(k)' = RunMoves(k) BY <1>1 DEF RunMoves
    <3> QED BY <3>1, <3>2
  <2> HIDE DEF its
  <2>5. k \in DOMAIN moves' <=> \E i \in DOMAIN far : DayKey(far[i]) = k BY <1>2
  <2>6. \A v \in Range(its) : /\ v \in Versions /\ DayKey(v) = k /\ v.move \in Nat
                              /\ \E i \in of(k) : far[i] = v
    <3> TAKE v \in Range(its)
    <3>1. PICK j \in DOMAIN its : its[j] = v BY DEF Range
    <3>2. v \in Versions BY <2>1, <3>1
    <3>3. DayKey(v) = k /\ \E i \in DOMAIN far : far[i] = v BY <1>4, <2>1, <3>1, <3>2
    <3> QED BY <3>2, <3>3, VersionTypes
  <2>7. CASE k \in DOMAIN moves'
    <3> DEFINE M == {far[i].move : i \in of(k)}
    <3>1. moves'[k].count = Cardinality(of(k)) /\ moves'[k].longest = Max(M) BY <1>2, <2>7
    <3>2. IsFiniteSet(of(k))
      <4>1. IsFiniteSet(1..Len(far)) /\ DOMAIN far = 1..Len(far)
        <5>1. Len(far) \in Nat /\ DOMAIN far = 1..Len(far) BY <1>3
        <5> QED BY <5>1, FS_Interval
      <4> QED BY <4>1, FS_Subset
    <3>3. M \subseteq Int
      <4>1. \A i \in of(k) : far[i] \in Versions BY <1>3
      <4>2. \A i \in of(k) : far[i].move \in Nat BY <4>1, VersionTypes
      <4> QED BY <4>2
    <3>4. M # {} BY <2>5, <2>7
    <3>5. \A v \in Range(its) : v.move \in M BY <2>6
    <3>6. IsFiniteSet(M)
      <4> DEFINE I == of(k)
                 f == [i \in I |-> far[i].move]
      <4>1. M = {f[i] : i \in I} OBVIOUS
      <4>2. IsFiniteSet(I) BY <3>2
      <4> HIDE DEF I, f, M
      <4> QED BY <4>1, <4>2, ImageIsFinite
    <3> HIDE DEF M
    <3>7. \A m \in M : m <= Max(M) BY <3>3, <3>4, <3>6, MaxIs
    <3>8. Max(M) \in Int BY <3>3, <3>4, <3>6, MaxIs
    <3>9. \A v \in Range(its) : moves'[k].longest >= v.move BY <2>6, <3>1, <3>5, <3>7, <3>8
    <3>10. moves'[k].count = Len(its) BY <2>1, <2>2, <2>3, <3>1
    <3> QED BY <2>4, <2>7, <3>9, <3>10 DEF MovesHold
  <2>8. CASE k \notin DOMAIN moves'
    <3>1. of(k) = {} BY <2>5, <2>8
    <3>2. Range(its) = {} BY <2>6, <3>1
    <3>3. Len(its) = 0 BY <3>1, <2>1, <2>2, <2>3, FS_EmptySet
    <3> QED BY <2>4, <2>8, <3>2, <3>3 DEF MovesHold
  <2> QED BY <2>7, <2>8
<1> QED BY <1>5

LEMMA MovesAreTheRunInit == Init => MovesAreTheRun
<1> SUFFICES ASSUME Init PROVE MovesAreTheRun OBVIOUS
<1>1. HistoryIsSound BY HistoryIsSoundInit
<1>2. phase = "none" BY DEF Init
<1> QED BY <1>1, <1>2 DEF MovesAreTheRun

LEMMA MovesAreTheRunStep == MovesAreTheRun /\ [Next]_vars => MovesAreTheRun'
<1> SUFFICES ASSUME MovesAreTheRun, [Next]_vars PROVE MovesAreTheRun' OBVIOUS
<1>1. HistoryIsSound' BY HistoryIsSoundStep DEF MovesAreTheRun
<1>2. ASSUME phase' \in {"langs", "ranking", "history", "suspects"} PROVE \A k : MovesHold(k)'
  <2>1. CASE FlagMoves BY <2>1, FlaggedAreTheRun DEF MovesAreTheRun, HistoryIsSound
  <2>2. CASE /\ UNCHANGED <<batches, manifest, target, moves>>
             /\ phase \in {"langs", "ranking", "history", "suspects"}
    BY <2>2, MovesHoldStays DEF MovesAreTheRun
  <2> QED BY <1>2, <2>1, <2>2, MovesSteps
<1> QED BY <1>1, <1>2 DEF MovesAreTheRun

LEMMA MovesAreTheRunAlways == Spec => []MovesAreTheRun
BY MovesAreTheRunInit, MovesAreTheRunStep, PTL DEF Spec

\* A day's move columns are the far moves of the run that first exported it;
\* they and its ranking stay.
THEOREM ColumnsAreFrozen == Spec => FrozenColumns
<1> DEFINE Kept(k) ==
      IF suspects # Absent /\ k \in DOMAIN suspects
      THEN /\ suspects'[k].moves = suspects[k].moves
           /\ suspects'[k].longest = suspects[k].longest
           /\ suspects'[k].ranking = suspects[k].ranking
      ELSE /\ suspects'[k].moves = Len(RunMoves(k))
           /\ \A v \in Range(RunMoves(k)) : suspects'[k].longest >= v.move
    A == \A k \in (IF suspects' = Absent THEN {} ELSE DOMAIN suspects') : Kept(k)
<1>1. MovesAreTheRun /\ [Next]_vars => [A]_suspects
  <2> SUFFICES ASSUME MovesAreTheRun, [Next]_vars, suspects' # suspects, NEW k \in DOMAIN suspects'
               PROVE  Kept(k)
    OBVIOUS
  <2>1. WriteSuspects BY SuspectsSteps
  <2>2. PICK row \in DayRows : row.key = k /\ suspects'[k] = SuspectRow(row)
    BY <2>1, SuspectsWritten DEF MovesAreTheRun
  <2>3. /\ suspects'[k].moves = Frozen(k).moves /\ suspects'[k].longest = Frozen(k).longest
        /\ suspects'[k].ranking = Frozen(k).ranking
    BY <2>2 DEF SuspectRow
  <2>4. MovesHold(k) BY <2>1 DEF MovesAreTheRun, WriteSuspects
  <2>5. CASE suspects # Absent /\ k \in DOMAIN suspects BY <2>3, <2>5 DEF Frozen
  <2>6. CASE ~(suspects # Absent /\ k \in DOMAIN suspects)
    <3>1. /\ Frozen(k).moves = IF k \in DOMAIN moves THEN moves[k].count ELSE 0
          /\ Frozen(k).longest = IF k \in DOMAIN moves THEN moves[k].longest ELSE 0
      BY <2>6 DEF Frozen
    <3>2. CASE k \in DOMAIN moves BY <2>3, <2>4, <2>6, <3>1, <3>2 DEF MovesHold
    <3>3. CASE k \notin DOMAIN moves BY <2>3, <2>4, <2>6, <3>1, <3>3 DEF MovesHold
    <3> QED BY <3>2, <3>3
  <2> QED BY <2>5, <2>6
<1> QED BY <1>1, MovesAreTheRunAlways, PTL DEF Spec, FrozenColumns

-----------------------------------------------------------------------------
(* Series of rows *)

\* The records of a store that is a prefix of the stream.
LEMMA StoreRows ==
  ASSUME RunIsSound, NEW r \in StreamRoots, IsAPrefix(r)
  PROVE  /\ Records(stores[r]) \in Seq(HourRows(KeyLength[r]))
         /\ \A i, j \in DOMAIN Records(stores[r]) :
              i < j => Before(Records(stores[r])[i].key, Records(stores[r])[j].key)
<1>1. CASE stores[r] = Absent
  <2>1. Records(stores[r]) = <<>> BY <1>1 DEF Records
  <2> QED BY <2>1
<1>2. CASE stores[r] # Absent
  <2> DEFINE s == AppliedSeqOf(stores[r])
             c == Tally(r, Prefix(s))
             m == KeyLength[r]
             n == Cardinality(DOMAIN c)
             keys == KeyRanked(DOMAIN c)
  <2>1. s \in 1..Len(batches) /\ stores[r] = Written(c, s) BY <1>2, PrefixStore
  <2>2. s \in 0..Len(batches) /\ s \in Nat BY <2>1, StreamTypes
  <2> HIDE DEF s
  <2>3. /\ IsFiniteSet(DOMAIN c) /\ DOMAIN c \subseteq Keys(m) /\ m \in Nat
        /\ \A k \in DOMAIN c : c[k] \in Nat
    BY <2>2, TallyOfPrefix
  <2>4. \A k \in DOMAIN c : c[k] # 0
    <3>1. \A x \in Versions : OfKey(r, 0)[x] \in Int BY OfKeyIsNumbers
    <3>2. Prefix(s) \in Seq(Versions) BY <2>2, <3>1, WeighPrefix, StreamTypes
    <3>3. r \in Roots BY DEF StreamRoots, Roots
    <3>4. \A k \in DOMAIN c : c[k] = Weigh(Prefix(s), OfKey(r, k)) /\ Weigh(Prefix(s), OfKey(r, k)) # 0
      BY <3>2, <3>3, TallyIs
    <3> QED BY <3>4
  <2> HIDE DEF c, m
  <2>5. Records(stores[r]) = Lined(c) BY <2>1, <2>2, <2>3, ReadsBack
  <2>6. KeyListed(keys, DOMAIN c) BY <2>3, WrittenIs
  <2>7. /\ n \in Nat /\ keys \in [1..n -> DOMAIN c]
        /\ \A i, j \in 1..n : i < j => Before(keys[i], keys[j])
    BY <2>6 DEF KeyListed
  <2> HIDE DEF n, keys
  <2>8. Lined(c) = [i \in 1..n |-> RecordOf(c, keys[i])] BY DEF Lined, n, keys
  <2>9. \A k \in DOMAIN c : RecordOf(c, k) \in HourRows(m) /\ RecordOf(c, k).key = k
    BY <2>3, <2>4 DEF RecordOf, HourRows
  <2>10. \A i \in 1..n : RecordOf(c, keys[i]) \in HourRows(m) /\ RecordOf(c, keys[i]).key = keys[i]
    BY <2>7, <2>9
  <2>11. Lined(c) \in Seq(HourRows(m))
    <3> DEFINE X == HourRows(m)
    <3>1. Lined(c) \in [1..n -> X] BY <2>8, <2>10
    <3> HIDE DEF X
    <3>2. Lined(c) \in Seq(X) BY <2>7, <3>1
    <3> QED BY <3>2 DEF X
  <2>12. DOMAIN Lined(c) = 1..n /\ \A i \in 1..n : Lined(c)[i].key = keys[i]
    BY <2>8, <2>10
  <2>13. \A i, j \in DOMAIN Lined(c) : i < j => Before(Lined(c)[i].key, Lined(c)[j].key)
    BY <2>7, <2>12
  <2> QED BY <2>5, <2>11, <2>13 DEF m
<1> QED BY <1>1, <1>2

-----------------------------------------------------------------------------
(* The trailing window of filter 2 *)

\* A series' rows of an hour, by their weights.
LEMMA InHourIs ==
  ASSUME NEW m \in {2, 3}, NEW s \in Seq(HourRows(m)), NEW minute
  PROVE  /\ InHour(s, minute) \in Seq(HourRows(m))
         /\ \A g : (\A x \in HourRows(m) : g[x] \in Int) =>
              Weigh(InHour(s, minute), g) = Weigh(s, Within(HourRows(m), HourOfRows(m, minute), g))
<1> DEFINE X == HourRows(m)
           T == HourOfRows(m, minute)
           I == {i \in DOMAIN s : MinuteOf(s[i]) > minute - Span /\ MinuteOf(s[i]) <= minute}
<1>1. InHour(s, minute) = At(s, I) BY DEF InHour
<1>2. \A i \in DOMAIN s : i \in I <=> s[i] \in T
  <2>1. \A i \in DOMAIN s : s[i] \in X OBVIOUS
  <2> QED BY <2>1 DEF HourOfRows
<1> HIDE DEF X, T, I
<1>3. s \in Seq(X) BY DEF X
<1>4. At(s, I) \in Seq(X) BY <1>3, AtType
<1>5. ASSUME NEW g, \A x \in X : g[x] \in Int PROVE Weigh(At(s, I), g) = Weigh(s, Within(X, T, g))
  BY <1>2, <1>3, <1>5, WeighAt
<1> QED BY <1>1, <1>4, <1>5 DEF X, T

\* The trailing window is the hour.
LEMMA HourSpansAre ==
  ASSUME NEW s \in Seq(HourRows(2)), InTime(s), NEW i \in DOMAIN s
  PROVE  HourSpans(s)[i] = CountsIn(InHour(s, MinuteOf(s[i])))
<1> DEFINE t == CHOOSE u : Spans(u, s)
           c == [j \in DOMAIN s |-> s[j].count]
           m == MinuteOf(s[i])
           h == t[i].head
           X == HourRows(2)
           T == HourOfRows(2, m)
           g == Counts(X)
           w == Within(X, T, g)
           f == [j \in DOMAIN s |-> w[s[j]]]
           D == DOMAIN s
<1>1. Len(s) \in Nat /\ D = 1..Len(s) /\ \A j \in D : s[j] \in X OBVIOUS
<1>2. Spans(t, s) BY <1>1, SpansExists
<1>3. HourSpans(s)[i] = t[i].window BY HourSpansIsChosen
<1>4. \A j \in D : MinuteOf(s[j]) \in Int /\ s[j].count \in Int BY <1>1, RowTypes
<1>5. /\ h \in 1..i /\ t[i].window = SumFunctionOnSet(c, h..i)
      /\ \A j \in 1..i : j < h <=> Gone(s[j], m)
  <2> DEFINE ok(e) == \A k \in 1..Len(s) : /\ t[k].head \in 1..k /\ t[k].window = SumFunctionOnSet(e, t[k].head..k)
                                           /\ \A j \in 1..k : j < t[k].head <=> Gone(s[j], MinuteOf(s[k]))
  <2> HIDE DEF t
  <2>1. ASSUME NEW e, e = c PROVE ok(e) BY <1>2, <2>1, SpansHold
  <2>2. ok(c) BY <2>1
  <2> QED BY <1>1, <2>2
<1> HIDE DEF t
<1>6. CountsIn(InHour(s, m)) = SumFunctionOnSet(f, D)
  <2>1. InHour(s, m) \in Seq(X) BY InHourIs
  <2>2. \A x \in X : g[x] \in Int BY CountsAreNumbers
  <2>3. CountsIn(InHour(s, m)) = Weigh(InHour(s, m), g) BY <2>1, CountsInIs
  <2>4. Weigh(InHour(s, m), g) = Weigh(s, w) BY <2>2, InHourIs
  <2>5. Weigh(s, w) = SumFunctionOnSet(f, D) BY DEF Weigh
  <2> QED BY <2>3, <2>4, <2>5
<1>7. \A j \in D : /\ f[j] \in Int /\ c[j] = s[j].count
                   /\ s[j] \in T => f[j] = c[j]
                   /\ s[j] \notin T => f[j] = 0
  <2>1. \A j \in D : s[j] \in X /\ c[j] = s[j].count /\ c[j] \in Int /\ f[j] = w[s[j]] BY <1>1, <1>4
  <2>2. \A x \in X : w[x] = IF x \in T THEN x.count ELSE 0 BY DEF Within, Counts
  <2> HIDE DEF w, c, f, T
  <2> QED BY <2>1, <2>2
<1>8. \A j \in D : s[j] \in T <=> j \in h..i
  <2> TAKE j \in D
  <2>1. s[j] \in T <=> MinuteOf(s[j]) > m - Span /\ MinuteOf(s[j]) <= m BY <1>1 DEF HourOfRows
  <2>2. MinuteOf(s[j]) \in Int /\ m \in Int /\ Span \in Nat BY <1>4, SpansArePositive
  <2>3. i \in 1..Len(s) /\ j \in 1..Len(s) /\ i \in Int /\ j \in Int /\ h \in Int /\ h <= i BY <1>1, <1>5
  <2>4. CASE j > i
    <3>1. m < MinuteOf(s[j]) BY <1>1, <2>3, <2>4 DEF InTime
    <3> QED BY <2>1, <2>2, <2>3, <2>4, <3>1
  <2>5. CASE j <= i
    <3>1. MinuteOf(s[j]) <= m
      <4>1. CASE j = i BY <2>2, <4>1
      <4>2. CASE j < i
        <5>1. MinuteOf(s[j]) < m BY <1>1, <2>3, <4>2 DEF InTime
        <5> QED BY <2>2, <5>1
      <4> QED BY <2>3, <2>5, <4>1, <4>2
    <3>2. j < h <=> MinuteOf(s[j]) + Span <= m
      <4>1. j \in 1..i BY <2>3, <2>5
      <4> QED BY <1>5, <4>1 DEF Gone
    <3>3. MinuteOf(s[j]) > m - Span <=> ~(MinuteOf(s[j]) + Span <= m) BY <2>2
    <3>4. s[j] \in T <=> ~(j < h) BY <2>1, <3>1, <3>2, <3>3
    <3> QED BY <2>3, <2>5, <3>4
  <2> QED BY <2>3, <2>4, <2>5
<1> HIDE DEF f, c, h, T, w
<1>9. IsFiniteSet(D) /\ h..i \in SUBSET D
  <2>1. i \in 1..Len(s) BY <1>1
  <2>2. IsFiniteSet(1..Len(s)) BY <1>1, FS_Interval
  <2> QED BY <1>1, <1>5, <2>1, <2>2
<1> DEFINE B == h..i
<1>10. \A j \in D : f[j] \in Int BY <1>7
<1>11. \A j \in D \ B : f[j] = 0 BY <1>7, <1>8
<1>12. \A j \in B : f[j] \in Int /\ f[j] = c[j] BY <1>7, <1>8, <1>9
<1>13. IsFiniteSet(B) BY <1>9, FS_Subset
<1>14. B \in SUBSET D BY <1>9
<1> HIDE DEF B, D
<1>15. SumFunctionOnSet(f, D) = SumFunctionOnSet(f, B) BY <1>9, <1>10, <1>11, <1>14, SumInside
<1>16. SumFunctionOnSet(f, B) = SumFunctionOnSet(c, B) BY <1>12, <1>13, SumSame
<1> QED BY <1>3, <1>5, <1>6, <1>15, <1>16 DEF B

-----------------------------------------------------------------------------
(* The sliding windows of filters 4 and 5 *)

\* A window that holds the rows of its hour is the hour.
LEMMA HeldIsTheHour ==
  ASSUME NEW XO \in SUBSET HourRows(2), NEW XR \in SUBSET HourRows(3),
         NEW objects \in Seq(XO), NEW rows \in Seq(XR), NEW minute, NEW w, w.minute = minute,
         NEW x, w.total = x.total, w.counts = x.counts,
         WindowHolds(x, objects, XO, HourIn(XO, minute), rows, XR, HourIn(XR, minute))
  PROVE  WindowIsTheHour(w, objects, rows)
<1> DEFINE O == InHour(objects, minute)
           H == InHour(rows, minute)
<1>1. ASSUME NEW m \in {2, 3}, NEW X \in SUBSET HourRows(m), NEW s \in Seq(X), NEW g, \A r \in X : g[r] \in Int
      PROVE  /\ InHour(s, minute) \in Seq(X)
             /\ Weigh(InHour(s, minute), g) = Weigh(s, Within(X, HourIn(X, minute), g))
  <2> DEFINE I == {i \in DOMAIN s : MinuteOf(s[i]) > minute - Span /\ MinuteOf(s[i]) <= minute}
             T == HourIn(X, minute)
  <2>1. InHour(s, minute) = At(s, I) BY DEF InHour
  <2>2. Marks(I, s, T)
    <3>1. \A i \in DOMAIN s : s[i] \in X OBVIOUS
    <3> QED BY <3>1 DEF Marks, HourIn
  <2> HIDE DEF I, T
  <2>3. At(s, I) \in Seq(X) BY AtType
  <2>4. Weigh(At(s, I), g) = Weigh(s, Within(X, T, g)) BY <1>1, <2>2, WeighMarked
  <2> QED BY <2>1, <2>3, <2>4 DEF T
<1>2. \A r \in XO : Counts(XO)[r] \in Int BY CountsInt
<1>3. O \in Seq(XO) /\ Weigh(O, Counts(XO)) = Weigh(objects, Within(XO, HourIn(XO, minute), Counts(XO)))
  BY <1>1, <1>2
<1>4. Holds(x.objects, objects, XO, HourIn(XO, minute)) /\ Holds(x.rows, rows, XR, HourIn(XR, minute))
      /\ x.total = Weigh(x.objects, Counts(XO))
  BY DEF WindowHolds
<1>5. x.total = Weigh(O, Counts(XO)) BY <1>2, <1>3, <1>4 DEF Holds
<1>6. x.total = CountsIn(O)
  <2> HIDE DEF O
  <2> QED BY <1>3, <1>5, CountsInIs
<1>7. H \in Seq(XR) /\ \A k : Weigh(H, OfThird(XR, k)) = Weigh(x.rows, OfThird(XR, k))
  <2>1. \A k : \A r \in XR : OfThird(XR, k)[r] \in Int BY OfThirdInt
  <2>2. H \in Seq(XR) BY <1>1, <1>2, <2>1
  <2>3. ASSUME NEW k PROVE Weigh(H, OfThird(XR, k)) = Weigh(x.rows, OfThird(XR, k))
    <3> DEFINE g == OfThird(XR, k)
    <3>1. \A r \in XR : g[r] \in Int BY <2>1
    <3> HIDE DEF g, H
    <3>2. Weigh(H, g) = Weigh(rows, Within(XR, HourIn(XR, minute), g)) BY <1>1, <3>1 DEF H
    <3>3. Weigh(x.rows, g) = Weigh(rows, Within(XR, HourIn(XR, minute), g)) BY <1>4, <3>1 DEF Holds
    <3>4. Weigh(H, g) = Weigh(x.rows, g) BY <3>2, <3>3
    <3> QED BY <3>4 DEF g
  <2> QED BY <2>2, <2>3
<1>8. \A k : /\ ThirdOf(H, k) = Weigh(H, OfThird(XR, k))
             /\ Weigh(H, OfThird(XR, k)) # 0 <=> \E i \in DOMAIN H : H[i].key[3] = k
  <2> HIDE DEF H
  <2> QED BY <1>7, ThirdIs
<1>9. \A k : /\ k \in DOMAIN x.counts <=> Weigh(x.rows, OfThird(XR, k)) # 0
             /\ k \in DOMAIN x.counts => x.counts[k] = Weigh(x.rows, OfThird(XR, k))
  BY DEF WindowHolds
<1> HIDE DEF O, H
<1>10. \A k : k \in DOMAIN x.counts <=> \E i \in DOMAIN H : H[i].key[3] = k BY <1>7, <1>8, <1>9
<1>11. \A k \in DOMAIN x.counts : x.counts[k] = ThirdOf(H, k) BY <1>7, <1>8, <1>9
<1>12. DOMAIN x.counts = {r.key[3] : r \in Range(H)}
  <2>1. \A k : k \in {r.key[3] : r \in Range(H)} <=> \E i \in DOMAIN H : H[i].key[3] = k BY DEF Range
  <2>2. \A k : k \in DOMAIN x.counts <=> k \in {r.key[3] : r \in Range(H)} BY <1>10, <2>1
  <2> QED BY <2>2, Zenon
<1>13. w.total = CountsIn(InHour(objects, w.minute)) BY <1>6 DEF O
<1>14. DOMAIN w.counts = {r.key[3] : r \in Range(InHour(rows, w.minute))} BY <1>12 DEF H
<1>15. \A k \in DOMAIN w.counts :
         w.counts[k] = CountsIn(At(InHour(rows, w.minute), {i \in DOMAIN InHour(rows, w.minute) : InHour(rows, w.minute)[i].key[3] = k}))
  BY <1>11 DEF H, ThirdOf
<1> QED BY <1>13, <1>14, <1>15 DEF WindowIsTheHour

\* Every window is its hour.
LEMMA WindowsAre ==
  ASSUME NEW objects \in Seq(HourRows(2)), NEW rows \in Seq(HourRows(3)),
         NEW i \in DOMAIN Windows(objects, rows)
  PROVE  WindowIsTheHour(Windows(objects, rows)[i], objects, rows)
<1> DEFINE M == MinutesOf(objects, rows)
           order == Ranked(M)
           t == CHOOSE u : Sliding(u, order, objects, rows)
           XO == RowsAt(2, M)
           XR == RowsAt(3, M)
           w == Windows(objects, rows)[i]
           minute == order[i]
           x == t[i]
<1>1. IsFiniteSet(M) /\ M \in SUBSET Int /\ objects \in Seq(XO) /\ rows \in Seq(XR) BY MinutesAre
<1>2. Ascends(order, M) BY <1>1, NumbersInOrder
<1>3. Len(order) \in Nat
  <2> DEFINE n == Cardinality(M)
  <2>1. order \in [1..n -> M] /\ n \in Nat BY <1>2 DEF Ascends
  <2> HIDE DEF n, order
  <2>2. order \in Seq(M) BY <2>1
  <2> QED BY <2>2
<1>4. Sliding(t, order, objects, rows)
  <2> HIDE DEF order
  <2> QED BY <1>3, SlidingExists
<1>5. i \in DOMAIN order /\ w = WindowAt(order, t, i) BY WindowsIsChosen
<1>6. XO \in SUBSET HourRows(2) /\ XR \in SUBSET HourRows(3) BY DEF RowsAt
<1>7. w.minute = minute /\ w.total = x.total /\ w.counts = x.counts BY <1>5 DEF WindowAt
<1> HIDE DEF t, w
<1>8. WindowHolds(x, objects, XO, HourIn(XO, minute), rows, XR, HourIn(XR, minute))
  <2> HIDE DEF order, M, XO, XR
  <2> QED BY <1>4, <1>5, WindowsHold DEF order, M, XO, XR
<1> HIDE DEF x, minute, XO, XR
<1>9. WindowIsTheHour(w, objects, rows) BY <1>1, <1>6, <1>7, <1>8, HeldIsTheHour
<1> QED BY <1>9 DEF w

\* The rows of a uid in a store of the stream.
LEMMA SeriesOfStore ==
  ASSUME StoresAreSound, NEW r \in StreamRoots, NEW u
  PROVE  /\ SeriesOf(stores[r], u) \in Seq(HourRows(KeyLength[r]))
         /\ r = "minutes" => InTime(SeriesOf(stores[r], u))
<1> DEFINE m == KeyLength[r]
           store == stores[r]
<1>1. RunIsSound /\ IsAPrefix(r) BY DEF StoresAreSound
<1>2. m \in {2, 3} /\ (r = "minutes" => m = 2) BY DEF KeyLength, StreamRoots
<1>3. /\ Records(store) \in Seq(HourRows(m))
      /\ \A i, j \in DOMAIN Records(store) : i < j => Before(Records(store)[i].key, Records(store)[j].key)
  BY <1>1, StoreRows
<1> HIDE DEF store, m
<1>4. /\ SeriesOf(store, u) \in Seq(HourRows(m))
      /\ m = 2 => InTime(SeriesOf(store, u))
  BY <1>2, <1>3, SeriesIs
<1> QED BY <1>2, <1>4 DEF store, m

\* The sliding sums of filters 2, 4 and 5 hold the rows of the last hour.
THEOREM WindowsHoldTheHour == Spec => []WindowsAreTheHour
<1>1. ASSUME StoresAreSound, NEW u PROVE
        LET series == SeriesOf(stores["minutes"], u)
        IN  \A i \in DOMAIN series : HourSpans(series)[i] = CountsIn(InHour(series, MinuteOf(series[i])))
  <2> DEFINE series == SeriesOf(stores["minutes"], u)
  <2>1. "minutes" \in StreamRoots /\ KeyLength["minutes"] = 2 BY DEF StreamRoots, KeyLength
  <2>2. series \in Seq(HourRows(2)) /\ InTime(series) BY <1>1, <2>1, SeriesOfStore
  <2> HIDE DEF series
  <2>3. \A i \in DOMAIN series : HourSpans(series)[i] = CountsIn(InHour(series, MinuteOf(series[i])))
    BY <2>2, HourSpansAre
  <2> QED BY <2>3 DEF series
<1>2. ASSUME StoresAreSound, NEW root \in {"cells", "tags"}, NEW u PROVE
        LET objects == SeriesOf(stores["minutes"], u)
            rows == SeriesOf(stores[root], u)
            windows == Windows(objects, rows)
        IN  \A i \in DOMAIN windows : WindowIsTheHour(windows[i], objects, rows)
  <2> DEFINE objects == SeriesOf(stores["minutes"], u)
             rows == SeriesOf(stores[root], u)
  <2>1. /\ "minutes" \in StreamRoots /\ KeyLength["minutes"] = 2
        /\ root \in StreamRoots /\ KeyLength[root] = 3
    BY DEF StreamRoots, KeyLength
  <2>2. objects \in Seq(HourRows(2)) BY <1>2, <2>1, SeriesOfStore
  <2>3. rows \in Seq(HourRows(3)) BY <1>2, <2>1, SeriesOfStore
  <2> HIDE DEF objects, rows
  <2>4. \A i \in DOMAIN Windows(objects, rows) : WindowIsTheHour(Windows(objects, rows)[i], objects, rows)
    BY <2>2, <2>3, WindowsAre
  <2> QED BY <2>4 DEF objects, rows
<1>3. StoresAreSound => WindowsAreTheHour BY <1>1, <1>2 DEF WindowsAreTheHour
<1> QED BY <1>3, StoresAreSoundAlways, PTL

-----------------------------------------------------------------------------
(* The hours of the stream: edits, and edits with a cell or a tag *)

\* The hour of a uid among the edits.
LEMMA HourIs ==
  ASSUME NEW vs \in Seq(Versions), NEW edits, AreEdits(edits, vs),
         NEW u, NEW m
  PROVE  Parted(HourOf(edits, u, m), Versions, vs, HourVersions(u, m))
<1> DEFINE I == {i \in DOMAIN vs : vs[i].action # "create"}
           J == {i \in DOMAIN edits : edits[i].uid = u /\ edits[i].minute > m - Span /\ edits[i].minute <= m}
           H == {v \in Versions : v.uid = u /\ v.minute > m - Span /\ v.minute <= m}
           hour == HourOf(edits, u, m)
<1>1. Parted(edits, Versions, vs, EditVersions) BY EditsAre
<1>2. edits \in Seq(Versions) BY <1>1 DEF Parted
<1>3. \A i \in DOMAIN edits : edits[i] \in Versions BY <1>2
<1>4. Marks(J, edits, H) BY <1>3 DEF Marks
<1>5. hour = At(edits, J) BY DEF HourOf
<1>6. \A i \in DOMAIN vs : vs[i] \in Versions OBVIOUS
<1>7. Marks(I, vs, EditVersions) BY <1>6 DEF Marks, EditVersions
<1>8. edits = At(vs, I) BY DEF AreEdits
<1>9. EditVersions \cap H = HourVersions(u, m) BY DEF HourVersions, EditVersions
<1> HIDE DEF I, J, H, hour
<1>10. Parted(hour, Versions, edits, H) BY <1>2, <1>4, <1>5, AtParts
<1>11. \A g : (\A x \in Versions : g[x] \in Int) => Weigh(edits, g) = Weigh(vs, Within(Versions, EditVersions, g))
  BY <1>7, <1>8, WeighMarked
<1>12. Parted(hour, Versions, vs, EditVersions \cap H) BY <1>1, <1>10, <1>11, PartedTwice
<1> QED BY <1>9, <1>12 DEF hour

LEMMA PartsAreFinite ==
  ASSUME NEW vs \in Seq(Versions), NEW root \in Roots, NEW u, NEW m
  PROVE  IsFiniteSet(Parts(vs, root, u, m))
<1> DEFINE K == [i \in DOMAIN vs |-> KeysOf(root, vs[i])]
           all == UNION {K[i] : i \in DOMAIN vs}
           third == [k \in all |-> k[3]]
           F == {third[k] : k \in all}
<1>1. \A i \in DOMAIN vs : vs[i] \in Versions /\ IsFiniteSet(K[i])
  <2>1. \A i \in DOMAIN vs : vs[i] \in Versions OBVIOUS
  <2> QED BY <2>1, KeysOfTypes
<1>2. IsFiniteSet(DOMAIN vs)
  <2>1. DOMAIN vs = 1..Len(vs) /\ Len(vs) \in Nat OBVIOUS
  <2> QED BY <2>1, FS_Interval
<1>3. IsFiniteSet({K[i] : i \in DOMAIN vs})
  <2> HIDE DEF K
  <2> QED BY <1>2, ImageIsFinite
<1>4. IsFiniteSet(all) BY <1>1, <1>3, FS_UNION
<1>5. IsFiniteSet(F)
  <2> HIDE DEF third, all
  <2> QED BY <1>4, ImageIsFinite
<1>6. ASSUME NEW t \in Parts(vs, root, u, m) PROVE t \in F
  <2>1. PICK i \in DOMAIN vs : vs[i] \in PartVersions(root, u, m, t) BY <1>6, NumbersOfHour DEF Parts
  <2> DEFINE k == <<vs[i].uid, vs[i].minute, t>>
  <2>2. k \in K[i] BY <2>1 DEF PartVersions
  <2>3. k \in all /\ k[3] = t BY <2>2
  <2> QED BY <2>3
<1>7. Parts(vs, root, u, m) \subseteq F BY <1>6
<1> HIDE DEF F
<1> QED BY <1>5, <1>7, FS_Subset

LEMMA HourCountsAre ==
  ASSUME NEW vs \in Seq(Versions), NEW edits, AreEdits(edits, vs),
         NEW u, NEW m, NEW hour, hour = HourOf(edits, u, m)
  PROVE  HourHolds(hour, vs, u, m)
<1> DEFINE H == HourVersions(u, m)
<1>1. Parted(hour, Versions, vs, H) BY HourIs
<1>2. /\ hour \in Seq(Versions) /\ Len(hour) = Weigh(vs, Ones(Versions, H))
      /\ \A v \in Versions : (\E j \in DOMAIN hour : hour[j] = v) <=> (v \in H /\ \E i \in DOMAIN vs : vs[i] = v)
      /\ \A S : Cardinality({j \in DOMAIN hour : hour[j] \in S}) = Weigh(vs, Ones(Versions, H \cap S))
  BY <1>1 DEF Parted
<1>3. Len(hour) = HourCount(vs, u, m) BY <1>2 DEF HourCount, OfHour
<1> HIDE DEF H
<1>4. \A j \in DOMAIN hour : hour[j] \in Versions BY <1>2
<1>5. \A i \in DOMAIN vs : vs[i] \in Versions OBVIOUS
<1>6. \A v : v \in Range(hour) <=> v \in Versions /\ v \in H /\ \E i \in DOMAIN vs : vs[i] = v
  <2> TAKE v
  <2>1. v \in Range(hour) <=> \E j \in DOMAIN hour : hour[j] = v BY DEF Range
  <2>2. CASE v \in Versions
    <3>1. (\E j \in DOMAIN hour : hour[j] = v) <=> (v \in H /\ \E i \in DOMAIN vs : vs[i] = v) BY <1>2, <2>2
    <3> QED BY <2>1, <2>2, <3>1
  <2>3. CASE v \notin Versions
    <3>1. ~\E j \in DOMAIN hour : hour[j] = v BY <1>4, <2>3
    <3> QED BY <2>1, <2>3, <3>1
  <2> QED BY <2>2, <2>3
<1>7. \A v \in Versions : v.cells \subseteq Int /\ v.tags \subseteq Int
  <2> TAKE v \in Versions
  <2>1. v.cells \subseteq Int /\ v.tags \subseteq Nat BY VersionTypes
  <2> QED BY <2>1
<1>8. ASSUME NEW t PROVE t \in UNION {IF v.kind = "relation" THEN {} ELSE v.cells : v \in Range(hour)}
                           <=> t \in Parts(vs, "cells", u, m)
  <2>1. t \in UNION {IF v.kind = "relation" THEN {} ELSE v.cells : v \in Range(hour)}
          <=> \E v \in Range(hour) : v.kind # "relation" /\ t \in v.cells
    OBVIOUS
  <2>2. t \in Parts(vs, "cells", u, m)
          <=> t \in Int /\ \E i \in DOMAIN vs : vs[i] \in PartVersions("cells", u, m, t)
    BY NumbersOfHour DEF Parts
  <2>3. \A v \in Versions : v \in PartVersions("cells", u, m, t) <=> v \in H /\ v.kind # "relation" /\ t \in v.cells
    BY PartVersionsAre DEF H
  <2> QED BY <2>1, <2>2, <2>3, <1>5, <1>6, <1>7
<1>9. ASSUME NEW t PROVE t \in UNION {v.tags : v \in Range(hour)} <=> t \in Parts(vs, "tags", u, m)
  <2>1. t \in UNION {v.tags : v \in Range(hour)} <=> \E v \in Range(hour) : t \in v.tags
    OBVIOUS
  <2>2. t \in Parts(vs, "tags", u, m)
          <=> t \in Int /\ \E i \in DOMAIN vs : vs[i] \in PartVersions("tags", u, m, t)
    BY NumbersOfHour DEF Parts
  <2>3. \A v \in Versions : v \in PartVersions("tags", u, m, t) <=> v \in H /\ t \in v.tags
    BY PartVersionsAre DEF H
  <2> QED BY <2>1, <2>2, <2>3, <1>5, <1>6, <1>7
<1>10. ASSUME NEW t PROVE Cardinality({i \in DOMAIN hour : t \in hour[i].tags}) = PartCount(vs, "tags", u, m, t)
  <2> DEFINE S == {v \in Versions : t \in v.tags}
  <2>1. {i \in DOMAIN hour : t \in hour[i].tags} = {i \in DOMAIN hour : hour[i] \in S} BY <1>4
  <2>2. \A v \in Versions : v \in H \cap S <=> v \in PartVersions("tags", u, m, t)
    BY PartVersionsAre DEF H
  <2>3. Ones(Versions, H \cap S) = OfPart("tags", u, m, t)
    <3> HIDE DEF S
    <3> QED BY <2>2 DEF Ones, OfPart
  <2> QED BY <2>1, <2>3, <1>2 DEF PartCount
<1>11. UNION {IF v.kind = "relation" THEN {} ELSE v.cells : v \in Range(hour)} = Parts(vs, "cells", u, m)
  BY <1>8, Zenon
<1>12. UNION {v.tags : v \in Range(hour)} = Parts(vs, "tags", u, m) BY <1>9, Zenon
<1> QED BY <1>2, <1>3, <1>10, <1>11, <1>12 DEF HourHolds, CellsOf, TagsOf, With

LEMMA PrefixTyped ==
  ASSUME RunIsSound, NEW n \in 0..Len(batches)
  PROVE  Prefix(n) \in Seq(Versions) /\ AreEdits(Edits(n), Prefix(n))
<1>1. \A x \in Versions : Ones(Versions, {})[x] \in Int BY OnesAreNumbers
<1>2. Prefix(n) \in Seq(Versions) BY <1>1, WeighPrefix, StreamTypes
<1> QED BY <1>2 DEF Edits, AreEdits

LEMMA EditDaysAre ==
  ASSUME RunIsSound, NEW n \in 0..Len(batches), NEW k
  PROVE  k \in EditDays(n) <=> IsEditDay(Prefix(n), k)
<1> DEFINE vs == Prefix(n)
           edits == Edits(n)
<1>1. vs \in Seq(Versions) /\ AreEdits(edits, vs) BY PrefixTyped
<1>2. k \in EditDays(n)
        <=> \E v \in Range(edits) : k = DayKey(v) /\ Len(HourOf(edits, v.uid, v.minute)) > HourEdits
  BY DEF EditDays, DaysWith
<1> HIDE DEF vs, edits
<1>3. \A u, m : Len(HourOf(edits, u, m)) = HourCount(vs, u, m) BY <1>1, HourCountsAre DEF HourHolds
<1>4. /\ \A v \in Range(edits) : v \in Versions /\ HasEdit(vs, v.uid, v.minute)
      /\ \A u, m : HasEdit(vs, u, m) => \E v \in Range(edits) : v.uid = u /\ v.minute = m
  BY <1>1, EditsHave DEF EditsHold
<1>5. k \in EditDays(n) <=> IsEditDay(vs, k) BY <1>2, <1>3, <1>4 DEF IsEditDay, DayKey
<1> QED BY <1>5 DEF vs

LEMMA SpreadDaysAre ==
  ASSUME RunIsSound, NEW n \in 0..Len(batches), NEW k
  PROVE  k \in SpreadDays(n) <=> IsSpreadDay(Prefix(n), k)
<1> DEFINE vs == Prefix(n)
           edits == Edits(n)
<1>1. vs \in Seq(Versions) /\ AreEdits(edits, vs) BY PrefixTyped
<1>2. k \in SpreadDays(n)
        <=> \E v \in Range(edits) :
              /\ k = DayKey(v)
              /\ Len(HourOf(edits, v.uid, v.minute)) >= SpreadEdits
              /\ Cardinality(CellsOf(HourOf(edits, v.uid, v.minute))) >= SpreadCells
              /\ Cardinality(CellsOf(HourOf(edits, v.uid, v.minute))) * CellArea >= SpreadArea
  BY DEF SpreadDays, DaysWith, CellsOf
<1> HIDE DEF vs, edits
<1>3. \A u, m : /\ Len(HourOf(edits, u, m)) = HourCount(vs, u, m)
                /\ CellsOf(HourOf(edits, u, m)) = Parts(vs, "cells", u, m)
  BY <1>1, HourCountsAre DEF HourHolds
<1>4. /\ \A v \in Range(edits) : v \in Versions /\ HasEdit(vs, v.uid, v.minute)
      /\ \A u, m : HasEdit(vs, u, m) => \E v \in Range(edits) : v.uid = u /\ v.minute = m
  BY <1>1, EditsHave DEF EditsHold
<1>5. k \in SpreadDays(n) <=> IsSpreadDay(vs, k) BY <1>2, <1>3, <1>4 DEF IsSpreadDay, IsWide, DayKey
<1> QED BY <1>5 DEF vs

LEMMA CoverDaysAre ==
  ASSUME RunIsSound, NEW n \in 0..Len(batches), NEW p \in 0..Len(batches), NEW k
  PROVE  k \in CoverDays(n, p) <=> IsCoverDay(Prefix(n), Prefix(p), k)
<1> DEFINE vs == Prefix(n)
           ws == Prefix(p)
           edits == Edits(n)
           tagged == Edits(p)
           both == {v \in Range(edits \o tagged) : TRUE}
<1>1. /\ vs \in Seq(Versions) /\ AreEdits(edits, vs)
      /\ ws \in Seq(Versions) /\ AreEdits(tagged, ws)
  BY PrefixTyped
<1>2. k \in CoverDays(n, p)
        <=> \E v \in both :
              /\ k = DayKey(v)
              /\ Len(HourOf(edits, v.uid, v.minute)) >= CoverEdits
              /\ \E t \in TagsOf(HourOf(tagged, v.uid, v.minute)) :
                   With(HourOf(tagged, v.uid, v.minute), t) * 10
                     > Len(HourOf(edits, v.uid, v.minute)) * CoverTenths
  BY DEF CoverDays, With, TagsOf
<1> HIDE DEF vs, ws, edits, tagged
<1>3. \A u, m : /\ Len(HourOf(edits, u, m)) = HourCount(vs, u, m)
                /\ TagsOf(HourOf(tagged, u, m)) = Parts(ws, "tags", u, m)
                /\ \A t : With(HourOf(tagged, u, m), t) = PartCount(ws, "tags", u, m, t)
  <2> TAKE u, m
  <2>1. HourHolds(HourOf(edits, u, m), vs, u, m) BY <1>1, HourCountsAre
  <2>2. HourHolds(HourOf(tagged, u, m), ws, u, m) BY <1>1, HourCountsAre
  <2> QED BY <2>1, <2>2 DEF HourHolds
<1>4. /\ edits \in Seq(Versions)
      /\ \A v \in Range(edits) : v \in Versions /\ HasEdit(vs, v.uid, v.minute)
      /\ \A u, m : HasEdit(vs, u, m) => \E v \in Range(edits) : v.uid = u /\ v.minute = m
  BY <1>1, EditsHave DEF EditsHold
<1>5. /\ tagged \in Seq(Versions)
      /\ \A v \in Range(tagged) : v \in Versions /\ HasEdit(ws, v.uid, v.minute)
      /\ \A u, m : HasEdit(ws, u, m) => \E v \in Range(tagged) : v.uid = u /\ v.minute = m
  BY <1>1, EditsHave DEF EditsHold
<1>6. \A v : v \in both <=> v \in Range(edits) \/ v \in Range(tagged)
  <2> DEFINE l == edits \o tagged
  <2>1. /\ Len(edits) \in Nat /\ DOMAIN edits = 1..Len(edits)
        /\ Len(tagged) \in Nat /\ DOMAIN tagged = 1..Len(tagged)
        /\ DOMAIN l = 1..(Len(edits) + Len(tagged))
        /\ \A i \in DOMAIN edits : l[i] = edits[i]
        /\ \A i \in DOMAIN tagged : l[Len(edits) + i] = tagged[i]
        /\ \A i \in DOMAIN l : i > Len(edits) => l[i] = tagged[i - Len(edits)]
    BY <1>4, <1>5
  <2> HIDE DEF l
  <2>2. \A v : v \in Range(l) <=> \E i \in DOMAIN l : l[i] = v BY DEF Range
  <2>3. \A v : v \in Range(edits) <=> \E i \in DOMAIN edits : edits[i] = v BY DEF Range
  <2>4. \A v : v \in Range(tagged) <=> \E i \in DOMAIN tagged : tagged[i] = v BY DEF Range
  <2>5. \A i \in DOMAIN edits : i \in DOMAIN l BY <2>1
  <2>6. \A i \in DOMAIN tagged : Len(edits) + i \in DOMAIN l BY <2>1
  <2>7. \A i \in DOMAIN l : i \in DOMAIN edits \/ (i > Len(edits) /\ i - Len(edits) \in DOMAIN tagged) BY <2>1
  <2>8. \A v : v \in Range(l) => v \in Range(edits) \/ v \in Range(tagged) BY <2>1, <2>2, <2>3, <2>4, <2>7
  <2>9. \A v : v \in Range(edits) \/ v \in Range(tagged) => v \in Range(l) BY <2>1, <2>2, <2>3, <2>4, <2>5, <2>6
  <2> QED BY <2>8, <2>9 DEF l
<1> HIDE DEF both
<1>7. k \in CoverDays(n, p) <=> IsCoverDay(vs, ws, k) 
  <2>1. ASSUME k \in CoverDays(n, p) PROVE IsCoverDay(vs, ws, k)
    <3>1. PICK v \in both :
              /\ k = DayKey(v)
              /\ Len(HourOf(edits, v.uid, v.minute)) >= CoverEdits
              /\ \E t \in TagsOf(HourOf(tagged, v.uid, v.minute)) :
                   With(HourOf(tagged, v.uid, v.minute), t) * 10
                     > Len(HourOf(edits, v.uid, v.minute)) * CoverTenths
      BY <1>2, <2>1
    <3> DEFINE u == v.uid
               m == v.minute
    <3>2. Covers(vs, ws, u, m) BY <1>3, <3>1 DEF Covers
    <3>3. HasEdit(vs, u, m) \/ HasEdit(ws, u, m) BY <1>4, <1>5, <1>6
    <3>4. k = <<u, Day(m)>> BY <3>1 DEF DayKey
    <3> HIDE DEF u, m
    <3> QED BY <3>2, <3>3, <3>4 DEF IsCoverDay
  <2>2. ASSUME IsCoverDay(vs, ws, k) PROVE k \in CoverDays(n, p)
    <3>1. PICK u, m : k = <<u, Day(m)>> /\ (HasEdit(vs, u, m) \/ HasEdit(ws, u, m)) /\ Covers(vs, ws, u, m)
      BY <2>2 DEF IsCoverDay
    <3>2. PICK v \in both : v.uid = u /\ v.minute = m BY <1>4, <1>5, <1>6, <3>1
    <3>3. k = DayKey(v) BY <3>1, <3>2 DEF DayKey
    <3>4. /\ Len(HourOf(edits, u, m)) >= CoverEdits
          /\ \E t \in TagsOf(HourOf(tagged, u, m)) :
               With(HourOf(tagged, u, m), t) * 10 > Len(HourOf(edits, u, m)) * CoverTenths
      BY <1>3, <3>1 DEF Covers
    <3> QED BY <1>2, <3>2, <3>3, <3>4
  <2> QED BY <2>1, <2>2
<1> QED BY <1>7 DEF vs, ws

LEMMA MoveDaysAre ==
  ASSUME RunIsSound, NEW n \in 0..Len(batches), NEW k
  PROVE  k \in MoveDays(n) <=> \E i \in DOMAIN Prefix(n) : Prefix(n)[i] \in FarVersions /\ DayKey(Prefix(n)[i]) = k
<1> DEFINE vs == Prefix(n)
           I == {i \in DOMAIN vs : vs[i].kind = "node" /\ vs[i].action = "modify" /\ vs[i].move > FarMeters}
           far == FarMoves(vs)
<1>1. vs \in Seq(Versions) BY PrefixTyped
<1>2. far = At(vs, I) BY DEF FarMoves
<1>3. k \in MoveDays(n) <=> \E j \in DOMAIN far : DayKey(far[j]) = k BY DEF MoveDays, DayKeys
<1>4. \A i \in DOMAIN vs : i \in I <=> vs[i] \in FarVersions
  <2>1. \A i \in DOMAIN vs : vs[i] \in Versions BY <1>1
  <2> QED BY <2>1 DEF FarVersions
<1> HIDE DEF vs, I, far
<1>5. Takes(far, vs, I) BY <1>1, <1>2, AtHas
<1>6. ASSUME NEW j \in DOMAIN far, DayKey(far[j]) = k PROVE \E i \in DOMAIN vs : vs[i] \in FarVersions /\ DayKey(vs[i]) = k
  <2>1. PICK i \in DOMAIN vs \cap I : far[j] = vs[i] BY <1>5 DEF Takes
  <2> QED BY <1>4, <1>6, <2>1
<1>7. ASSUME NEW i \in DOMAIN vs, vs[i] \in FarVersions, DayKey(vs[i]) = k PROVE \E j \in DOMAIN far : DayKey(far[j]) = k
  <2>1. i \in DOMAIN vs \cap I BY <1>4, <1>7
  <2>2. PICK j \in DOMAIN far : far[j] = vs[i] BY <1>5, <2>1 DEF Takes
  <2> QED BY <1>7, <2>2
<1> QED BY <1>3, <1>6, <1>7 DEF vs

-----------------------------------------------------------------------------
(* What the stores hold of an hour *)

\* The same by the tally.
LEMMA TallyWeighs ==
  ASSUME NEW vs \in Seq(Versions), NEW root \in Roots, NEW T, OneAtMost(root, T),
         NEW c, c = Tally(root, vs), NEW f, \A k \in DOMAIN c : f[k] = (IF k \in T THEN c[k] ELSE 0)
  PROVE  SumFunctionOnSet(f, DOMAIN c) = Weigh(vs, Ones(Versions, Keyed(root, T)))
<1> DEFINE K == DOMAIN c \cap T
<1>1. /\ \A k : /\ Weigh(vs, OfKey(root, k)) \in Nat
                /\ k \in DOMAIN c <=> Weigh(vs, OfKey(root, k)) # 0
                /\ k \in DOMAIN c => c[k] = Weigh(vs, OfKey(root, k))
      /\ IsFiniteSet(DOMAIN c)
  BY TallyIs
<1>2. IsFiniteSet(K) /\ K \in SUBSET (DOMAIN c) BY <1>1, FS_Subset
<1>3. \A k \in K : f[k] = Weigh(vs, OfKey(root, k)) BY <1>1
<1>4. OneAtMost(root, K) BY DEF OneAtMost
<1>5. SumFunctionOnSet(f, DOMAIN c) = SumFunctionOnSet(f, K)
  <2>1. \A k \in DOMAIN c : f[k] \in Int
    <3> TAKE k \in DOMAIN c
    <3>1. c[k] \in Nat BY <1>1
    <3> QED BY <3>1
  <2>2. \A k \in DOMAIN c \ K : f[k] = 0 OBVIOUS
  <2> HIDE DEF K
  <2> QED BY <1>1, <1>2, <2>1, <2>2, SumInside
<1>6. SumFunctionOnSet(f, K) = Weigh(vs, Ones(Versions, Keyed(root, K)))
  <2> HIDE DEF K
  <2> QED BY <1>2, <1>3, <1>4, KeysWeigh
<1>7. Weigh(vs, Ones(Versions, Keyed(root, K))) = Weigh(vs, Ones(Versions, Keyed(root, T)))
  <2> DEFINE X == {vs[i] : i \in DOMAIN vs}
             g == Ones(Versions, Keyed(root, K))
             h == Ones(Versions, Keyed(root, T))
  <2>1. vs \in Seq(X)
    <3>1. Len(vs) \in Nat /\ vs = [i \in 1..Len(vs) |-> vs[i]] /\ \A i \in 1..Len(vs) : vs[i] \in X OBVIOUS
    <3> HIDE DEF X
    <3>2. vs \in [1..Len(vs) -> X] BY <3>1
    <3> QED BY <3>1, <3>2
  <2>2. \A i \in DOMAIN vs : vs[i] \in Versions OBVIOUS
  <2>3. ASSUME NEW i \in DOMAIN vs PROVE vs[i] \in Keyed(root, K) <=> vs[i] \in Keyed(root, T)
    <3>1. ASSUME NEW k \in T, k \in KeysOf(root, vs[i]) PROVE k \in DOMAIN c
      <4> DEFINE R == {v \in Versions : k \in KeysOf(root, v)}
      <4>1. Weigh(vs, Ones(Versions, R)) = 0 <=> \A j \in DOMAIN vs : vs[j] \notin R BY NumberZero
      <4>2. vs[i] \in R BY <2>2, <3>1
      <4>3. Weigh(vs, OfKey(root, k)) # 0 BY <4>1, <4>2 DEF OfKey
      <4> QED BY <1>1, <4>3
    <3> QED BY <2>2, <3>1 DEF Keyed
  <2>4. \A x \in X : g[x] \in Int /\ g[x] = h[x]
    <3>1. ASSUME NEW i \in DOMAIN vs PROVE g[vs[i]] \in Int /\ g[vs[i]] = h[vs[i]]
      <4> DEFINE v == vs[i]
      <4>1. v \in Versions /\ (v \in Keyed(root, K) <=> v \in Keyed(root, T)) BY <2>2, <2>3
      <4> HIDE DEF v, K
      <4>2. g[v] = IF v \in Keyed(root, K) THEN 1 ELSE 0 BY <4>1, OnesAt
      <4>3. h[v] = IF v \in Keyed(root, T) THEN 1 ELSE 0 BY <4>1, OnesAt
      <4> HIDE DEF g, h
      <4>4. g[v] \in Int /\ g[v] = h[v] BY <4>1, <4>2, <4>3
      <4> QED BY <4>4 DEF v
    <3> HIDE DEF g, h
    <3> QED BY <3>1
  <2> HIDE DEF X, g, h
  <2>5. Weigh(vs, g) = Weigh(vs, h) BY <2>1, <2>4, WeighSame
  <2> QED BY <2>5 DEF g, h
<1> QED BY <1>5, <1>6, <1>7

\* The prefix of the stream in a store.
Stored(r) == Prefix(AppliedSeqOf(stores[r]))

LEMMA StoreWeighs ==
  ASSUME RunIsSound, NEW r \in StreamRoots, IsAPrefix(r), NEW T, OneAtMost(r, T)
  PROVE  /\ Stored(r) \in Seq(Versions)
         /\ Weigh(Records(stores[r]), CountsOf(HourRows(KeyLength[r]), T))
              = Weigh(Stored(r), Ones(Versions, Keyed(r, T)))
<1> DEFINE s == AppliedSeqOf(stores[r])
           P == Prefix(s)
           c == Tally(r, P)
           m == KeyLength[r]
           X == HourRows(m)
           g == CountsOf(X, T)
           h == [k \in DOMAIN c |-> g[RecordOf(c, k)]]
           w == Ones(Versions, Keyed(r, T))
<1>1. /\ s \in 0..Len(batches)
      /\ stores[r] = Absent => s = 0
      /\ stores[r] # Absent => s \in 1..Len(batches) /\ stores[r] = Written(c, s)
  BY PrefixStore
<1>2. batches \in Seq(Seq(Versions)) /\ Len(batches) \in Nat BY StreamTypes
<1>3. \A x \in Versions : w[x] \in Int BY OnesAreNumbers
<1>4. P \in Seq(Versions) /\ Weigh(P, w) = Heaped(w, 1..s)
  <2> HIDE DEF w, s
  <2> QED BY <1>1, <1>2, <1>3, WeighPrefix
<1>5. CASE stores[r] = Absent
  <2>1. 1..s = {} BY <1>1, <1>5
  <2>2. Heaped(w, {}) = 0 BY SumEmpty DEF Heaped
  <2>3. Records(stores[r]) = <<>> BY <1>5 DEF Records
  <2>4. Weigh(<<>>, g) = 0 BY WeighEmpty
  <2> QED BY <1>4, <2>1, <2>2, <2>3, <2>4 DEF Stored
<1>6. CASE stores[r] # Absent
  <2>1. s \in Nat /\ s \in 0..Len(batches) /\ stores[r] = Written(c, s) BY <1>1, <1>2, <1>6
  <2> HIDE DEF s
  <2>2. /\ IsFiniteSet(DOMAIN c) /\ DOMAIN c \subseteq Keys(m) /\ m \in Nat
        /\ \A k \in DOMAIN c : c[k] \in Nat
    BY <2>1, TallyOfPrefix
  <2>3. r \in Roots BY DEF StreamRoots, Roots
  <2>4. \A k \in DOMAIN c : c[k] # 0
    <3> HIDE DEF P
    <3>1. \A k : /\ k \in DOMAIN c <=> Weigh(P, OfKey(r, k)) # 0
                 /\ k \in DOMAIN c => c[k] = Weigh(P, OfKey(r, k))
      BY <1>4, <2>3, TallyIs
    <3> QED BY <3>1
  <2> HIDE DEF P
  <2>5. Records(stores[r]) = Lined(c)
    <3> HIDE DEF c, m
    <3> QED BY <2>1, <2>2, ReadsBack
  <2>6. ASSUME NEW k \in DOMAIN c PROVE g[RecordOf(c, k)] = (IF k \in T THEN c[k] ELSE 0) /\ c[k] \in Nat
    <3>1. c[k] \in Nat \ {0} /\ k \in Keys(m) BY <2>2, <2>4
    <3> DEFINE x == RecordOf(c, k)
    <3>2. x \in X /\ x.key = k /\ x.count = c[k] BY <3>1 DEF RecordOf, HourRows
    <3> HIDE DEF x, X
    <3>3. g[x] = (IF x.key \in T THEN x.count ELSE 0) BY <3>2 DEF CountsOf, Within, Counts
    <3> QED BY <3>1, <3>2, <3>3 DEF x
  <2>7. Weigh(Lined(c), g) = SumFunctionOnSet(h, DOMAIN c)
    <3>1. \A k \in DOMAIN c : g[RecordOf(c, k)] \in Int
      <4> TAKE k \in DOMAIN c
      <4>1. g[RecordOf(c, k)] = (IF k \in T THEN c[k] ELSE 0) /\ c[k] \in Nat BY <2>6
      <4> HIDE DEF g
      <4> QED BY <4>1
    <3> HIDE DEF g, c, m
    <3> QED BY <2>2, <3>1, LinedWeighs
  <2>8. SumFunctionOnSet(h, DOMAIN c) = Weigh(P, w)
    <3>1. \A k \in DOMAIN c : h[k] = (IF k \in T THEN c[k] ELSE 0) BY <2>6
    <3>2. c = Tally(r, P) OBVIOUS
    <3> HIDE DEF h, c
    <3> QED BY <1>4, <2>3, <3>1, <3>2, TallyWeighs
  <2> QED BY <1>4, <2>5, <2>7, <2>8 DEF Stored, P, s
<1> QED BY <1>5, <1>6

\* Which keys a store's rows have.
LEMMA RowKeys ==
  ASSUME RunIsSound, NEW r \in StreamRoots, IsAPrefix(r)
  PROVE  /\ \A k : (\E i \in DOMAIN Records(stores[r]) : Records(stores[r])[i].key = k)
                     <=> Weigh(Stored(r), OfKey(r, k)) # 0
         /\ \A u : u \in UidsIn(stores[r]) <=> \E k : k[1] = u /\ Weigh(Stored(r), OfKey(r, k)) # 0
<1> DEFINE s == AppliedSeqOf(stores[r])
           P == Prefix(s)
           c == Tally(r, P)
           records == Records(stores[r])
<1>1. s \in 0..Len(batches) /\ Contents(stores[r]) = c BY PrefixStore
<1>2. DOMAIN Contents(stores[r]) = {records[i].key : i \in DOMAIN records} BY DEF Contents
<1>3. batches \in Seq(Seq(Versions)) BY StreamTypes
<1>4. P \in Seq(Versions) BY <1>1, PrefixTyped
<1>5. r \in Roots BY DEF StreamRoots, Roots
<1>6. \A k : k \in DOMAIN c <=> Weigh(P, OfKey(r, k)) # 0
  <2> HIDE DEF P
  <2> QED BY <1>4, <1>5, TallyIs
<1>7. P = Stored(r) BY DEF Stored
<1>8. \A u : u \in UidsIn(stores[r]) <=> \E k \in DOMAIN c : k[1] = u BY <1>1 DEF UidsIn
<1> HIDE DEF c, P, records
<1> QED BY <1>1, <1>2, <1>6, <1>7, <1>8 DEF records

LEMMA HourKeysAre ==
  ASSUME NEW u, NEW m
  PROVE  OneAtMost("minutes", HourKeys(2, u, m)) /\ Keyed("minutes", HourKeys(2, u, m)) = HourVersions(u, m)
<1>1. ASSUME NEW v \in Versions
      PROVE  \A k : k \in KeysOf("minutes", v) <=> v.action # "create" /\ k = <<v.uid, v.minute>>
  BY DEF KeysOf, MinuteKeys
<1>2. \A v \in Versions : <<v.uid, v.minute>> \in Keys(2)
  <2> TAKE v \in Versions
  <2> DEFINE a == v.uid
             b == v.minute
  <2>1. a \in Int /\ b \in Int BY VersionTypes
  <2> HIDE DEF a, b
  <2>2. <<a, b>> \in Seq(Int) /\ Len(<<a, b>>) = 2 BY <2>1
  <2>3. <<a, b>> \in Keys(2) BY <2>2 DEF Keys
  <2> QED BY <2>3 DEF a, b
<1>3. ASSUME NEW v \in Versions
      PROVE  (\E k \in HourKeys(2, u, m) : k \in KeysOf("minutes", v)) <=> v \in HourVersions(u, m)
  <2> DEFINE k == <<v.uid, v.minute>>
  <2>1. k[1] = v.uid /\ k[2] = v.minute /\ k \in Keys(2) BY <1>2
  <2>2. k \in HourKeys(2, u, m) <=> v.uid = u /\ v.minute > m - Span /\ v.minute <= m BY <2>1 DEF HourKeys
  <2>3. v \in HourVersions(u, m) <=> v.action # "create" /\ v.uid = u /\ v.minute > m - Span /\ v.minute <= m
    BY DEF HourVersions, EditVersions
  <2> QED BY <1>1, <2>2, <2>3
<1>4. \A v \in HourVersions(u, m) : v \in Versions BY DEF HourVersions, EditVersions
<1>5. \A v : v \in Keyed("minutes", HourKeys(2, u, m)) <=> v \in HourVersions(u, m)
  BY <1>3, <1>4 DEF Keyed
<1>6. Keyed("minutes", HourKeys(2, u, m)) = HourVersions(u, m) BY <1>5, Zenon
<1> QED BY <1>1, <1>6 DEF OneAtMost

LEMMA PartKeysAre ==
  ASSUME NEW root \in {"cells", "tags"}, NEW u, NEW m, NEW t
  PROVE  OneAtMost(root, PartKeys(u, m, t)) /\ Keyed(root, PartKeys(u, m, t)) = PartVersions(root, u, m, t)
<1>0. root \in Roots /\ KeyLength[root] = 3 BY DEF Roots, KeyLength
<1>1. ASSUME NEW v \in Versions
      PROVE  \A k \in KeysOf(root, v) : v.action # "create" /\ k \in Keys(3) /\ k = <<v.uid, v.minute, k[3]>>
  <2>1. KeysOf(root, v) \subseteq Keys(3) BY <1>0, KeysOfTypes
  <2>2. CASE root = "cells" BY <2>1, <2>2 DEF KeysOf, CellKeys
  <2>3. CASE root = "tags" BY <2>1, <2>3 DEF KeysOf, TagKeys
  <2> QED BY <2>2, <2>3
<1>2. ASSUME NEW v \in Versions
      PROVE  (\E k \in PartKeys(u, m, t) : k \in KeysOf(root, v)) <=> v \in PartVersions(root, u, m, t)
  <2> DEFINE l == <<v.uid, v.minute, t>>
  <2>1. l[1] = v.uid /\ l[2] = v.minute /\ l[3] = t OBVIOUS
  <2>2. v \in PartVersions(root, u, m, t)
          <=> v.action # "create" /\ v.uid = u /\ v.minute > m - Span /\ v.minute <= m /\ l \in KeysOf(root, v)
    BY DEF PartVersions, HourVersions, EditVersions
  <2> HIDE DEF l
  <2>3. ASSUME NEW k \in PartKeys(u, m, t), k \in KeysOf(root, v) PROVE v \in PartVersions(root, u, m, t)
    <3>1. k \in Keys(3) /\ k[1] = u /\ k[2] > m - Span /\ k[2] <= m /\ k[3] = t BY DEF PartKeys, HourKeys
    <3>2. v.action # "create" /\ k = <<v.uid, v.minute, k[3]>> BY <1>1, <2>3
    <3>3. k = l BY <3>1, <3>2 DEF l
    <3> QED BY <2>1, <2>2, <2>3, <3>1, <3>2, <3>3
  <2>4. ASSUME v \in PartVersions(root, u, m, t) PROVE l \in PartKeys(u, m, t) /\ l \in KeysOf(root, v)
    <3>1. l \in Keys(3) BY <1>1, <2>2, <2>4
    <3> QED BY <2>1, <2>2, <2>4, <3>1 DEF PartKeys, HourKeys
  <2> QED BY <2>3, <2>4
<1>3. \A v \in PartVersions(root, u, m, t) : v \in Versions BY DEF PartVersions, HourVersions, EditVersions
<1>4. \A v : v \in Keyed(root, PartKeys(u, m, t)) <=> v \in PartVersions(root, u, m, t)
  BY <1>2, <1>3 DEF Keyed
<1>5. Keyed(root, PartKeys(u, m, t)) = PartVersions(root, u, m, t) BY <1>4, Zenon
<1>6. OneAtMost(root, PartKeys(u, m, t))
  <2> SUFFICES ASSUME NEW v \in Versions, NEW k \in PartKeys(u, m, t), NEW l \in PartKeys(u, m, t),
                      k \in KeysOf(root, v), l \in KeysOf(root, v)
               PROVE  k = l
    BY DEF OneAtMost
  <2>1. k = <<v.uid, v.minute, k[3]>> /\ l = <<v.uid, v.minute, l[3]>> BY <1>1
  <2>2. k[3] = t /\ l[3] = t BY DEF PartKeys
  <2> QED BY <2>1, <2>2
<1> QED BY <1>5, <1>6

LEMMA SeriesHourIs ==
  ASSUME NEW n \in {2, 3}, NEW store, Records(store) \in Seq(HourRows(n)), NEW u, NEW m
  PROVE  /\ InHour(SeriesOf(store, u), m) \in Seq(HourRows(n))
         /\ \A g : (\A x \in HourRows(n) : g[x] \in Int) =>
              Weigh(InHour(SeriesOf(store, u), m), g) = Weigh(Records(store), HourOnly(HourRows(n), u, m, g))
<1> DEFINE X == HourRows(n)
           records == Records(store)
           series == SeriesOf(store, u)
           hour == InHour(series, m)
           I == {i \in DOMAIN records : records[i].key[1] = u}
           U == {x \in X : x.key[1] = u}
           H == HourOfRows(n, m)
<1>1. series \in Seq(X) BY SeriesIs
<1>2. /\ hour \in Seq(X)
      /\ \A g : (\A x \in X : g[x] \in Int) => Weigh(hour, g) = Weigh(series, Within(X, H, g))
  <2> HIDE DEF series
  <2> QED BY <1>1, InHourIs
<1>3. Marks(I, records, U)
  <2>1. \A i \in DOMAIN records : records[i] \in X OBVIOUS
  <2> HIDE DEF X, records
  <2> QED BY <2>1 DEF Marks
<1>4. series = At(records, I) BY DEF SeriesOf
<1>5. ASSUME NEW g, \A x \in X : g[x] \in Int
      PROVE  Weigh(hour, g) = Weigh(records, HourOnly(X, u, m, g))
  <2> DEFINE h == Within(X, H, g)
             l == Within(X, U, h)
             d == HourOnly(X, u, m, g)
  <2>1. \A x \in X : h[x] \in Int BY <1>5 DEF Within
  <2>2. Weigh(hour, g) = Weigh(series, h) BY <1>2, <1>5
  <2>3. records \in Seq(X) OBVIOUS
  <2>4. Weigh(series, h) = Weigh(records, l)
    <3> HIDE DEF X, records, series, I, U, h
    <3> QED BY <1>3, <1>4, <2>1, <2>3, WeighMarked
  <2>5. \A x \in X : l[x] \in Int /\ l[x] = d[x]
    <3> TAKE x \in X
    <3>1. h[x] = IF x \in H THEN g[x] ELSE 0 BY DEF Within
    <3>2. l[x] = IF x \in U THEN h[x] ELSE 0 BY DEF Within
    <3>3. d[x] = IF InHourOf(x, u, m) THEN g[x] ELSE 0 BY DEF HourOnly
    <3>4. InHourOf(x, u, m) <=> x \in U /\ x \in H BY DEF InHourOf, HourOfRows
    <3>5. g[x] \in Int BY <1>5
    <3> HIDE DEF X, H, U, h, l, d
    <3> QED BY <3>1, <3>2, <3>3, <3>4, <3>5
  <2>6. Weigh(records, l) = Weigh(records, d)
    <3> HIDE DEF X, records, l, d
    <3> QED BY <2>3, <2>5, WeighSame
  <2> QED BY <2>2, <2>4, <2>6
<1> HIDE DEF X, records, hour
<1> QED BY <1>2, <1>5 DEF X, records, hour

\* The edits of the minute store in an hour are those of its prefix.
LEMMA EditsInHour ==
  ASSUME RunIsSound, IsAPrefix("minutes"), NEW u, NEW m
  PROVE  CountsIn(InHour(SeriesOf(stores["minutes"], u), m)) = HourCount(Stored("minutes"), u, m)
<1> DEFINE store == stores["minutes"]
           X == HourRows(2)
           records == Records(store)
           hour == InHour(SeriesOf(store, u), m)
           T == HourKeys(2, u, m)
<1>0. "minutes" \in StreamRoots /\ KeyLength["minutes"] = 2 BY DEF StreamRoots, KeyLength
<1>1. records \in Seq(X)
  <2>1. Records(stores["minutes"]) \in Seq(HourRows(KeyLength["minutes"])) BY <1>0, StoreRows
  <2> QED BY <1>0, <2>1
<1>2. \A x \in X : Counts(X)[x] \in Int BY CountsAreNumbers
<1>3. hour \in Seq(X) /\ Weigh(hour, Counts(X)) = Weigh(records, HourOnly(X, u, m, Counts(X)))
  <2> HIDE DEF store
  <2> QED BY <1>1, <1>2, SeriesHourIs
<1>4. CountsIn(hour) = Weigh(hour, Counts(X))
  <2> HIDE DEF hour, X
  <2> QED BY <1>3, CountsInIs
<1>5. OneAtMost("minutes", T) /\ Keyed("minutes", T) = HourVersions(u, m) BY HourKeysAre
<1>6. Weigh(records, CountsOf(X, T)) = Weigh(Stored("minutes"), Ones(Versions, Keyed("minutes", T)))
  <2> HIDE DEF T
  <2>1. Weigh(Records(stores["minutes"]), CountsOf(HourRows(KeyLength["minutes"]), T))
          = Weigh(Stored("minutes"), Ones(Versions, Keyed("minutes", T)))
    BY <1>0, <1>5, StoreWeighs
  <2> QED BY <1>0, <2>1
<1>7. \A x \in X : CountsOf(X, T)[x] \in Int /\ CountsOf(X, T)[x] = HourOnly(X, u, m, Counts(X))[x]
  <2> TAKE x \in X
  <2>1. CountsOf(X, T)[x] = IF x.key \in T THEN Counts(X)[x] ELSE 0 BY DEF CountsOf, Within
  <2>2. HourOnly(X, u, m, Counts(X))[x] = IF InHourOf(x, u, m) THEN Counts(X)[x] ELSE 0 BY DEF HourOnly
  <2>3. x.key \in Keys(2) BY DEF HourRows
  <2>4. x.key \in T <=> InHourOf(x, u, m) BY <2>3 DEF HourKeys, InHourOf, MinuteOf
  <2>5. Counts(X)[x] \in Int BY <1>2
  <2> HIDE DEF X, T
  <2> QED BY <2>1, <2>2, <2>4, <2>5
<1>8. Weigh(records, CountsOf(X, T)) = Weigh(records, HourOnly(X, u, m, Counts(X)))
  <2> HIDE DEF records, X, T
  <2> QED BY <1>1, <1>7, WeighSame
<1> QED BY <1>3, <1>4, <1>5, <1>6, <1>8 DEF HourCount, OfHour

\* The changes of a cell or a tag in an hour.
LEMMA PartsInHour ==
  ASSUME RunIsSound, NEW root \in {"cells", "tags"}, IsAPrefix(root), NEW u, NEW m
  PROVE  /\ InHour(SeriesOf(stores[root], u), m) \in Seq(HourRows(3))
         /\ \A t : ThirdOf(InHour(SeriesOf(stores[root], u), m), t) = PartCount(Stored(root), root, u, m, t)
<1> DEFINE store == stores[root]
           X == HourRows(3)
           records == Records(store)
           hour == InHour(SeriesOf(store, u), m)
<1>0. root \in StreamRoots /\ KeyLength[root] = 3 BY DEF StreamRoots, KeyLength
<1>1. records \in Seq(X)
  <2>1. Records(stores[root]) \in Seq(HourRows(KeyLength[root])) BY <1>0, StoreRows
  <2> QED BY <1>0, <2>1
<1>2. /\ hour \in Seq(X)
      /\ \A g : (\A x \in X : g[x] \in Int) => Weigh(hour, g) = Weigh(records, HourOnly(X, u, m, g))
  <2> HIDE DEF store
  <2> QED BY <1>1, SeriesHourIs
<1>3. ASSUME NEW t PROVE ThirdOf(hour, t) = PartCount(Stored(root), root, u, m, t)
  <2> DEFINE T == PartKeys(u, m, t)
             g == OfThird(X, t)
  <2>1. \A x \in X : g[x] \in Int BY OfThirdInt
  <2>2. ThirdOf(hour, t) = Weigh(hour, g)
    <3> HIDE DEF hour
    <3> QED BY <1>2, ThirdIs
  <2>3. Weigh(hour, g) = Weigh(records, HourOnly(X, u, m, g)) BY <1>2, <2>1
  <2>4. OneAtMost(root, T) /\ Keyed(root, T) = PartVersions(root, u, m, t) BY PartKeysAre
  <2>5. Weigh(records, CountsOf(X, T)) = Weigh(Stored(root), Ones(Versions, Keyed(root, T)))
    <3> HIDE DEF T
    <3>1. Weigh(Records(stores[root]), CountsOf(HourRows(KeyLength[root]), T))
            = Weigh(Stored(root), Ones(Versions, Keyed(root, T)))
      BY <1>0, <2>4, StoreWeighs
    <3> QED BY <1>0, <3>1
  <2>6. \A x \in X : CountsOf(X, T)[x] \in Int /\ CountsOf(X, T)[x] = HourOnly(X, u, m, g)[x]
    <3> TAKE x \in X
    <3>1. CountsOf(X, T)[x] = IF x.key \in T THEN Counts(X)[x] ELSE 0 BY DEF CountsOf, Within
    <3>2. HourOnly(X, u, m, g)[x] = IF InHourOf(x, u, m) THEN g[x] ELSE 0 BY DEF HourOnly
    <3>3. g[x] = IF x.key[3] = t THEN Counts(X)[x] ELSE 0 BY DEF OfThird, Within
    <3>4. x.key \in Keys(3) BY DEF HourRows
    <3>5. x.key \in T <=> InHourOf(x, u, m) /\ x.key[3] = t BY <3>4 DEF PartKeys, HourKeys, InHourOf, MinuteOf
    <3>6. Counts(X)[x] \in Int BY CountsInt
    <3> HIDE DEF X, T, g
    <3> QED BY <3>1, <3>2, <3>3, <3>5, <3>6
  <2>7. Weigh(records, CountsOf(X, T)) = Weigh(records, HourOnly(X, u, m, g))
    <3> HIDE DEF records, X, T, g
    <3> QED BY <1>1, <2>6, WeighSame
  <2> QED BY <2>2, <2>3, <2>4, <2>5, <2>7 DEF PartCount, OfPart
<1> HIDE DEF hour
<1> QED BY <1>2, <1>3 DEF hour

-----------------------------------------------------------------------------
(* The keys of the stores are edits of the stream *)

\* The minutes of a uid's rows.
LEMMA SeriesMinutes ==
  ASSUME RunIsSound, NEW r \in StreamRoots, IsAPrefix(r), NEW u
  PROVE  /\ \A j \in DOMAIN SeriesOf(stores[r], u) : HasEdit(Stored(r), u, MinuteOf(SeriesOf(stores[r], u)[j]))
         /\ r = "minutes" =>
              \A m : HasEdit(Stored(r), u, m) =>
                \E j \in DOMAIN SeriesOf(stores[r], u) : MinuteOf(SeriesOf(stores[r], u)[j]) = m
<1> DEFINE records == Records(stores[r])
           n == KeyLength[r]
           I == {i \in DOMAIN records : records[i].key[1] = u}
           series == SeriesOf(stores[r], u)
<1>1. records \in Seq(HourRows(n)) BY StoreRows
<1>2. series = At(records, I) BY DEF SeriesOf
<1>3. Takes(series, records, I)
  <2> HIDE DEF records, n, I, series
  <2> QED BY <1>1, <1>2, AtHas
<1>4. \A k : (\E i \in DOMAIN records : records[i].key = k) <=> Weigh(Stored(r), OfKey(r, k)) # 0 BY RowKeys
<1>5. Stored(r) \in Seq(Versions)
  <2>1. AppliedSeqOf(stores[r]) \in 0..Len(batches) BY PrefixStore
  <2> QED BY <2>1, PrefixTyped DEF Stored
<1>6. \A i \in DOMAIN records \cap I : records[i].key[1] = u OBVIOUS
<1>7. \A i \in DOMAIN records : records[i].key[1] = u => i \in DOMAIN records \cap I OBVIOUS
<1> HIDE DEF records, I, series
<1>8. ASSUME NEW j \in DOMAIN series PROVE HasEdit(Stored(r), u, MinuteOf(series[j]))
  <2>1. PICK i \in DOMAIN records \cap I : series[j] = records[i] BY <1>3 DEF Takes
  <2> DEFINE k == records[i].key
  <2>2. Weigh(Stored(r), OfKey(r, k)) # 0 BY <1>4, <2>1
  <2>3. k[1] = u /\ k[2] = MinuteOf(series[j]) BY <1>6, <2>1 DEF MinuteOf
  <2> HIDE DEF k
  <2>4. HasEdit(Stored(r), k[1], k[2]) BY <1>5, <2>2, KeyIsAnEdit
  <2> QED BY <2>3, <2>4
<1>9. ASSUME r = "minutes", NEW m, HasEdit(Stored(r), u, m) PROVE \E j \in DOMAIN series : MinuteOf(series[j]) = m
  <2> DEFINE k == <<u, m>>
  <2>1. Weigh(Stored(r), OfKey(r, k)) # 0 BY <1>9 DEF HasEdit
  <2>2. k[1] = u /\ k[2] = m OBVIOUS
  <2> HIDE DEF k
  <2>3. PICK i \in DOMAIN records : records[i].key = k BY <1>4, <2>1
  <2>4. i \in DOMAIN records \cap I BY <1>7, <2>2, <2>3
  <2>5. PICK j \in DOMAIN series : series[j] = records[i] BY <1>3, <2>4 DEF Takes
  <2> QED BY <2>2, <2>3, <2>5 DEF MinuteOf
<1> QED BY <1>8, <1>9 DEF series

\* Who is in a store.
LEMMA StoreUids ==
  ASSUME RunIsSound, NEW r \in StreamRoots, IsAPrefix(r), NEW u, NEW m
  PROVE  /\ r = "minutes" /\ HasEdit(Stored(r), u, m) => u \in UidsIn(stores[r])
         /\ r # "minutes" => \A t : PartCount(Stored(r), r, u, m, t) # 0 => u \in UidsIn(stores[r])
<1>1. \A k : Weigh(Stored(r), OfKey(r, k)) # 0 => k[1] \in UidsIn(stores[r]) BY RowKeys
<1>2. Stored(r) \in Seq(Versions)
  <2>1. AppliedSeqOf(stores[r]) \in 0..Len(batches) BY PrefixStore
  <2> QED BY <2>1, PrefixTyped DEF Stored
<1>3. ASSUME r = "minutes", HasEdit(Stored(r), u, m) PROVE u \in UidsIn(stores[r])
  <2> DEFINE k == <<u, m>>
  <2>1. Weigh(Stored(r), OfKey(r, k)) # 0 BY <1>3 DEF HasEdit
  <2>2. k[1] = u OBVIOUS
  <2> HIDE DEF k
  <2> QED BY <1>1, <2>1, <2>2
<1>4. ASSUME NEW t, PartCount(Stored(r), r, u, m, t) # 0 PROVE u \in UidsIn(stores[r])
  <2>1. PICK i \in DOMAIN Stored(r) : Stored(r)[i] \in PartVersions(r, u, m, t)
    BY <1>2, <1>4, NumbersOfHour
  <2> DEFINE v == Stored(r)[i]
             k == <<v.uid, v.minute, t>>
             T == {w \in Versions : k \in KeysOf(r, w)}
  <2>2. v \in Versions /\ v.uid = u /\ k \in KeysOf(r, v)
    BY <2>1 DEF PartVersions, HourVersions, EditVersions
  <2>3. v \in T BY <2>2
  <2>4. k[1] = u BY <2>2
  <2>5. Weigh(Stored(r), Ones(Versions, T)) # 0
    <3> HIDE DEF T
    <3> QED BY <1>2, <2>3, NumberZero
  <2>6. Weigh(Stored(r), OfKey(r, k)) # 0 BY <2>5 DEF OfKey
  <2> HIDE DEF k, v
  <2> QED BY <1>1, <2>4, <2>6
<1> QED BY <1>3, <1>4

-----------------------------------------------------------------------------
(* The days that the stores flag *)

\* Filter 2.
LEMMA FlaggedDaysAre ==
  ASSUME StoresAreSound, NEW k
  PROVE  k \in DOMAIN FlaggedDays(stores["minutes"]) <=> IsEditDay(Stored("minutes"), k)
<1> DEFINE store == stores["minutes"]
           vs == Stored("minutes")
           series(u) == SeriesOf(store, u)
           days(u) == {[key |-> <<u, Day(MinuteOf(series(u)[i]))>>, value |-> HourSpans(series(u))[i]] :
                         i \in {j \in DOMAIN series(u) : HourSpans(series(u))[j] > HourEdits}}
<1>1. RunIsSound /\ IsAPrefix("minutes") /\ "minutes" \in StreamRoots BY DEF StoresAreSound, StreamRoots
<1>2. FlaggedDays(store) = Peaks(UNION {days(u) : u \in UidsIn(store)}) BY DEF FlaggedDays
<1>3. k \in DOMAIN FlaggedDays(store)
        <=> \E u \in UidsIn(store) : \E i \in DOMAIN series(u) :
              HourSpans(series(u))[i] > HourEdits /\ k = <<u, Day(MinuteOf(series(u)[i]))>>
  <2>1. k \in DOMAIN FlaggedDays(store) <=> \E u \in UidsIn(store) : \E e \in days(u) : e.key = k
    <3> DEFINE U == UidsIn(store)
               E == UNION {days(u) : u \in U}
    <3> HIDE DEF days, U
    <3>1. \A e : e \in E <=> \E u \in U : e \in days(u) OBVIOUS
    <3>2. FlaggedDays(store) = Peaks(E) BY <1>2 DEF U
    <3> HIDE DEF E, store
    <3>3. DOMAIN FlaggedDays(store) = {e.key : e \in E} BY <3>2 DEF Peaks
    <3>4. k \in {e.key : e \in E} <=> \E e \in E : e.key = k OBVIOUS
    <3>5. k \in DOMAIN FlaggedDays(store) <=> \E e \in E : e.key = k BY <3>3, <3>4
    <3> QED BY <3>1, <3>5 DEF U
  <2>2. ASSUME NEW u
        PROVE  (\E e \in days(u) : e.key = k) <=> \E i \in DOMAIN series(u) :
                 HourSpans(series(u))[i] > HourEdits /\ k = <<u, Day(MinuteOf(series(u)[i]))>>
    <3> DEFINE s == series(u)
               h == HourSpans(s)
               I == {j \in DOMAIN s : h[j] > HourEdits}
               entry(i) == [key |-> <<u, Day(MinuteOf(s[i]))>>, value |-> h[i]]
    <3>1. days(u) = {entry(i) : i \in I} OBVIOUS
    <3>2. \A i : entry(i).key = <<u, Day(MinuteOf(s[i]))>> OBVIOUS
    <3>3. \A i : i \in I <=> i \in DOMAIN s /\ h[i] > HourEdits OBVIOUS
    <3> HIDE DEF days, entry, I, h
    <3>4. (\E e \in days(u) : e.key = k) <=> \E i \in I : entry(i).key = k BY <3>1
    <3>5. (\E e \in days(u) : e.key = k) <=> \E i \in DOMAIN s : h[i] > HourEdits /\ k = <<u, Day(MinuteOf(s[i]))>>
      BY <3>2, <3>3, <3>4
    <3> QED BY <3>5 DEF h
  <2> HIDE DEF days, store, series
  <2> QED BY <2>1, <2>2
<1>5. ASSUME NEW u, NEW i \in DOMAIN series(u)
      PROVE  HourSpans(series(u))[i] = HourCount(vs, u, MinuteOf(series(u)[i]))
  <2>1. series(u) \in Seq(HourRows(2)) /\ InTime(series(u))
    <3>1. SeriesOf(stores["minutes"], u) \in Seq(HourRows(KeyLength["minutes"])) /\ InTime(SeriesOf(stores["minutes"], u))
      BY <1>1, SeriesOfStore
    <3> QED BY <3>1 DEF KeyLength
  <2>2. HourSpans(series(u))[i] = CountsIn(InHour(series(u), MinuteOf(series(u)[i])))
    <3> HIDE DEF series
    <3> QED BY <1>5, <2>1, HourSpansAre
  <2> QED BY <1>1, <2>2, EditsInHour
<1>6. \A u : \A i \in DOMAIN series(u) : HasEdit(vs, u, MinuteOf(series(u)[i])) BY <1>1, SeriesMinutes
<1>7. \A u, m : HasEdit(vs, u, m) => u \in UidsIn(store) /\ \E i \in DOMAIN series(u) : MinuteOf(series(u)[i]) = m
  <2> TAKE u, m
  <2> HAVE HasEdit(vs, u, m)
  <2>1. u \in UidsIn(store) BY <1>1, StoreUids
  <2>2. \E i \in DOMAIN series(u) : MinuteOf(series(u)[i]) = m BY <1>1, SeriesMinutes
  <2> QED BY <2>1, <2>2
<1> HIDE DEF store, vs, series, days
<1>8. IsEditDay(vs, k) <=> \E u \in UidsIn(store) : \E i \in DOMAIN series(u) :
        HourSpans(series(u))[i] > HourEdits /\ k = <<u, Day(MinuteOf(series(u)[i]))>>
  BY <1>5, <1>6, <1>7 DEF IsEditDay
<1> QED BY <1>3, <1>8 DEF store, vs

LEMMA WindowsSay ==
  ASSUME StoresAreSound, NEW root \in {"cells", "tags"}, NEW u,
         NEW w, w = Windows(SeriesOf(stores["minutes"], u), SeriesOf(stores[root], u))
  PROVE  /\ \A i \in DOMAIN w : WindowSays(w[i], Stored("minutes"), Stored(root), root, u)
         /\ \A m : HasEdit(Stored("minutes"), u, m) => \E i \in DOMAIN w : w[i].minute = m
<1> DEFINE vs == Stored("minutes")
           ws == Stored(root)
           objects == SeriesOf(stores["minutes"], u)
           rows == SeriesOf(stores[root], u)
<1>1. /\ RunIsSound /\ "minutes" \in StreamRoots /\ root \in StreamRoots
      /\ IsAPrefix("minutes") /\ IsAPrefix(root) /\ KeyLength["minutes"] = 2 /\ KeyLength[root] = 3
  BY DEF StoresAreSound, StreamRoots, KeyLength
<1>2. objects \in Seq(HourRows(2)) /\ rows \in Seq(HourRows(3))
  <2>1. /\ SeriesOf(stores["minutes"], u) \in Seq(HourRows(KeyLength["minutes"]))
        /\ SeriesOf(stores[root], u) \in Seq(HourRows(KeyLength[root]))
    BY <1>1, SeriesOfStore
  <2> QED BY <1>1, <2>1
<1>3. /\ \A i \in DOMAIN w : w[i].minute \in MinutesOf(objects, rows)
      /\ \A x \in MinutesOf(objects, rows) : \E i \in DOMAIN w : w[i].minute = x
  <2> HIDE DEF objects, rows
  <2> QED BY <1>2, WindowMinutes DEF objects, rows
<1>4. \A j \in DOMAIN objects : HasEdit(vs, u, MinuteOf(objects[j])) BY <1>1, SeriesMinutes
<1>5. \A j \in DOMAIN rows : HasEdit(ws, u, MinuteOf(rows[j])) BY <1>1, SeriesMinutes
<1>6. \A m : HasEdit(vs, u, m) => \E j \in DOMAIN objects : MinuteOf(objects[j]) = m BY <1>1, SeriesMinutes
<1>7. ASSUME NEW i \in DOMAIN w PROVE WindowSays(w[i], vs, ws, root, u)
  <2> DEFINE x == w[i]
             m == x.minute
             hour == InHour(rows, m)
             third(t) == At(hour, {l \in DOMAIN hour : hour[l].key[3] = t})
  <2>1. WindowIsTheHour(x, objects, rows)
    <3> HIDE DEF objects, rows
    <3>1. i \in DOMAIN Windows(objects, rows) /\ x = Windows(objects, rows)[i] BY <1>7 DEF objects, rows
    <3> HIDE DEF x
    <3> QED BY <1>2, <3>1, WindowsAre
  <2>2. x.total = HourCount(vs, u, m)
    <3>1. x.total = CountsIn(InHour(objects, m)) BY <2>1 DEF WindowIsTheHour
    <3>2. CountsIn(InHour(objects, m)) = HourCount(vs, u, m) BY <1>1, EditsInHour
    <3> QED BY <3>1, <3>2
  <2>3. /\ hour \in Seq(HourRows(3))
        /\ \A t : ThirdOf(hour, t) = PartCount(ws, root, u, m, t)
    BY <1>1, PartsInHour
  <2>4. DOMAIN x.counts = {r.key[3] : r \in Range(hour)} BY <2>1 DEF WindowIsTheHour
  <2>5. \A t \in DOMAIN x.counts : x.counts[t] = CountsIn(third(t)) BY <2>1 DEF WindowIsTheHour
  <2>6. \A t : CountsIn(third(t)) = ThirdOf(hour, t) BY DEF ThirdOf
  <2>7. \A t : ThirdOf(hour, t) # 0 <=> \E l \in DOMAIN hour : hour[l].key[3] = t
    <3> TAKE t
    <3> HIDE DEF hour
    <3>1. HourRows(3) \in SUBSET HourRows(3) OBVIOUS
    <3>2. /\ ThirdOf(hour, t) = Weigh(hour, OfThird(HourRows(3), t))
          /\ Weigh(hour, OfThird(HourRows(3), t)) # 0 <=> \E l \in DOMAIN hour : hour[l].key[3] = t
      BY <2>3, <3>1, ThirdIs
    <3> QED BY <3>2
  <2>8. \A l \in DOMAIN hour : hour[l].key[3] \in Int
    <3> TAKE l \in DOMAIN hour
    <3> HIDE DEF hour
    <3>1. hour[l] \in HourRows(3) BY <2>3
    <3> QED BY <3>1, RowTypes
  <2> HIDE DEF hour, third
  <2>9. DOMAIN x.counts = Parts(ws, root, u, m)
    <3>1. \A t : t \in {r.key[3] : r \in Range(hour)} <=> \E l \in DOMAIN hour : hour[l].key[3] = t BY DEF Range
    <3>2. \A t : t \in Parts(ws, root, u, m) <=> t \in Int /\ PartCount(ws, root, u, m, t) # 0 BY DEF Parts
    <3> HIDE DEF x, m, vs, ws
    <3>3. \A t : t \in DOMAIN x.counts <=> t \in Parts(ws, root, u, m)
      BY <2>3, <2>4, <2>7, <2>8, <3>1, <3>2
    <3> QED BY <3>3, Zenon
  <2>10. \A t \in DOMAIN x.counts : x.counts[t] = PartCount(ws, root, u, m, t) BY <2>3, <2>5, <2>6
  <2>11. HasEdit(vs, u, m) \/ HasEdit(ws, u, m)
    <3>1. m \in MinutesOf(objects, rows) BY <1>3, <1>7
    <3>2. (\E j \in DOMAIN objects : m = MinuteOf(objects[j])) \/ (\E j \in DOMAIN rows : m = MinuteOf(rows[j]))
      <4> HIDE DEF m, objects, rows
      <4> QED BY <3>1 DEF MinutesOf
    <3> HIDE DEF m, objects, rows, vs, ws
    <3> QED BY <1>4, <1>5, <3>2
  <2> HIDE DEF x, m
  <2> QED BY <2>2, <2>9, <2>10, <2>11 DEF WindowSays, x, m
<1>8. ASSUME NEW m, HasEdit(vs, u, m) PROVE \E i \in DOMAIN w : w[i].minute = m
  <2>1. PICK j \in DOMAIN objects : MinuteOf(objects[j]) = m BY <1>6, <1>8
  <2>2. m \in MinutesOf(objects, rows)
    <3> HIDE DEF objects, rows
    <3> QED BY <2>1 DEF MinutesOf
  <2> QED BY <1>3, <2>2
<1> QED BY <1>7, <1>8

\* The entries of the windows of a store.
WindowsFor(root, u) == Windows(SeriesOf(stores["minutes"], u), SeriesOf(stores[root], u))

BothUids(root) == UidsIn(stores[root]) \cap UidsIn(stores["minutes"])

EntriesAreOf(root, good, k) ==
  (\E e \in WindowsOf(stores[root], stores["minutes"]) : e.key = k /\ e.at \in good)
    <=> \E u \in BothUids(root) : \E i \in DOMAIN WindowsFor(root, u) :
          k = <<u, Day(WindowsFor(root, u)[i].minute)>> /\ WindowsFor(root, u)[i] \in good

LEMMA EntriesAre ==
  ASSUME NEW root, NEW good, NEW k PROVE EntriesAreOf(root, good, k)
<1> DEFINE entry(u, i) == [key |-> <<u, Day(WindowsFor(root, u)[i].minute)>>, at |-> WindowsFor(root, u)[i]]
           entries(u) == {entry(u, i) : i \in DOMAIN WindowsFor(root, u)}
           U == BothUids(root)
           E == WindowsOf(stores[root], stores["minutes"])
<1>1. E = UNION {entries(u) : u \in U} BY DEF WindowsOf, WindowsFor, BothUids
<1>2. \A u, i : entry(u, i).key = <<u, Day(WindowsFor(root, u)[i].minute)>> /\ entry(u, i).at = WindowsFor(root, u)[i]
  OBVIOUS
<1> HIDE DEF entry, U, E
<1>3. \A u, e : e \in entries(u) <=> \E i \in DOMAIN WindowsFor(root, u) : e = entry(u, i) OBVIOUS
<1> HIDE DEF entries
<1>4. \A e : e \in E <=> \E u \in U : e \in entries(u) BY <1>1
<1>5. \A e : e \in E <=> \E u \in U : \E i \in DOMAIN WindowsFor(root, u) : e = entry(u, i) BY <1>3, <1>4
<1>6. ASSUME NEW e \in E, e.key = k, e.at \in good
      PROVE  \E u \in U : \E i \in DOMAIN WindowsFor(root, u) :
               k = <<u, Day(WindowsFor(root, u)[i].minute)>> /\ WindowsFor(root, u)[i] \in good
  <2>1. PICK u \in U : \E i \in DOMAIN WindowsFor(root, u) : e = entry(u, i) BY <1>5
  <2>2. PICK i \in DOMAIN WindowsFor(root, u) : e = entry(u, i) BY <2>1
  <2>3. k = <<u, Day(WindowsFor(root, u)[i].minute)>> /\ WindowsFor(root, u)[i] \in good BY <1>2, <1>6, <2>2
  <2> QED BY <2>3
<1>7. ASSUME NEW u \in U, NEW i \in DOMAIN WindowsFor(root, u),
             k = <<u, Day(WindowsFor(root, u)[i].minute)>>, WindowsFor(root, u)[i] \in good
      PROVE  \E e \in E : e.key = k /\ e.at \in good
  <2>1. entry(u, i) \in E BY <1>5
  <2>2. entry(u, i).key = k /\ entry(u, i).at \in good BY <1>2, <1>7
  <2> QED BY <2>1, <2>2
<1> QED BY <1>6, <1>7 DEF E, U, EntriesAreOf

LEMMA WindowsForSay ==
  ASSUME StoresAreSound, NEW root \in {"cells", "tags"}, NEW u
  PROVE  /\ \A i \in DOMAIN WindowsFor(root, u) :
              WindowSays(WindowsFor(root, u)[i], Stored("minutes"), Stored(root), root, u)
         /\ \A m : HasEdit(Stored("minutes"), u, m) => \E i \in DOMAIN WindowsFor(root, u) : WindowsFor(root, u)[i].minute = m
<1> DEFINE w == WindowsFor(root, u)
<1>1. w = Windows(SeriesOf(stores["minutes"], u), SeriesOf(stores[root], u)) BY DEF WindowsFor
<1> HIDE DEF w
<1>2. /\ \A i \in DOMAIN w : WindowSays(w[i], Stored("minutes"), Stored(root), root, u)
      /\ \A m : HasEdit(Stored("minutes"), u, m) => \E i \in DOMAIN w : w[i].minute = m
  BY <1>1, WindowsSay
<1> QED BY <1>2 DEF w

\* Who edited, with a cell or a tag in the hour, is in both stores.
LEMMA InBothStores ==
  ASSUME StoresAreSound, NEW root \in {"cells", "tags"}, NEW u, NEW m,
         HasEdit(Stored("minutes"), u, m), Parts(Stored(root), root, u, m) # {}
  PROVE  u \in BothUids(root)
<1>1. /\ RunIsSound /\ "minutes" \in StreamRoots /\ root \in StreamRoots /\ IsAPrefix("minutes") /\ IsAPrefix(root)
      /\ root # "minutes"
  BY DEF StoresAreSound, StreamRoots
<1>2. u \in UidsIn(stores["minutes"]) BY <1>1, StoreUids
<1>3. PICK t : PartCount(Stored(root), root, u, m, t) # 0 BY DEF Parts
<1>4. u \in UidsIn(stores[root]) BY <1>1, <1>3, StoreUids
<1> QED BY <1>2, <1>4 DEF BothUids

CellDays == DOMAIN FlaggedCellDays(stores["cells"], stores["minutes"])

LEMMA CellDaysAre ==
  ASSUME StoresAreSound, NEW k, NEW vs, vs = Stored("minutes"), NEW ws, ws = Stored("cells")
  PROVE  /\ k \in CellDays =>
              \E u, m : k = <<u, Day(m)>> /\ (HasEdit(vs, u, m) \/ HasEdit(ws, u, m)) /\ SpreadAt(vs, ws, u, m)
         /\ (\E u, m : k = <<u, Day(m)>> /\ HasEdit(vs, u, m) /\ SpreadAt(vs, ws, u, m)) => k \in CellDays
<1> DEFINE W(u) == WindowsFor("cells", u)
           U == BothUids("cells")
           E == WindowsOf(stores["cells"], stores["minutes"])
<1>1. k \in CellDays <=> \E e \in E : e.key = k /\ IsSpread(e.at)
  <2> DEFINE F == {f \in E : IsSpread(f.at)}
             peak(e) == [key |-> e.key, value |-> Spread(e.at)]
             P == {peak(e) : e \in F}
  <2>1. FlaggedCellDays(stores["cells"], stores["minutes"]) = Peaks(P) BY DEF FlaggedCellDays
  <2>2. \A e : peak(e).key = e.key OBVIOUS
  <2>3. \A e : e \in F <=> e \in E /\ IsSpread(e.at) OBVIOUS
  <2> HIDE DEF F, peak, E
  <2>4. \A x : x \in P <=> \E e \in F : x = peak(e) OBVIOUS
  <2> HIDE DEF P
  <2>5. CellDays = {x.key : x \in P} BY <2>1 DEF CellDays, Peaks
  <2>6. k \in {x.key : x \in P} <=> \E x \in P : x.key = k OBVIOUS
  <2>7. (\E x \in P : x.key = k) <=> \E e \in F : e.key = k BY <2>2, <2>4
  <2> QED BY <2>3, <2>5, <2>6, <2>7
<1>2. (\E e \in E : e.key = k /\ IsSpread(e.at))
        <=> \E u \in U : \E i \in DOMAIN W(u) : k = <<u, Day(W(u)[i].minute)>> /\ IsSpread(W(u)[i])
  <2> DEFINE good1 == {e.at : e \in {f \in E : IsSpread(f.at)}}
             good2 == UNION {{W(u)[i] : i \in {j \in DOMAIN W(u) : IsSpread(W(u)[j])}} : u \in U}
             G == good1 \cup good2
  <2>1. \A x \in G : IsSpread(x) OBVIOUS
  <2>2. \A e \in E : IsSpread(e.at) => e.at \in G OBVIOUS
  <2>3. \A u \in U : \A i \in DOMAIN W(u) : IsSpread(W(u)[i]) => W(u)[i] \in G OBVIOUS
  <2> HIDE DEF G, good1, good2
  <2>4. (\E e \in E : e.key = k /\ e.at \in G)
          <=> \E u \in U : \E i \in DOMAIN W(u) : k = <<u, Day(W(u)[i].minute)>> /\ W(u)[i] \in G
    <3>1. EntriesAreOf("cells", G, k) BY EntriesAre
    <3> QED BY <3>1 DEF EntriesAreOf
  <2> HIDE DEF E, U, W
  <2> QED BY <2>1, <2>2, <2>3, <2>4
<1>3. ASSUME NEW u, NEW i \in DOMAIN W(u)
      PROVE  /\ IsSpread(W(u)[i]) <=> SpreadAt(vs, ws, u, W(u)[i].minute)
             /\ HasEdit(vs, u, W(u)[i].minute) \/ HasEdit(ws, u, W(u)[i].minute)
  <2> DEFINE x == W(u)[i]
  <2>1. WindowSays(x, vs, ws, "cells", u) BY <1>3, WindowsForSay
  <2> HIDE DEF x
  <2> QED BY <2>1 DEF WindowSays, IsSpread, Spread, SpreadAt, IsWide, x
<1>4. ASSUME NEW u, NEW m, HasEdit(vs, u, m), SpreadAt(vs, ws, u, m)
      PROVE  u \in U /\ \E i \in DOMAIN W(u) : W(u)[i].minute = m
  <2>1. \E i \in DOMAIN W(u) : W(u)[i].minute = m BY <1>4, WindowsForSay
  <2>2. Parts(ws, "cells", u, m) # {}
    <3>1. Cardinality({}) = 0 BY FS_EmptySet
    <3>2. SpreadCells > 0 /\ SpreadCells \in Nat BY ThresholdsAreNumbers
    <3>3. Cardinality(Parts(ws, "cells", u, m)) >= SpreadCells BY <1>4 DEF SpreadAt, IsWide
    <3> QED BY <3>1, <3>2, <3>3
  <2>3. u \in U BY <1>4, <2>2, InBothStores
  <2> QED BY <2>1, <2>3
<1> HIDE DEF W, U, E
<1> QED BY <1>1, <1>2, <1>3, <1>4

\* Filter 5.
TagDays == DOMAIN FlaggedTagDays(stores["tags"], stores["minutes"])

LEMMA TagDaysAre ==
  ASSUME StoresAreSound, NEW k, NEW vs, vs = Stored("minutes"), NEW ws, ws = Stored("tags")
  PROVE  /\ k \in TagDays => IsCoverDay(vs, ws, k)
         /\ (\E u, m : k = <<u, Day(m)>> /\ HasEdit(vs, u, m) /\ Covers(vs, ws, u, m)) => k \in TagDays
<1> DEFINE W(u) == WindowsFor("tags", u)
           U == BothUids("tags")
           E == WindowsOf(stores["tags"], stores["minutes"])
           off(x) == Covering(x) # {}
<1>1. k \in TagDays <=> \E e \in E : e.key = k /\ off(e.at)
  <2> DEFINE F == {e \in E : off(e.at)}
  <2>1. TagDays = {e.key : e \in F} BY DEF TagDays, FlaggedTagDays
  <2>2. \A e : e \in F <=> e \in E /\ off(e.at) OBVIOUS
  <2> HIDE DEF F, E, off
  <2> QED BY <2>1, <2>2
<1>2. (\E e \in E : e.key = k /\ off(e.at))
        <=> \E u \in U : \E i \in DOMAIN W(u) : k = <<u, Day(W(u)[i].minute)>> /\ off(W(u)[i])
  <2> DEFINE good1 == {e.at : e \in {f \in E : off(f.at)}}
             good2 == UNION {{W(u)[i] : i \in {j \in DOMAIN W(u) : off(W(u)[j])}} : u \in U}
             G == good1 \cup good2
  <2> HIDE DEF off
  <2>1. \A x \in G : off(x) OBVIOUS
  <2>2. \A e \in E : off(e.at) => e.at \in G OBVIOUS
  <2>3. \A u \in U : \A i \in DOMAIN W(u) : off(W(u)[i]) => W(u)[i] \in G OBVIOUS
  <2> HIDE DEF G, good1, good2
  <2>4. (\E e \in E : e.key = k /\ e.at \in G)
          <=> \E u \in U : \E i \in DOMAIN W(u) : k = <<u, Day(W(u)[i].minute)>> /\ W(u)[i] \in G
    <3>1. EntriesAreOf("tags", G, k) BY EntriesAre
    <3> QED BY <3>1 DEF EntriesAreOf
  <2> HIDE DEF E, U, W
  <2> QED BY <2>1, <2>2, <2>3, <2>4
<1>3. ASSUME NEW u, NEW i \in DOMAIN W(u)
      PROVE  /\ off(W(u)[i]) <=> Covers(vs, ws, u, W(u)[i].minute)
             /\ HasEdit(vs, u, W(u)[i].minute) \/ HasEdit(ws, u, W(u)[i].minute)
  <2> DEFINE x == W(u)[i]
             m == x.minute
             T == {t \in DOMAIN x.counts : x.counts[t] * 10 > x.total * CoverTenths}
  <2>1. WindowSays(x, vs, ws, "tags", u) BY <1>3, WindowsForSay
  <2>2. Covering(x) = IF x.total < CoverEdits THEN {} ELSE T BY DEF Covering
  <2>3. T # {} <=> \E t \in DOMAIN x.counts : x.counts[t] * 10 > x.total * CoverTenths OBVIOUS
  <2>4. HourCount(vs, u, m) \in Nat
    <3>1. vs \in Seq(Versions)
      <4>1. RunIsSound /\ IsAPrefix("minutes") /\ "minutes" \in StreamRoots BY DEF StoresAreSound, StreamRoots
      <4>2. AppliedSeqOf(stores["minutes"]) \in 0..Len(batches) BY <4>1, PrefixStore
      <4> QED BY <4>1, <4>2, PrefixTyped DEF Stored
    <3> HIDE DEF m
    <3> QED BY <3>1, NumbersOfHour
  <2>5. CoverEdits \in Nat BY ThresholdsAreNumbers
  <2>6. /\ x.total = HourCount(vs, u, m) /\ DOMAIN x.counts = Parts(ws, "tags", u, m)
        /\ \A t \in DOMAIN x.counts : x.counts[t] = PartCount(ws, "tags", u, m, t)
        /\ HasEdit(vs, u, m) \/ HasEdit(ws, u, m)
    BY <2>1 DEF WindowSays
  <2> HIDE DEF T
  <2>7. off(x) <=> x.total >= CoverEdits /\ T # {} BY <2>2, <2>4, <2>5, <2>6
  <2>8. Covers(vs, ws, u, m) <=> x.total >= CoverEdits /\ \E t \in DOMAIN x.counts : x.counts[t] * 10 > x.total * CoverTenths
    <3> HIDE DEF x, m
    <3> QED BY <2>6 DEF Covers
  <2> HIDE DEF x, off
  <2> QED BY <2>3, <2>6, <2>7, <2>8 DEF x, m
<1>4. ASSUME NEW u, NEW m, HasEdit(vs, u, m), Covers(vs, ws, u, m)
      PROVE  u \in U /\ \E i \in DOMAIN W(u) : W(u)[i].minute = m
  <2>1. \E i \in DOMAIN W(u) : W(u)[i].minute = m BY <1>4, WindowsForSay
  <2>2. Parts(ws, "tags", u, m) # {} BY <1>4 DEF Covers
  <2>3. u \in U BY <1>4, <2>2, InBothStores
  <2> QED BY <2>1, <2>3
<1> HIDE DEF W, U, E, off
<1> QED BY <1>1, <1>2, <1>3, <1>4 DEF IsCoverDay

-----------------------------------------------------------------------------
(* More batches, more of everything *)

\* A longer prefix of the stream weighs no less.
LEMMA PrefixWeighs ==
  ASSUME RunIsSound, NEW n \in 0..Len(batches), NEW p \in n..Len(batches),
         NEW g, \A x \in Versions : g[x] \in Nat
  PROVE  Weigh(Prefix(n), g) \in Nat /\ Weigh(Prefix(p), g) \in Nat /\ Weigh(Prefix(n), g) <= Weigh(Prefix(p), g)
<1>1. batches \in Seq(Seq(Versions)) /\ Len(batches) \in Nat /\ p \in 0..Len(batches)
  BY StreamTypes
<1>2. \A x \in Versions : g[x] \in Int
  OBVIOUS
<1>3. /\ Prefix(n) \in Seq(Versions) /\ Weigh(Prefix(n), g) = Heaped(g, 1..n)
      /\ Prefix(p) \in Seq(Versions) /\ Weigh(Prefix(p), g) = Heaped(g, 1..p)
  BY <1>1, <1>2, WeighPrefix
<1>4. (1..p) \in SUBSET (DOMAIN batches) /\ (1..n) \in SUBSET (1..p)
  BY <1>1
<1>5. Heaped(g, 1..n) <= Heaped(g, 1..p)
  BY <1>1, <1>4, HeapedMonotone
<1>6. Weigh(Prefix(n), g) \in Nat /\ Weigh(Prefix(p), g) \in Nat
  BY <1>3, WeighNat
<1> QED
  BY <1>3, <1>5, <1>6

\* A store weighs no less than a prefix whose batches, after its stamp, have
\* nothing for it.
LEMMA QuietWeighs ==
  ASSUME RunIsSound, NEW r \in StreamRoots, IsAPrefix(r), NEW n \in 0..Len(batches), Quiet(r, n),
         NEW g, \A x \in Versions : g[x] \in Nat, \A x \in Versions : g[x] # 0 => KeysOf(r, x) # {}
  PROVE  Weigh(Prefix(n), g) <= Weigh(Stored(r), g)
<1> DEFINE s == AppliedSeqOf(stores[r])
<1>1. batches \in Seq(Seq(Versions)) /\ Len(batches) \in Nat /\ s \in 0..Len(batches)
  BY StreamTypes, PrefixStore
<1>2. CASE n <= s
  <2>1. s \in n..Len(batches)
    BY <1>1, <1>2
  <2> HIDE DEF s
  <2>2. Weigh(Prefix(n), g) <= Weigh(Prefix(s), g)
    BY <2>1, PrefixWeighs
  <2> QED
    BY <2>2 DEF s, Stored
<1>3. CASE n > s
  <2>1. \A b \in s+1..n : Weigh(batches[b], g) = 0
    <3> SUFFICES ASSUME NEW b \in s+1..n PROVE Weigh(batches[b], g) = 0
      OBVIOUS
    <3>1. b \in DOMAIN batches /\ batches[b] \in Seq(Versions)
      BY <1>1
    <3>2. ~HasRows(r, b)
      BY DEF Quiet
    <3>3. \A k : Weigh(batches[b], OfKey(r, k)) = 0
      BY <3>1, <3>2, NoRowsIs
    <3>4. ASSUME NEW i \in DOMAIN batches[b] PROVE g[batches[b][i]] = 0
      <4>1. batches[b][i] \in Versions
        BY <3>1
      <4>2. ASSUME NEW k \in KeysOf(r, batches[b][i]) PROVE FALSE
        <5>1. batches[b][i] \in {v \in Versions : k \in KeysOf(r, v)}
          BY <4>1
        <5>2. Weigh(batches[b], Ones(Versions, {v \in Versions : k \in KeysOf(r, v)})) = 0
          BY <3>3 DEF OfKey
        <5> QED
          BY <3>1, <5>1, <5>2, NumberZero
      <4> QED
        BY <4>1, <4>2
    <3> QED
      BY <3>1, <3>4, WeighZero
  <2>2. (1..n) \in SUBSET (DOMAIN batches) /\ (1..s) \in SUBSET (1..n)
        /\ \A b \in (1..n) \ (1..s) : b \in s+1..n
    BY <1>1, <1>3
  <2> HIDE DEF s
  <2>3. \A x \in Versions : g[x] \in Int
    OBVIOUS
  <2>7. \A b \in (1..n) \ (1..s) : Weigh(batches[b], g) = 0
    BY <2>1, <2>2
  <2> DEFINE B == 1..n
             C == 1..s
  <2>8. B \in SUBSET (DOMAIN batches) /\ C \in SUBSET B /\ \A b \in B \ C : Weigh(batches[b], g) = 0
    BY <2>2, <2>7
  <2> HIDE DEF B, C
  <2>4. Heaped(g, B) = Heaped(g, C)
    BY <1>1, <2>3, <2>8, HeapedInside
  <2>5. Weigh(Prefix(n), g) = Heaped(g, 1..n) /\ Weigh(Prefix(s), g) = Heaped(g, 1..s)
    BY <1>1, <2>3, WeighPrefix
  <2>6. Prefix(s) \in Seq(Versions) /\ Weigh(Prefix(s), g) \in Int
    BY <1>1, <2>3, WeighPrefix, WeighInt
  <2> QED
    BY <2>4, <2>5, <2>6 DEF s, Stored, B, C
<1> QED
  BY <1>1, <1>2, <1>3

LEMMA PrefixGrows ==
  ASSUME RunIsSound, NEW n \in 0..Len(batches), NEW p \in n..Len(batches)
  PROVE  HoursGrow(Prefix(n), Prefix(p)) /\ \A root : PartsGrow(root, Prefix(n), Prefix(p))
<1>1. ASSUME NEW u, NEW m
      PROVE  /\ HasEdit(Prefix(n), u, m) => HasEdit(Prefix(p), u, m)
             /\ HourCount(Prefix(n), u, m) <= HourCount(Prefix(p), u, m)
  <2>1. \A x \in Versions : OfKey("minutes", <<u, m>>)[x] \in Nat
    BY HourWeights
  <2>2. \A x \in Versions : OfHour(u, m)[x] \in Nat
    BY HourWeights
  <2>3. /\ Weigh(Prefix(n), OfKey("minutes", <<u, m>>)) \in Nat
        /\ Weigh(Prefix(p), OfKey("minutes", <<u, m>>)) \in Nat
        /\ Weigh(Prefix(n), OfKey("minutes", <<u, m>>)) <= Weigh(Prefix(p), OfKey("minutes", <<u, m>>))
    BY <2>1, PrefixWeighs
  <2>4. Weigh(Prefix(n), OfHour(u, m)) <= Weigh(Prefix(p), OfHour(u, m))
    BY <2>2, PrefixWeighs
  <2> QED
    BY <2>3, <2>4 DEF HasEdit, HourCount
<1>2. ASSUME NEW root, NEW u, NEW m, NEW t
      PROVE  PartCount(Prefix(n), root, u, m, t) <= PartCount(Prefix(p), root, u, m, t)
  <2>1. \A x \in Versions : OfPart(root, u, m, t)[x] \in Nat
    BY HourWeights
  <2> QED
    BY <2>1, PrefixWeighs DEF PartCount
<1> QED
  BY <1>1, <1>2 DEF HoursGrow, PartsGrow

LEMMA QuietGrows ==
  ASSUME RunIsSound, NEW r \in StreamRoots, IsAPrefix(r), NEW n \in 0..Len(batches), Quiet(r, n)
  PROVE  /\ r = "minutes" => HoursGrow(Prefix(n), Stored(r))
         /\ PartsGrow(r, Prefix(n), Stored(r))
<1>1. ASSUME NEW u, NEW m, r = "minutes"
      PROVE  /\ HasEdit(Prefix(n), u, m) => HasEdit(Stored(r), u, m)
             /\ HourCount(Prefix(n), u, m) <= HourCount(Stored(r), u, m)
  <2>1. /\ \A x \in Versions : OfKey(r, <<u, m>>)[x] \in Nat
        /\ \A x \in Versions : OfKey(r, <<u, m>>)[x] # 0 => KeysOf(r, x) # {}
    BY <1>1, HourWeights
  <2>2. /\ \A x \in Versions : OfHour(u, m)[x] \in Nat
        /\ \A x \in Versions : OfHour(u, m)[x] # 0 => KeysOf(r, x) # {}
    BY <1>1, HourWeights
  <2>3. Weigh(Prefix(n), OfKey(r, <<u, m>>)) <= Weigh(Stored(r), OfKey(r, <<u, m>>))
    BY <2>1, QuietWeighs
  <2>4. Weigh(Prefix(n), OfHour(u, m)) <= Weigh(Stored(r), OfHour(u, m))
    BY <2>2, QuietWeighs
  <2>5. Prefix(n) \in Seq(Versions) /\ Stored(r) \in Seq(Versions)
    BY PrefixTyped, PrefixStore DEF Stored
  <2>6. /\ Weigh(Prefix(n), OfKey(r, <<u, m>>)) \in Nat
        /\ Weigh(Stored(r), OfKey(r, <<u, m>>)) \in Nat
    BY <2>1, <2>5, WeighNat
  <2> QED
    BY <1>1, <2>3, <2>4, <2>6 DEF HasEdit, HourCount
<1>2. ASSUME NEW u, NEW m, NEW t
      PROVE  PartCount(Prefix(n), r, u, m, t) <= PartCount(Stored(r), r, u, m, t)
  <2>1. /\ \A x \in Versions : OfPart(r, u, m, t)[x] \in Nat
        /\ \A x \in Versions : OfPart(r, u, m, t)[x] # 0 => KeysOf(r, x) # {}
    BY HourWeights
  <2> QED
    BY <2>1, QuietWeighs DEF PartCount
<1> QED
  BY <1>1, <1>2 DEF HoursGrow, PartsGrow

\* An hour of more edits in more cells is as wide.
LEMMA SpreadGrows ==
  ASSUME NEW vs \in Seq(Versions), NEW ws \in Seq(Versions), HoursGrow(vs, ws),
         NEW xs \in Seq(Versions), NEW ys \in Seq(Versions), PartsGrow("cells", xs, ys), NEW u, NEW m
  PROVE  /\ SpreadAt(vs, xs, u, m) => SpreadAt(ws, ys, u, m)
         /\ HasEdit(vs, u, m) => HasEdit(ws, u, m)
<1> DEFINE c == Cardinality(Parts(xs, "cells", u, m))
           d == Cardinality(Parts(ys, "cells", u, m))
<1>1. HourCount(vs, u, m) \in Nat /\ HourCount(ws, u, m) \in Nat
  BY NumbersOfHour
<1>2. HourCount(vs, u, m) <= HourCount(ws, u, m) /\ (HasEdit(vs, u, m) => HasEdit(ws, u, m))
  BY DEF HoursGrow
<1>3. \A t : PartCount(xs, "cells", u, m, t) \in Nat /\ PartCount(ys, "cells", u, m, t) \in Nat
  BY NumbersOfHour
<1>4. \A t : PartCount(xs, "cells", u, m, t) <= PartCount(ys, "cells", u, m, t)
  BY DEF PartsGrow
<1>5. Parts(xs, "cells", u, m) \subseteq Parts(ys, "cells", u, m)
  <2> SUFFICES ASSUME NEW t \in Int, PartCount(xs, "cells", u, m, t) # 0
               PROVE  PartCount(ys, "cells", u, m, t) # 0
    BY DEF Parts
  <2> QED
    BY <1>3, <1>4
<1>6. IsFiniteSet(Parts(ys, "cells", u, m)) /\ IsFiniteSet(Parts(xs, "cells", u, m))
  BY PartsAreFinite DEF Roots
<1>7. c \in Nat /\ d \in Nat /\ c <= d
  BY <1>5, <1>6, FS_Subset, FS_CardinalityType
<1> HIDE DEF c, d
<1>8. CellArea \in Nat /\ SpreadArea \in Nat /\ SpreadCells \in Nat /\ SpreadEdits \in Nat
  BY ThresholdsAreNumbers
<1>9. c * CellArea <= d * CellArea
  BY <1>7, <1>8
<1>10. c * CellArea \in Nat /\ d * CellArea \in Nat
  BY <1>7, <1>8
<1> DEFINE e == c * CellArea
           f == d * CellArea
<1>11. IsWide(c) => IsWide(d)
  <2>1. e <= f /\ e \in Nat /\ f \in Nat
    BY <1>9, <1>10
  <2>2. (IsWide(c) <=> c >= SpreadCells /\ e >= SpreadArea) /\ (IsWide(d) <=> d >= SpreadCells /\ f >= SpreadArea)
    BY DEF IsWide
  <2> HIDE DEF e, f
  <2> QED
    BY <1>7, <1>8, <2>1, <2>2
<1> HIDE DEF e, f
<1>12. SpreadAt(vs, xs, u, m) => SpreadAt(ws, ys, u, m)
  BY <1>1, <1>2, <1>8, <1>11 DEF SpreadAt, c, d
<1> QED
  BY <1>2, <1>12

LEMMA SpreadDayGrows ==
  ASSUME NEW vs \in Seq(Versions), NEW ws \in Seq(Versions), HoursGrow(vs, ws), PartsGrow("cells", vs, ws), NEW k
  PROVE  IsSpreadDay(vs, k) => IsSpreadDay(ws, k)
<1> SUFFICES ASSUME IsSpreadDay(vs, k) PROVE IsSpreadDay(ws, k)
  OBVIOUS
<1>1. PICK u, m : k = <<u, Day(m)>> /\ HasEdit(vs, u, m) /\ SpreadAt(vs, vs, u, m)
  BY DEF IsSpreadDay, SpreadAt
<1>2. HasEdit(ws, u, m) /\ SpreadAt(ws, ws, u, m)
  BY <1>1, SpreadGrows
<1> QED
  BY <1>1, <1>2 DEF IsSpreadDay, SpreadAt

-----------------------------------------------------------------------------
(* The stamps of the stores *)

Stamp(r) == AppliedSeqOf(stores[r])

\* A batch with cells or tags for a store has edits.
LEMMA RowsAreEdits ==
  ASSUME RunIsSound, NEW r \in StreamRoots, NEW b \in DOMAIN batches, HasRows(r, b)
  PROVE  HasRows("minutes", b)
<1> DEFINE vs == batches[b]
<1>1. vs \in Seq(Versions)
  BY NoRowsIs
<1>2. r \in Roots /\ "minutes" \in StreamRoots /\ Tally(r, vs) # NoRows
  BY DEF HasRows, StreamRoots, Roots
<1> HIDE DEF vs
<1>3. Tally(r, vs) = [k \in DOMAIN Tally(r, vs) |-> Weigh(vs, OfKey(r, k))]
  BY <1>1, <1>2, TallyIs
<1>4. DOMAIN Tally(r, vs) # {}
  <2> SUFFICES ASSUME DOMAIN Tally(r, vs) = {} PROVE FALSE
    OBVIOUS
  <2> QED
    BY <1>2, <1>3 DEF NoRows
<1>5. PICK k : k \in DOMAIN Tally(r, vs)
  BY <1>4
<1>6. Weigh(vs, OfKey(r, k)) # 0
  BY <1>1, <1>2, <1>5, TallyIs
<1>7. Weigh(vs, OfKey("minutes", <<k[1], k[2]>>)) # 0
  BY <1>1, <1>6, KeyIsAnEdit DEF HasEdit
<1> QED
  BY <1>2, <1>7, NoRowsIs DEF vs

StampsAreSound ==
  /\ StoresAreSound
  /\ Stamp("cells") <= Stamp("minutes") /\ Stamp("tags") <= Stamp("minutes")
  /\ phase \in {"cells", "tags"} /\ RowBatches("minutes", target) # {} => target <= Stamp("minutes")
  /\ crashes = 0 => \A r \in StreamRoots : Stamp(r) <= (IF phase \in RunPhases THEN target ELSE manifest)

\* A fold stamps its store with the target, or leaves it; a store behind the
\* target is left only when nothing was staged for it.
LEMMA FoldStamps ==
  ASSUME StoresAreSound, NEW r \in StreamRoots, NEW next, Fold(r, next)
  PROVE  /\ Stamp(r) \in Nat /\ Stamp(r)' \in Nat /\ Stamp(r) <= Stamp(r)'
         /\ Stamp(r)' # Stamp(r) => Stamp(r)' = target /\ RowBatches(r, target) # {}
         /\ RowBatches(r, target) # {} => target <= Stamp(r)'
         /\ \A q \in StreamRoots \ {r} : Stamp(q)' = Stamp(q)
<1>1. /\ RunIsSound /\ IsAPrefix(r) /\ Quiet(r, manifest) /\ DOMAIN stores = Roots /\ r \in Roots /\ phase = r
  BY DEF StoresAreSound, Fold, StreamRoots, Roots
<1>2. /\ Stamp(r) \in 0..Len(batches) /\ Len(batches) \in Nat /\ target \in Nat
      /\ stores[r] = Absent => Stamp(r) = 0
  <2>1. \A s : s = AppliedSeqOf(stores[r]) => s \in 0..Len(batches) /\ (stores[r] = Absent => s = 0)
    BY <1>1, PrefixStore
  <2> QED
    BY <1>1, <2>1, StreamTypes DEF Stamp
<1>3. stage[r] = RowBatches(r, target)
  <2>1. phase \in Unread[r] /\ r \in StageRoots
    BY <1>1 DEF Unread, StreamRoots, StageRoots, Roots
  <2> QED
    BY <1>1, <2>1 DEF RunIsSound
<1>4. stores' = IF AlreadyFolded(r) \/ stage[r] = {} THEN stores
                ELSE [stores EXCEPT ![r] = Written(Merged(r), target)]
  BY DEF Fold
<1>5. \A q \in StreamRoots \ {r} : Stamp(q)' = Stamp(q)
  <2> SUFFICES ASSUME NEW q \in StreamRoots \ {r} PROVE stores'[q] = stores[q]
    BY DEF Stamp
  <2> QED
    BY <1>1, <1>4 DEF StreamRoots, Roots
<1>6. CASE AlreadyFolded(r) \/ stage[r] = {}
  <2>1. Stamp(r)' = Stamp(r)
    BY <1>4, <1>6 DEF Stamp
  <2>2. RowBatches(r, target) # {} => target <= Stamp(r)
    BY <1>2, <1>3, <1>6 DEF AlreadyFolded, Stamp
  <2> QED
    BY <1>2, <1>5, <2>1, <2>2
<1>7. CASE ~(AlreadyFolded(r) \/ stage[r] = {})
  <2>1. Merged(r) = Tally(r, Prefix(target)) /\ target \in 1..Len(batches)
    BY <1>1, <1>7, MergedIs
  <2> DEFINE c == Merged(r)
             m == KeyLength[r]
  <2>2. m \in Nat /\ IsFiniteSet(DOMAIN c) /\ DOMAIN c \subseteq Keys(m) /\ \A k \in DOMAIN c : c[k] \in Nat
    <3>1. target \in 0..Len(batches)
      BY <2>1
    <3> QED
      BY <1>1, <2>1, <3>1, TallyOfPrefix
  <2> HIDE DEF c, m
  <2>3. AppliedSeqOf(Written(c, target)) = target
    BY <1>2, <2>2, ReadsBack
  <2>4. stores'[r] = Written(c, target)
    BY <1>1, <1>4, <1>7 DEF c
  <2>5. Stamp(r)' = target
    BY <2>3, <2>4 DEF Stamp
  <2>6. Stamp(r) <= target
    BY <1>2, <1>7 DEF AlreadyFolded, Stamp
  <2> QED
    BY <1>2, <1>3, <1>5, <1>7, <2>5, <2>6
<1> QED
  BY <1>6, <1>7

\* Only edits are in the cells and the tags, so those stores are never ahead.
LEMMA FoldKeepsOrder ==
  ASSUME StampsAreSound, NEW r \in StreamRoots, NEW next, Fold(r, next)
  PROVE  Stamp("cells")' <= Stamp("minutes")' /\ Stamp("tags")' <= Stamp("minutes")'
<1>1. StoresAreSound /\ phase = r /\ {"minutes", "cells", "tags"} = StreamRoots
  BY DEF StampsAreSound, Fold, StreamRoots
<1>2. /\ Stamp(r) \in Nat /\ Stamp(r)' \in Nat /\ Stamp(r) <= Stamp(r)'
      /\ Stamp(r)' # Stamp(r) => Stamp(r)' = target /\ RowBatches(r, target) # {}
      /\ \A q \in StreamRoots \ {r} : Stamp(q)' = Stamp(q)
  BY <1>1, FoldStamps
<1>3. \A q \in StreamRoots : Stamp(q) \in Nat
  <2> SUFFICES ASSUME NEW q \in StreamRoots PROVE Stamp(q) \in Nat
    OBVIOUS
  <2>1. \A s : s = AppliedSeqOf(stores[q]) => s \in 0..Len(batches)
    BY <1>1, PrefixStore DEF StoresAreSound
  <2> QED
    BY <2>1 DEF Stamp
<1>4. RunIsSound /\ (1..target) \in SUBSET (DOMAIN batches) /\ target \in Nat /\ manifest \in Nat
  BY <1>1, StreamTypes DEF StoresAreSound, RunIsSound
<1>5. RowBatches(r, target) # {} => RowBatches("minutes", target) # {}
  <2> SUFFICES ASSUME NEW b \in RowBatches(r, target) PROVE b \in RowBatches("minutes", target)
    OBVIOUS
  <2>1. b \in manifest+1..target /\ HasRows(r, b)
    BY DEF RowBatches
  <2>2. b \in DOMAIN batches
    BY <1>4, <2>1
  <2>3. HasRows("minutes", b)
    BY <1>4, <2>1, <2>2, RowsAreEdits
  <2> QED
    BY <2>1, <2>3 DEF RowBatches
<1>6. Stamp("cells") <= Stamp("minutes") /\ Stamp("tags") <= Stamp("minutes")
  BY DEF StampsAreSound
<1>7. CASE r = "minutes"
  BY <1>1, <1>2, <1>3, <1>6, <1>7
<1>8. CASE r \in {"cells", "tags"}
  <2>1. RowBatches(r, target) # {} => target <= Stamp("minutes")
    BY <1>1, <1>5, <1>8 DEF StampsAreSound
  <2>2. Stamp("minutes")' = Stamp("minutes") /\ \A q \in {"cells", "tags"} \ {r} : Stamp(q)' = Stamp(q)
    BY <1>1, <1>2, <1>8
  <2>3. Stamp(r)' <= Stamp("minutes")'
    BY <1>2, <1>3, <1>6, <1>8, <2>1, <2>2
  <2> QED
    BY <1>3, <1>6, <1>8, <2>2, <2>3
<1> QED
  BY <1>1, <1>7, <1>8

LEMMA StampsAreSoundInit == Init => StampsAreSound
<1> SUFFICES ASSUME Init PROVE StampsAreSound
  OBVIOUS
<1>1. StoresAreSound
  BY StoresAreSoundInit
<1>2. \A r \in StreamRoots : Stamp(r) = 0
  BY DEF Init, Stamp, AppliedSeqOf, StreamRoots, Roots
<1>3. phase = "none" /\ manifest = 0 /\ "none" \notin RunPhases
  BY DEF Init, RunPhases
<1> QED
  BY <1>1, <1>2, <1>3 DEF StampsAreSound, StreamRoots

LEMMA StampsAreSoundStep == StampsAreSound /\ [Next]_vars => StampsAreSound'
<1> SUFFICES ASSUME StampsAreSound, [Next]_vars PROVE StampsAreSound'
  OBVIOUS
<1>1. StoresAreSound /\ RunIsSound /\ StoresAreSound' /\ RunIsSound'
  BY StoresAreSoundStep DEF StampsAreSound, StoresAreSound
<1>2. /\ target \in Nat /\ manifest \in Nat /\ target' \in Nat /\ manifest' \in Nat
      /\ \A r \in StreamRoots : Stamp(r) \in Nat
  <2>1. ASSUME NEW r \in StreamRoots PROVE Stamp(r) \in Nat
    <3>1. \A s : s = AppliedSeqOf(stores[r]) => s \in 0..Len(batches)
      BY <1>1, PrefixStore DEF StoresAreSound
    <3> QED
      BY <3>1 DEF Stamp
  <2>2. target \in Nat /\ manifest \in Nat
    BY <1>1, StreamTypes
  <2>3. Len(batches') \in Nat /\ target' \in 0..Len(batches') /\ manifest' \in 0..Len(batches')
    <3>1. batches' = batches /\ Len(batches) \in Nat
      BY <1>1, StreamTypes, StoresSteps
    <3> QED
      BY <1>1, <3>1 DEF RunIsSound
  <2> QED
    BY <2>1, <2>2, <2>3
<1>3. ASSUME NEW r \in StreamRoots, NEW next \in RunPhases, Fold(r, next)
      PROVE  StampsAreSound'
  <2>1. Stamp("cells")' <= Stamp("minutes")' /\ Stamp("tags")' <= Stamp("minutes")'
    BY <1>3, FoldKeepsOrder
  <2>2. /\ Stamp(r) \in Nat /\ Stamp(r)' \in Nat /\ Stamp(r) <= Stamp(r)'
        /\ Stamp(r)' # Stamp(r) => Stamp(r)' = target /\ RowBatches(r, target) # {}
        /\ RowBatches(r, target) # {} => target <= Stamp(r)'
        /\ \A q \in StreamRoots \ {r} : Stamp(q)' = Stamp(q)
    BY <1>1, <1>3, FoldStamps
  <2>3. /\ target' = target /\ manifest' = manifest /\ batches' = batches /\ crashes' = crashes
        /\ phase = r /\ phase' = next
    BY <1>3 DEF Fold
  <2>4. RowBatches("minutes", target)' = RowBatches("minutes", target)
    BY <2>3, RowBatchesStay
  <2>5. phase' \in {"cells", "tags"} /\ RowBatches("minutes", target)' # {} => target' <= Stamp("minutes")'
    <3> SUFFICES ASSUME phase' \in {"cells", "tags"}, RowBatches("minutes", target) # {}
                 PROVE  target <= Stamp("minutes")'
      BY <2>3, <2>4
    <3>1. CASE r = "minutes"
      BY <2>2, <3>1
    <3>2. CASE r \in {"cells", "tags"}
      <4>1. target <= Stamp("minutes")
        BY <2>3, <3>2 DEF StampsAreSound
      <4>2. Stamp("minutes")' = Stamp("minutes")
        BY <2>2, <3>2 DEF StreamRoots
      <4> QED
        BY <4>1, <4>2
    <3> QED
      BY <3>1, <3>2 DEF StreamRoots
  <2>6. crashes' = 0 => \A q \in StreamRoots : Stamp(q)' <= (IF phase' \in RunPhases THEN target' ELSE manifest')
    <3>1. phase \in RunPhases /\ phase' \in RunPhases
      BY <2>3 DEF StreamRoots, RunPhases
    <3>2. crashes = 0 => \A q \in StreamRoots : Stamp(q) <= target
      BY <3>1 DEF StampsAreSound
    <3>3. crashes = 0 => \A q \in StreamRoots : Stamp(q)' <= target
      BY <1>2, <2>2, <3>2
    <3> QED
      BY <2>3, <3>1, <3>3
  <2> QED
    BY <1>1, <2>1, <2>5, <2>6 DEF StampsAreSound
<1>4. ASSUME \A r \in StreamRoots : stores'[r] = stores[r],
             phase' \notin {"cells", "tags"} \/ (phase' = phase /\ UNCHANGED <<batches, manifest, target>>),
             /\ crashes' = 0 => crashes = 0
             /\ crashes' = 0 => (IF phase \in RunPhases THEN target ELSE manifest)
                                  <= (IF phase' \in RunPhases THEN target' ELSE manifest')
      PROVE  StampsAreSound'
  <2>1. \A r \in StreamRoots : Stamp(r)' = Stamp(r)
    BY <1>4 DEF Stamp
  <2>2. Stamp("cells")' <= Stamp("minutes")' /\ Stamp("tags")' <= Stamp("minutes")'
    BY <2>1 DEF StampsAreSound, StreamRoots
  <2>3. phase' \in {"cells", "tags"} /\ RowBatches("minutes", target)' # {} => target' <= Stamp("minutes")'
    <3> SUFFICES ASSUME phase' \in {"cells", "tags"}, RowBatches("minutes", target)' # {}
                 PROVE  target' <= Stamp("minutes")'
      OBVIOUS
    <3>1. phase = phase' /\ batches' = batches /\ manifest' = manifest /\ target' = target
      BY <1>4
    <3>2. RowBatches("minutes", target)' = RowBatches("minutes", target)
      BY <3>1, RowBatchesStay
    <3>3. target <= Stamp("minutes")
      BY <3>1, <3>2 DEF StampsAreSound
    <3> QED
      BY <2>1, <3>1, <3>3 DEF StreamRoots
  <2>4. crashes' = 0 => \A q \in StreamRoots : Stamp(q)' <= (IF phase' \in RunPhases THEN target' ELSE manifest')
    <3> DEFINE old == IF phase \in RunPhases THEN target ELSE manifest
               new == IF phase' \in RunPhases THEN target' ELSE manifest'
    <3>1. crashes' = 0 => \A q \in StreamRoots : Stamp(q) <= old
      BY <1>4 DEF StampsAreSound
    <3>2. crashes' = 0 => old <= new
      BY <1>4
    <3>3. old \in Nat /\ new \in Nat
      BY <1>2
    <3> HIDE DEF old, new
    <3>4. crashes' = 0 => \A q \in StreamRoots : Stamp(q)' <= new
      BY <1>2, <2>1, <3>1, <3>2, <3>3
    <3> QED
      BY <3>4 DEF new
  <2> QED
    BY <1>1, <2>2, <2>3, <2>4 DEF StampsAreSound
<1>5. CASE FoldLangs
  <2>1. DOMAIN stores = Roots /\ phase = "langs" /\ phase' = "ranking" /\ UNCHANGED <<batches, manifest, target, crashes>>
    BY <1>1, <1>5 DEF FoldLangs, Fold, StoresAreSound
  <2>2. \A r \in StreamRoots : stores'[r] = stores[r]
    BY <1>5, <2>1 DEF FoldLangs, Fold, StreamRoots, Roots
  <2>3. "langs" \in RunPhases /\ "ranking" \in RunPhases
    BY DEF RunPhases
  <2> QED
    BY <1>2, <1>4, <2>1, <2>2, <2>3
<1>6. CASE UNCHANGED stores
  <2>1. \A r \in StreamRoots : stores'[r] = stores[r]
    BY <1>6
  <2>2. CASE Crash
    <3>1. phase' = "idle" /\ crashes' = crashes + 1 /\ crashes \in Nat
      BY <1>1, <2>2 DEF Crash, RunIsSound
    <3> QED
      BY <1>4, <2>1, <3>1
  <2>3. CASE StartRun
    <3>1. phase = "idle" /\ phase' = "scan" /\ target' \in manifest+1..Len(batches) /\ crashes' = crashes
      BY <2>3 DEF StartRun
    <3>2. "idle" \notin RunPhases /\ "scan" \in RunPhases /\ Len(batches) \in Nat /\ manifest <= target'
      BY <1>1, <1>2, <3>1, StreamTypes DEF RunPhases
    <3> QED
      BY <1>4, <2>1, <3>1, <3>2
  <2>4. CASE WriteManifest
    <3>1. phase = "manifest" /\ phase' = "idle" /\ manifest' = target /\ crashes' = crashes
      BY <2>4 DEF WriteManifest
    <3>2. "idle" \notin RunPhases /\ "manifest" \in RunPhases
      BY DEF RunPhases
    <3> QED
      BY <1>2, <1>4, <2>1, <3>1, <3>2
  <2>5. CASE ~Crash /\ ~StartRun /\ ~WriteManifest
    <3>1. UNCHANGED <<batches, manifest, target, crashes>>
      BY <2>5 DEF Next, vars, Import, Scan, FoldMinutes, FoldCells, FoldTags, FoldLangs, Fold, FlagMoves,
                  WriteRanking, WriteHistory, WriteSuspects, Done
    <3>2. \/ phase' = phase
          \/ phase = "none" /\ phase' = "idle"
          \/ phase' \notin {"cells", "tags"} /\ phase \in RunPhases /\ phase' \in RunPhases
          \/ \E r \in StreamRoots : \E next \in RunPhases : Fold(r, next)
      BY <2>5 DEF Next, vars, Import, Scan, FoldMinutes, FoldCells, FoldTags, FoldLangs, Fold, FlagMoves,
                  WriteRanking, WriteHistory, WriteSuspects, Done, RunPhases, StreamRoots
    <3>3. "none" \notin RunPhases /\ "idle" \notin RunPhases
      BY DEF RunPhases
    <3> QED
      BY <1>2, <1>3, <1>4, <2>1, <3>1, <3>2, <3>3
  <2> QED
    BY <2>2, <2>3, <2>4, <2>5
<1> QED
  BY <1>3, <1>5, <1>6, StoresSteps

LEMMA StampsAreSoundAlways == Spec => []StampsAreSound
BY StampsAreSoundInit, StampsAreSoundStep, PTL DEF Spec

-----------------------------------------------------------------------------
(* The days of the filters *)

IsADay(vs, k) == \E i \in DOMAIN vs : DayKey(vs[i]) = k

OfMoveDay(k) == Ones(Versions, {v \in FarVersions : DayKey(v) = k})

IsMoveDay(vs, k) == Weigh(vs, OfMoveDay(k)) # 0

LEMMA MoveDayIs ==
  ASSUME NEW vs \in Seq(Versions), NEW k
  PROVE  IsMoveDay(vs, k) <=> \E i \in DOMAIN vs : vs[i] \in FarVersions /\ DayKey(vs[i]) = k
<1>1. Weigh(vs, OfMoveDay(k)) = 0 <=> \A i \in DOMAIN vs : vs[i] \notin {v \in FarVersions : DayKey(v) = k}
  BY NumberZero DEF OfMoveDay
<1> QED
  BY <1>1 DEF IsMoveDay

LEMMA MoveWeights ==
  \A k : \A x \in Versions : OfMoveDay(k)[x] \in Nat
BY OnesAreNumbers DEF OfMoveDay

\* A day of a filter is a day of the stream.
LEMMA FilterDaysAreDays ==
  ASSUME NEW vs \in Seq(Versions), NEW k
  PROVE  /\ IsEditDay(vs, k) => IsADay(vs, k)
         /\ IsSpreadDay(vs, k) => IsADay(vs, k)
         /\ IsMoveDay(vs, k) => IsADay(vs, k)
         /\ IsCoverDay(vs, vs, k) => IsADay(vs, k)
<1>1. ASSUME NEW u, NEW m, k = <<u, Day(m)>>, HasEdit(vs, u, m)
      PROVE  IsADay(vs, k)
  <2>1. PICK i \in DOMAIN vs : vs[i].uid = u /\ vs[i].minute = m
    BY <1>1, HasEditIs
  <2>2. DayKey(vs[i]) = k
    BY <1>1, <2>1 DEF DayKey
  <2> QED
    BY <2>2 DEF IsADay
<1>2. IsMoveDay(vs, k) => IsADay(vs, k)
  BY MoveDayIs DEF IsADay
<1>3. IsEditDay(vs, k) => IsADay(vs, k)
  BY <1>1 DEF IsEditDay
<1>4. IsSpreadDay(vs, k) => IsADay(vs, k)
  BY <1>1 DEF IsSpreadDay
<1>5. IsCoverDay(vs, vs, k) => IsADay(vs, k)
  BY <1>1 DEF IsCoverDay
<1> QED
  BY <1>2, <1>3, <1>4, <1>5

\* Every day of a prefix is due.
LEMMA DayIsDue ==
  ASSUME RunIsSound, NEW n \in 0..Len(batches), NEW k
  PROVE  /\ IsADay(Prefix(n), k) => Due(OfDay(k), n) # 0
         /\ IsADay(imported, k) => Due(OfDay(k), n) # 0
<1>1. \A x \in Versions : OfDay(k)[x] \in Nat
  BY OnesAreNumbers DEF OfDay
<1>2. \A x \in Versions : OfDay(k)[x] \in Int
  BY <1>1
<1>3. batches \in Seq(Seq(Versions)) /\ imported \in Seq(Versions)
  BY StreamTypes
<1>4. Prefix(n) \in Seq(Versions) /\ Weigh(Prefix(n), OfDay(k)) = Heaped(OfDay(k), 1..n)
  BY <1>2, <1>3, WeighPrefix
<1>5. Weigh(Prefix(n), OfDay(k)) \in Nat /\ Weigh(imported, OfDay(k)) \in Nat
  BY <1>1, <1>3, <1>4, WeighNat
<1>6. Due(OfDay(k), n) = Weigh(imported, OfDay(k)) + Weigh(Prefix(n), OfDay(k))
  BY <1>4 DEF Due
<1>7. ASSUME NEW vs \in Seq(Versions), IsADay(vs, k) PROVE Weigh(vs, OfDay(k)) # 0
  <2>1. PICK i \in DOMAIN vs : DayKey(vs[i]) = k
    BY <1>7 DEF IsADay
  <2>2. vs[i] \in {v \in Versions : DayKey(v) = k}
    BY <2>1
  <2> QED
    BY <2>2, NumberZero DEF OfDay
<1> QED
  BY <1>3, <1>4, <1>5, <1>6, <1>7

\* Without staged counts the target's prefix holds what the manifest's does.
LEMMA NothingStaged ==
  ASSUME RunIsSound, phase \in {"ranking", "history"}, stage["history"] = {}
  PROVE  /\ HoursGrow(Prefix(target), Prefix(manifest))
         /\ \A root : PartsGrow(root, Prefix(target), Prefix(manifest))
         /\ \A k : IsMoveDay(Prefix(target), k) <=> IsMoveDay(Prefix(manifest), k)
<1>1. ASSUME NEW g, \A x \in Versions : g[x] \in Nat
      PROVE  Weigh(Prefix(target), g) \in Nat /\ Weigh(Prefix(target), g) = Weigh(Prefix(manifest), g)
  <2>1. batches \in Seq(Seq(Versions)) /\ imported \in Seq(Versions) /\ \A x \in Versions : g[x] \in Int
    BY <1>1, StreamTypes
  <2>2. target \in 0..Len(batches) /\ manifest \in 0..Len(batches)
    BY DEF RunIsSound
  <2>3. /\ Prefix(target) \in Seq(Versions) /\ Weigh(Prefix(target), g) = Heaped(g, 1..target)
        /\ Prefix(manifest) \in Seq(Versions) /\ Weigh(Prefix(manifest), g) = Heaped(g, 1..manifest)
    BY <2>1, <2>2, WeighPrefix
  <2>4. Due(g, target) = Due(g, manifest)
    BY <1>1, DueStaged
  <2>5. Weigh(Prefix(target), g) \in Nat /\ Weigh(Prefix(manifest), g) \in Nat /\ Weigh(imported, g) \in Nat
    BY <1>1, <2>1, <2>3, WeighNat
  <2>6. Due(g, target) = Weigh(imported, g) + Weigh(Prefix(target), g)
        /\ Due(g, manifest) = Weigh(imported, g) + Weigh(Prefix(manifest), g)
    BY <2>3 DEF Due
  <2> DEFINE a == Weigh(Prefix(target), g)
             b == Weigh(Prefix(manifest), g)
             c == Weigh(imported, g)
  <2>7. a \in Nat /\ b \in Nat /\ c \in Nat /\ c + a = c + b
    BY <2>4, <2>5, <2>6
  <2> HIDE DEF a, b, c
  <2>8. a \in Nat /\ a = b
    BY <2>7
  <2> QED
    BY <2>8 DEF a, b
<1>2. ASSUME NEW u, NEW m
      PROVE  /\ HasEdit(Prefix(target), u, m) => HasEdit(Prefix(manifest), u, m)
             /\ HourCount(Prefix(target), u, m) <= HourCount(Prefix(manifest), u, m)
  <2>1. \A x \in Versions : OfKey("minutes", <<u, m>>)[x] \in Nat
    BY HourWeights
  <2>2. \A x \in Versions : OfHour(u, m)[x] \in Nat
    BY HourWeights
  <2>3. Weigh(Prefix(target), OfKey("minutes", <<u, m>>)) = Weigh(Prefix(manifest), OfKey("minutes", <<u, m>>))
    BY <1>1, <2>1
  <2>4. Weigh(Prefix(target), OfHour(u, m)) = Weigh(Prefix(manifest), OfHour(u, m))
        /\ Weigh(Prefix(target), OfHour(u, m)) \in Nat
    BY <1>1, <2>2
  <2> QED
    BY <2>3, <2>4 DEF HasEdit, HourCount
<1>3. ASSUME NEW root, NEW u, NEW m, NEW t
      PROVE  PartCount(Prefix(target), root, u, m, t) <= PartCount(Prefix(manifest), root, u, m, t)
  <2>1. \A x \in Versions : OfPart(root, u, m, t)[x] \in Nat
    BY HourWeights
  <2>2. Weigh(Prefix(target), OfPart(root, u, m, t)) = Weigh(Prefix(manifest), OfPart(root, u, m, t))
        /\ Weigh(Prefix(target), OfPart(root, u, m, t)) \in Nat
    BY <1>1, <2>1
  <2> QED
    BY <2>2 DEF PartCount
<1>4. ASSUME NEW k PROVE IsMoveDay(Prefix(target), k) <=> IsMoveDay(Prefix(manifest), k)
  <2>1. \A x \in Versions : OfMoveDay(k)[x] \in Nat
    BY MoveWeights
  <2>2. Weigh(Prefix(target), OfMoveDay(k)) = Weigh(Prefix(manifest), OfMoveDay(k))
    BY <1>1, <2>1
  <2> QED
    BY <2>2 DEF IsMoveDay
<1> QED
  BY <1>2, <1>3, <1>4 DEF HoursGrow, PartsGrow

LEMMA MoveDayGrows ==
  ASSUME RunIsSound, NEW n \in 0..Len(batches), NEW p \in n..Len(batches), NEW k, IsMoveDay(Prefix(n), k)
  PROVE  IsMoveDay(Prefix(p), k)
<1>1. \A x \in Versions : OfMoveDay(k)[x] \in Nat
  BY MoveWeights
<1>2. /\ Weigh(Prefix(n), OfMoveDay(k)) \in Nat /\ Weigh(Prefix(p), OfMoveDay(k)) \in Nat
      /\ Weigh(Prefix(n), OfMoveDay(k)) <= Weigh(Prefix(p), OfMoveDay(k))
  BY <1>1, PrefixWeighs
<1> QED
  BY <1>2 DEF IsMoveDay

\* The run's moves are on days with a far move somewhere in the stream.
MovesAreFar == \A k \in DOMAIN moves : IsMoveDay(Prefix(Len(batches)), k)

LEMMA FarWeighs ==
  ASSUME NEW s \in Seq(Versions), NEW k
  PROVE  Weigh(FarMoves(s), OfDay(k)) = Weigh(s, OfMoveDay(k))
<1>1. \A x \in Versions : OfDay(k)[x] \in Int
  BY OnesAreNumbers DEF OfDay
<1>2. Weigh(FarMoves(s), OfDay(k)) = Weigh(s, Within(Versions, FarVersions, OfDay(k)))
  BY <1>1, FarMovesAre
<1>3. ASSUME NEW x \in Versions
      PROVE  OfMoveDay(k)[x] \in Int /\ OfMoveDay(k)[x] = Within(Versions, FarVersions, OfDay(k))[x]
  <2>1. OfMoveDay(k)[x] = IF x \in {v \in FarVersions : DayKey(v) = k} THEN 1 ELSE 0
    BY OnesAt DEF OfMoveDay
  <2>2. OfDay(k)[x] = IF x \in {v \in Versions : DayKey(v) = k} THEN 1 ELSE 0
    BY OnesAt DEF OfDay
  <2>3. Within(Versions, FarVersions, OfDay(k))[x] = IF x \in FarVersions THEN OfDay(k)[x] ELSE 0
    BY DEF Within
  <2> QED
    BY <2>1, <2>2, <2>3
<1>4. Weigh(s, OfMoveDay(k)) = Weigh(s, Within(Versions, FarVersions, OfDay(k)))
  BY <1>3, WeighSame
<1> QED
  BY <1>2, <1>4

LEMMA FlagMovesAreFar ==
  ASSUME RunIsSound, FlagMoves PROVE \A k \in DOMAIN moves' : IsMoveDay(Prefix(Len(batches)), k)
<1> SUFFICES ASSUME NEW k \in DOMAIN moves' PROVE IsMoveDay(Prefix(Len(batches)), k)
  OBVIOUS
<1> DEFINE s == Staged("moves")
           far == FarMoves(s)
<1>1. phase = "moves" /\ phase \in Unread["moves"] /\ "moves" \in StageRoots
  BY DEF FlagMoves, Unread, StageRoots
<1>2. s \in Seq(Versions) /\ stage["moves"] \in SUBSET (DOMAIN batches)
  BY <1>1, StagedTyped
<1>3. far \in Seq(Versions)
  BY <1>2, FarMovesAre
<1>4. DOMAIN moves' = {DayKey(far[i]) : i \in DOMAIN far}
  BY DEF FlagMoves
<1>5. batches \in Seq(Seq(Versions)) /\ Len(batches) \in Nat /\ Len(batches) \in 0..Len(batches)
  BY StreamTypes
<1>6. \A x \in Versions : OfMoveDay(k)[x] \in Nat
  BY MoveWeights
<1>7. \A x \in Versions : OfMoveDay(k)[x] \in Int
  BY <1>6
<1>8. Weigh(s, OfMoveDay(k)) = Heaped(OfMoveDay(k), stage["moves"])
  BY <1>2, <1>5, <1>7, WeighStaged
<1> HIDE DEF s
<1>9. PICK i \in DOMAIN far : DayKey(far[i]) = k
  BY <1>4
<1> HIDE DEF far
<1>10. Weigh(far, OfDay(k)) # 0
  <2>1. far[i] \in {v \in Versions : DayKey(v) = k}
    BY <1>3, <1>9
  <2> QED
    BY <1>3, <2>1, NumberZero DEF OfDay
<1>11. Weigh(s, OfMoveDay(k)) # 0
  BY <1>2, <1>10, FarWeighs DEF far
<1>12. Heaped(OfMoveDay(k), stage["moves"]) <= Heaped(OfMoveDay(k), 1..Len(batches))
       /\ Heaped(OfMoveDay(k), stage["moves"]) \in Nat
       /\ Heaped(OfMoveDay(k), 1..Len(batches)) \in Nat
  <2> DEFINE B == 1..Len(batches)
             C == stage["moves"]
  <2>1. B \in SUBSET (DOMAIN batches) /\ C \in SUBSET B /\ C \in SUBSET (DOMAIN batches)
    BY <1>2, <1>5
  <2> HIDE DEF B, C
  <2>2. Heaped(OfMoveDay(k), C) <= Heaped(OfMoveDay(k), B)
    BY <1>5, <1>6, <2>1, HeapedMonotone
  <2>3. Heaped(OfMoveDay(k), C) \in Nat /\ Heaped(OfMoveDay(k), B) \in Nat
    BY <1>5, <1>6, <2>1, HeapedNat
  <2> QED
    BY <2>2, <2>3 DEF B, C
<1>13. Weigh(Prefix(Len(batches)), OfMoveDay(k)) = Heaped(OfMoveDay(k), 1..Len(batches))
  BY <1>5, <1>7, WeighPrefix
<1> QED
  BY <1>8, <1>11, <1>12, <1>13 DEF IsMoveDay

\* A day of a far move of the run is one of the run's move days.
LEMMA MoveDaysOfTheRun ==
  ASSUME RunIsSound, manifest <= target, NEW k, MovesHold(k), IsMoveDay(Prefix(target), k)
  PROVE  IsMoveDay(Prefix(manifest), k) \/ k \in DOMAIN moves
<1> SUFFICES ASSUME k \notin DOMAIN moves PROVE IsMoveDay(Prefix(manifest), k)
  OBVIOUS
<1> DEFINE g == OfMoveDay(k)
           s == FlattenSeq(SubSeq(batches, manifest + 1, target))
<1>1. batches \in Seq(Seq(Versions)) /\ Len(batches) \in Nat /\ manifest \in Nat /\ target \in 0..Len(batches)
      /\ manifest \in 0..Len(batches)
  BY StreamTypes DEF RunIsSound
<1>2. \A x \in Versions : g[x] \in Int
  BY MoveWeights
<1> HIDE DEF g
<1>3. s \in Seq(Versions) /\ Weigh(s, g) = Heaped(g, manifest+1..target)
  BY <1>1, <1>2, WeighStretch
<1>4. RunFar = FarMoves(s) /\ RunFar \in Seq(Versions)
  <2>1. RunFar = FarMoves(s)
    BY DEF RunFar
  <2> QED
    BY <1>3, <2>1, FarMovesAre
<1> HIDE DEF s
<1>5. Len(RunMoves(k)) = Weigh(RunFar, OfDay(k))
  <2> DEFINE I == {i \in DOMAIN RunFar : DayKey(RunFar[i]) = k}
  <2>1. RunMoves(k) = At(RunFar, I)
    BY DEF RunMoves, RunFar
  <2> HIDE DEF I
  <2>2. I = {i \in DOMAIN RunFar : DayKey(RunFar[i]) = k}
    BY DEF I
  <2>3. DayPart(At(RunFar, I), RunFar, k)
    BY <1>4, <2>2, OnDayIs
  <2> QED
    BY <2>1, <2>3 DEF DayPart
<1>6. Weigh(RunFar, OfDay(k)) = 0
  BY <1>5 DEF MovesHold
<1>7. Weigh(s, g) = 0
  BY <1>3, <1>4, <1>6, FarWeighs DEF g
<1>8. Heaped(g, 1..target) = Heaped(g, 1..manifest) + Heaped(g, manifest+1..target)
  <2> DEFINE B == 1..manifest
             C == manifest+1..target
  <2>1. B \in SUBSET (DOMAIN batches) /\ C \in SUBSET (DOMAIN batches) /\ B \cap C = {} /\ 1..target = B \cup C
    BY <1>1
  <2> HIDE DEF B, C
  <2>2. Heaped(g, B \cup C) = Heaped(g, B) + Heaped(g, C)
    BY <1>1, <1>2, <2>1, HeapedUnion
  <2> QED
    BY <2>1, <2>2 DEF B, C
<1>9. /\ Prefix(target) \in Seq(Versions) /\ Weigh(Prefix(target), g) = Heaped(g, 1..target)
      /\ Prefix(manifest) \in Seq(Versions) /\ Weigh(Prefix(manifest), g) = Heaped(g, 1..manifest)
  BY <1>1, <1>2, WeighPrefix
<1>10. Weigh(Prefix(manifest), g) \in Int /\ Weigh(Prefix(target), g) \in Int
  BY <1>2, <1>9, WeighInt
<1>11. Weigh(Prefix(target), g) # 0
  BY DEF IsMoveDay, g
<1>12. Heaped(g, 1..target) = Heaped(g, 1..manifest) + 0
  BY <1>3, <1>7, <1>8
<1>13. Weigh(Prefix(manifest), g) # 0
  BY <1>9, <1>10, <1>11, <1>12
<1> QED
  BY <1>13 DEF IsMoveDay, g

EditFlagDays == DOMAIN FlaggedDays(stores["minutes"])

LEMMA FlagDaysOfFilters ==
  /\ DOMAIN FlagDays = {"edits", "moves", "spread", "tags", "langs"}
  /\ FlagDays["edits"] = EditFlagDays /\ FlagDays["spread"] = CellDays /\ FlagDays["tags"] = TagDays
  /\ FlagDays["moves"] = DOMAIN moves
BY DEF FlagDays, EditFlagDays, CellDays, TagDays

LEMMA StoredTyped ==
  ASSUME RunIsSound, NEW r \in StreamRoots, IsAPrefix(r)
  PROVE  Stamp(r) \in 0..Len(batches) /\ Stored(r) = Prefix(Stamp(r)) /\ Stored(r) \in Seq(Versions)
<1>1. \A s : s = AppliedSeqOf(stores[r]) => s \in 0..Len(batches)
  BY PrefixStore
<1>2. Stamp(r) \in 0..Len(batches) /\ Stored(r) = Prefix(Stamp(r))
  BY <1>1 DEF Stamp, Stored
<1> QED
  BY <1>2, PrefixTyped

\* The stores flag no day that a prefix up to their stamps does not.
LEMMA StoreDaysAbove ==
  ASSUME StampsAreSound, NEW n \in 0..Len(batches), Stamp("minutes") <= n, NEW k
  PROVE  /\ k \in EditFlagDays => IsEditDay(Prefix(n), k)
         /\ k \in CellDays => IsSpreadDay(Prefix(n), k)
         /\ k \in TagDays => \E a, b \in 0..n : IsCoverDay(Prefix(a), Prefix(b), k)
<1>1. StoresAreSound /\ RunIsSound /\ Len(batches) \in Nat /\ \A r \in StreamRoots : IsAPrefix(r)
  <2>1. StoresAreSound /\ RunIsSound
    BY DEF StampsAreSound, StoresAreSound
  <2> QED
    BY <2>1, StreamTypes DEF StoresAreSound
<1> DEFINE vs == Stored("minutes")
           a == Stamp("minutes")
           ws == Prefix(n)
<1>2. \A r \in StreamRoots : Stamp(r) \in 0..Len(batches) /\ Stored(r) = Prefix(Stamp(r)) /\ Stored(r) \in Seq(Versions)
  BY <1>1, StoredTyped
<1>3. {"minutes", "cells", "tags"} = StreamRoots /\ ws \in Seq(Versions)
  BY <1>1, PrefixTyped DEF StreamRoots
<1>4. a \in 0..n /\ Stamp("cells") \in 0..n /\ Stamp("tags") \in 0..n
  BY <1>1, <1>2, <1>3 DEF StampsAreSound
<1>5. \A r \in StreamRoots : HoursGrow(Stored(r), ws) /\ \A root : PartsGrow(root, Stored(r), ws)
  <2> SUFFICES ASSUME NEW r \in StreamRoots
               PROVE  HoursGrow(Stored(r), ws) /\ \A root : PartsGrow(root, Stored(r), ws)
    OBVIOUS
  <2> DEFINE b == Stamp(r)
  <2>2. b \in 0..n
    BY <1>3, <1>4 DEF StreamRoots
  <2>3. b \in 0..Len(batches) /\ Stored(r) = Prefix(b)
    BY <1>2
  <2> HIDE DEF b
  <2>1. b \in 0..Len(batches) /\ n \in b..Len(batches) /\ Stored(r) = Prefix(b)
    BY <1>1, <2>2, <2>3
  <2> QED
    BY <1>1, <2>1, PrefixGrows
<1> HIDE DEF vs, ws
<1>6. vs \in Seq(Versions) /\ HoursGrow(vs, ws)
  BY <1>2, <1>3, <1>5 DEF vs
<1>7. k \in EditFlagDays => IsEditDay(ws, k)
  <2>1. k \in EditFlagDays <=> IsEditDay(vs, k)
    BY <1>1, FlaggedDaysAre DEF EditFlagDays, vs
  <2> QED
    BY <1>3, <1>6, <2>1, EditDayGrows
<1>8. k \in CellDays => IsSpreadDay(ws, k)
  <2> DEFINE xs == Stored("cells")
  <2>1. xs \in Seq(Versions) /\ HoursGrow(xs, ws) /\ PartsGrow("cells", xs, ws) /\ PartsGrow("cells", ws, ws)
    <3>1. xs \in Seq(Versions) /\ HoursGrow(xs, ws) /\ PartsGrow("cells", xs, ws)
      BY <1>2, <1>3, <1>5
    <3>2. PartsGrow("cells", ws, ws)
      <4>1. \A u, m, t : PartCount(ws, "cells", u, m, t) \in Nat
        BY <1>3, NumbersOfHour
      <4>2. \A u, m, t : PartCount(ws, "cells", u, m, t) <= PartCount(ws, "cells", u, m, t)
        BY <4>1
      <4> QED
        BY <4>2 DEF PartsGrow
    <3> QED
      BY <3>1, <3>2
  <2>2. vs = Stored("minutes") /\ xs = Stored("cells")
    BY DEF vs
  <2> HIDE DEF xs
  <2> SUFFICES ASSUME k \in CellDays PROVE IsSpreadDay(ws, k)
    OBVIOUS
  <2>3. PICK u, m : k = <<u, Day(m)>> /\ (HasEdit(vs, u, m) \/ HasEdit(xs, u, m)) /\ SpreadAt(vs, xs, u, m)
    BY <1>1, <2>2, CellDaysAre
  <2>4. SpreadAt(ws, ws, u, m)
    BY <1>3, <1>6, <2>1, <2>3, SpreadGrows
  <2>5. HasEdit(ws, u, m)
    BY <1>6, <2>1, <2>3 DEF HoursGrow
  <2> QED
    BY <2>3, <2>4, <2>5 DEF IsSpreadDay, SpreadAt
<1>9. k \in TagDays => \E b, c \in 0..n : IsCoverDay(Prefix(b), Prefix(c), k)
  <2> SUFFICES ASSUME k \in TagDays PROVE \E b, c \in 0..n : IsCoverDay(Prefix(b), Prefix(c), k)
    OBVIOUS
  <2>1. IsCoverDay(Stored("minutes"), Stored("tags"), k)
    BY <1>1, TagDaysAre
  <2>2. IsCoverDay(Prefix(Stamp("minutes")), Prefix(Stamp("tags")), k)
    BY <1>2, <1>3, <2>1
  <2> QED
    BY <1>4, <2>2
<1> QED
  BY <1>7, <1>8, <1>9 DEF ws

\* The stores flag every day of a prefix that they hold.
LEMMA StoreDaysBelow ==
  ASSUME StampsAreSound, NEW n \in 0..Len(batches), \A r \in StreamRoots : Quiet(r, n), NEW k
  PROVE  /\ IsEditDay(Prefix(n), k) => k \in EditFlagDays
         /\ IsSpreadDay(Prefix(n), k) => k \in CellDays
         /\ (\A r \in StreamRoots : Stamp(r) <= n) /\ IsCoverDay(Prefix(n), Prefix(n), k) => k \in TagDays
<1>1. StoresAreSound /\ RunIsSound /\ Len(batches) \in Nat /\ \A r \in StreamRoots : IsAPrefix(r)
  <2>1. StoresAreSound /\ RunIsSound
    BY DEF StampsAreSound, StoresAreSound
  <2> QED
    BY <2>1, StreamTypes DEF StoresAreSound
<1> DEFINE vs == Stored("minutes")
           ws == Prefix(n)
<1>2. \A r \in StreamRoots : Stamp(r) \in 0..Len(batches) /\ Stored(r) = Prefix(Stamp(r)) /\ Stored(r) \in Seq(Versions)
  BY <1>1, StoredTyped
<1>3. {"minutes", "cells", "tags"} = StreamRoots /\ ws \in Seq(Versions)
  BY <1>1, PrefixTyped DEF StreamRoots
<1>4. HoursGrow(ws, vs)
  BY <1>1, <1>3, QuietGrows
<1>5. PartsGrow("cells", ws, Stored("cells")) /\ PartsGrow("tags", ws, Stored("tags"))
  BY <1>1, <1>3, QuietGrows
<1>6. vs \in Seq(Versions) /\ Stored("cells") \in Seq(Versions) /\ Stored("tags") \in Seq(Versions)
  BY <1>2, <1>3
<1>7. IsEditDay(ws, k) => k \in EditFlagDays
  <2>1. k \in EditFlagDays <=> IsEditDay(vs, k)
    BY <1>1, FlaggedDaysAre DEF EditFlagDays
  <2> HIDE DEF vs, ws
  <2> QED
    BY <1>3, <1>4, <1>6, <2>1, EditDayGrows
<1>8. IsSpreadDay(ws, k) => k \in CellDays
  <2> DEFINE xs == Stored("cells")
  <2>1. xs \in Seq(Versions) /\ PartsGrow("cells", ws, xs) /\ vs = Stored("minutes") /\ xs = Stored("cells")
    BY <1>5, <1>6
  <2> HIDE DEF xs, vs, ws
  <2> SUFFICES ASSUME IsSpreadDay(ws, k) PROVE k \in CellDays
    OBVIOUS
  <2>2. PICK u, m : k = <<u, Day(m)>> /\ HasEdit(ws, u, m) /\ SpreadAt(ws, ws, u, m)
    BY DEF IsSpreadDay, SpreadAt
  <2>3. HasEdit(vs, u, m) /\ SpreadAt(vs, xs, u, m)
    BY <1>3, <1>4, <1>6, <2>1, <2>2, SpreadGrows
  <2> QED
    BY <1>1, <2>1, <2>2, <2>3, CellDaysAre
<1>9. ASSUME \A r \in StreamRoots : Stamp(r) <= n, IsCoverDay(ws, ws, k)
      PROVE  k \in TagDays
  <2> DEFINE xs == Stored("tags")
  <2>1. xs \in Seq(Versions) /\ PartsGrow("tags", ws, xs) /\ vs = Stored("minutes") /\ xs = Stored("tags")
    BY <1>5, <1>6
  <2>2. \A r \in StreamRoots : HoursGrow(Stored(r), ws) /\ \A root : PartsGrow(root, Stored(r), ws)
    <3> SUFFICES ASSUME NEW r \in StreamRoots
                 PROVE  HoursGrow(Stored(r), ws) /\ \A root : PartsGrow(root, Stored(r), ws)
      OBVIOUS
    <3> DEFINE b == Stamp(r)
    <3>1. b \in 0..Len(batches) /\ n \in b..Len(batches) /\ Stored(r) = Prefix(b)
      BY <1>1, <1>2, <1>9
    <3> HIDE DEF b
    <3> QED
      BY <1>1, <3>1, PrefixGrows
  <2>3. HoursGrow(vs, ws) /\ PartsGrow("tags", xs, ws)
    BY <1>3, <2>2
  <2> HIDE DEF xs, vs, ws
  <2>4. PICK u, m : k = <<u, Day(m)>> /\ (HasEdit(ws, u, m) \/ HasEdit(ws, u, m)) /\ Covers(ws, ws, u, m)
    BY <1>9 DEF IsCoverDay
  <2>5. HasEdit(vs, u, m) /\ Covers(vs, xs, u, m)
    BY <1>3, <1>4, <1>6, <2>1, <2>3, <2>4, CoverSame
  <2> QED
    BY <1>1, <2>1, <2>4, <2>5, TagDaysAre
<1> QED
  BY <1>7, <1>8, <1>9

-----------------------------------------------------------------------------
(* The flags that the history gets *)

Has(flag, k) == k \in DOMAIN Base /\ flag \in Base[k].flags

EditOf(n, k) == IsEditDay(Prefix(n), k)

SpreadOf(n, k) == IsSpreadDay(Prefix(n), k)

MoveOf(n, k) == IsMoveDay(Prefix(n), k)

CoverOf(n, p, k) == IsCoverDay(Prefix(n), Prefix(p), k)

\* The days of the first n batches have their flags.
HasDaysOf(n) ==
  \A k : /\ EditOf(n, k) => Has("edits", k)
         /\ SpreadOf(n, k) => Has("spread", k)
         /\ MoveOf(n, k) => Has("moves", k)
         /\ crashes = 0 /\ CoverOf(n, n, k) => Has("tags", k)

\* The flags are those of the first n batches, the moves those of the stream.
HasOnlyDaysOf(n) ==
  \A k : /\ Has("edits", k) => EditOf(n, k)
         /\ Has("spread", k) => SpreadOf(n, k)
         /\ Has("moves", k) => MoveOf(Len(batches), k)
         /\ Has("tags", k) => \E a, b \in 0..n : CoverOf(a, b, k)

LEMMA StreamDaysSame ==
  ASSUME batches' = batches
  PROVE  /\ \A n, k : /\ EditOf(n, k)' <=> EditOf(n, k)
                      /\ SpreadOf(n, k)' <=> SpreadOf(n, k)
                      /\ MoveOf(n, k)' <=> MoveOf(n, k)
         /\ \A n, p, k : CoverOf(n, p, k)' <=> CoverOf(n, p, k)
<1>1. \A n : Prefix(n)' = Prefix(n)
  BY DEF Prefix
<1> QED
  BY <1>1 DEF EditOf, SpreadOf, MoveOf, CoverOf

LEMMA FlagsWritten ==
  ASSUME HistoryIsSound, WriteHistory, NEW k, NEW flag \in {"edits", "spread", "moves", "tags"}
  PROVE  Has(flag, k)' <=> k \in DOMAIN Base' /\ (Has(flag, k) \/ k \in FlagDays[flag])
<1>1. RunIsSound /\ BaseRows \in Seq(DayRows)
  BY BaseRowsTyped DEF HistoryIsSound
<1>2. /\ k \in DOMAIN Base' <=> k \in DOMAIN Base \/ NewCount(k) # 0
      /\ k \in DOMAIN Base' => Base'[k].flags
           = (IF k \in DOMAIN Base THEN Base[k].flags ELSE NewDayFlags(k)) \cup DayFlags(FlagDays, k)
  BY <1>1, HistoryWritten
<1>3. flag \notin NewDayFlags(k)
  BY DEF NewDayFlags
<1>4. flag \in DayFlags(FlagDays, k) <=> k \in FlagDays[flag]
  BY FlagDaysOfFilters DEF DayFlags
<1> QED
  BY <1>2, <1>3, <1>4 DEF Has

\* A day of the target's prefix is in the new history.
LEMMA DayIsWritten ==
  ASSUME CountsAreSound, WriteHistory, NEW k, IsADay(Prefix(target), k)
  PROVE  k \in DOMAIN Base'
<1>1. HistoryIsSound /\ RunIsSound /\ BaseRows \in Seq(DayRows) /\ phase = "history"
  BY BaseRowsTyped DEF CountsAreSound, HistoryIsSound, WriteHistory
<1>2. HistoryCovers(manifest)
  BY <1>1 DEF CountsAreSound, HistoryMark
<1>3. target \in 0..Len(batches) /\ manifest \in 0..Len(batches) /\ \A x \in Versions : OfDay(k)[x] \in Nat
  BY <1>1, OnesAreNumbers DEF RunIsSound, OfDay
<1>4. Due(OfDay(k), target) = Due(OfDay(k), manifest) + NewCount(k) /\ NewCount(k) \in Nat
  BY <1>1, <1>3, DueStaged DEF NewCount
<1>5. Due(OfDay(k), target) # 0
  BY <1>1, <1>3, DayIsDue
<1>6. Due(OfDay(k), manifest) \in Nat
  BY <1>1, <1>3, DueIs
<1>7. WasCount(k) \in Nat /\ (k \in DOMAIN Base <=> WasCount(k) # 0) /\ WasCount(k) >= Due(OfDay(k), manifest)
  BY <1>2 DEF HistoryCovers
<1>8. k \in DOMAIN Base \/ NewCount(k) # 0
  BY <1>4, <1>5, <1>6, <1>7
<1> QED
  BY <1>1, <1>8, HistoryWritten

LEMMA HistoryHasDays ==
  ASSUME StampsAreSound, MovesAreTheRun, CountsAreSound, WriteHistory, HasDaysOf(manifest)
  PROVE  \A n : n = target => HasDaysOf(n)'
<1>1. /\ HistoryIsSound /\ RunIsSound /\ phase = "history" /\ target \in 0..Len(batches)
      /\ manifest <= target /\ batches' = batches /\ crashes' = crashes
  BY DEF CountsAreSound, HistoryIsSound, WriteHistory, RunIsSound, RunPhases
<1>2. Prefix(target) \in Seq(Versions)
  BY <1>1, PrefixTyped
<1>3. \A r \in StreamRoots : Quiet(r, target)
  BY <1>1 DEF StampsAreSound, StoresAreSound, RunPhases, Unread, StreamRoots
<1>4. crashes = 0 => \A r \in StreamRoots : Stamp(r) <= target
  BY <1>1 DEF StampsAreSound, RunPhases
<1>5. ASSUME NEW k
      PROVE  /\ EditOf(target, k) => Has("edits", k)'
             /\ SpreadOf(target, k) => Has("spread", k)'
             /\ MoveOf(target, k) => Has("moves", k)'
             /\ crashes = 0 /\ CoverOf(target, target, k) => Has("tags", k)'
  <2>1. IsADay(Prefix(target), k) => k \in DOMAIN Base'
    BY DayIsWritten
  <2>2. /\ EditOf(target, k) => k \in DOMAIN Base'
        /\ SpreadOf(target, k) => k \in DOMAIN Base'
        /\ MoveOf(target, k) => k \in DOMAIN Base'
        /\ CoverOf(target, target, k) => k \in DOMAIN Base'
    BY <1>2, <2>1, FilterDaysAreDays DEF EditOf, SpreadOf, MoveOf, CoverOf
  <2>3. \A flag \in {"edits", "spread", "moves", "tags"} :
          Has(flag, k)' <=> k \in DOMAIN Base' /\ (Has(flag, k) \/ k \in FlagDays[flag])
    BY <1>1, FlagsWritten
  <2>4. /\ EditOf(target, k) => k \in FlagDays["edits"]
        /\ SpreadOf(target, k) => k \in FlagDays["spread"]
        /\ crashes = 0 /\ CoverOf(target, target, k) => k \in FlagDays["tags"]
    BY <1>1, <1>3, <1>4, StoreDaysBelow, FlagDaysOfFilters DEF EditOf, SpreadOf, CoverOf
  <2>5. MoveOf(target, k) => Has("moves", k) \/ k \in FlagDays["moves"]
    <3>1. MovesHold(k)
      BY <1>1 DEF MovesAreTheRun
    <3>2. MoveOf(target, k) => MoveOf(manifest, k) \/ k \in DOMAIN moves
      BY <1>1, <3>1, MoveDaysOfTheRun DEF MoveOf
    <3> QED
      BY <3>2, FlagDaysOfFilters DEF HasDaysOf
  <2> QED
    BY <2>2, <2>3, <2>4, <2>5
<1> QED
  BY <1>1, <1>5, StreamDaysSame DEF HasDaysOf

LEMMA HistoryHasOnlyDays ==
  ASSUME StampsAreSound, MovesAreFar, HistoryIsSound, WriteHistory,
         NEW n \in 0..Len(batches), Stamp("minutes") <= n, HasOnlyDaysOf(n)
  PROVE  HasOnlyDaysOf(n)'
<1>1. batches' = batches
  BY DEF WriteHistory
<1>2. ASSUME NEW k
      PROVE  /\ Has("edits", k)' => EditOf(n, k)
             /\ Has("spread", k)' => SpreadOf(n, k)
             /\ Has("moves", k)' => MoveOf(Len(batches), k)
             /\ Has("tags", k)' => \E a, b \in 0..n : CoverOf(a, b, k)
  <2>1. \A flag \in {"edits", "spread", "moves", "tags"} : Has(flag, k)' => Has(flag, k) \/ k \in FlagDays[flag]
    BY FlagsWritten
  <2>2. /\ k \in FlagDays["edits"] => EditOf(n, k)
        /\ k \in FlagDays["spread"] => SpreadOf(n, k)
        /\ k \in FlagDays["tags"] => \E a, b \in 0..n : CoverOf(a, b, k)
    BY StoreDaysAbove, FlagDaysOfFilters DEF EditOf, SpreadOf, CoverOf
  <2>3. k \in FlagDays["moves"] => MoveOf(Len(batches), k)
    BY FlagDaysOfFilters DEF MovesAreFar, MoveOf
  <2> QED
    BY <2>1, <2>2, <2>3 DEF HasOnlyDaysOf
<1> QED
  BY <1>1, <1>2, StreamDaysSame DEF HasOnlyDaysOf

-----------------------------------------------------------------------------
(* Filter 1: the ranking flag *)

\* Who creates nothing in the import or in the whole stream.
Nobody(u) == ~Created(u, imported \o Prefix(Len(batches)))

RankingIsSound ==
  /\ \A u, a : Nobody(u) /\ a \in Aspects => TotalsOf(u)[a] = 0
  /\ \A k : Has("ranking", k) => ~IsADay(imported, k)
  /\ \A k \in DOMAIN Base : ~IsADay(imported, k) /\ Nobody(Uid(k)) => Has("ranking", k)

LEMMA NobodyStays ==
  ASSUME imported' = imported, batches' = batches
  PROVE  (\A u : Nobody(u)' <=> Nobody(u)) /\ \A k : IsADay(imported, k)' <=> IsADay(imported, k)
BY DEF Nobody, Created, Prefix, IsADay

LEMMA NobodyWeighs ==
  ASSUME RunIsSound, NEW u, Nobody(u), NEW a
  PROVE  /\ Weigh(imported, OfAspect(u, a)) = 0
         /\ phase \in {"ranking", "history"} => Weigh(Staged("history"), OfAspect(u, a)) = 0
<1> DEFINE w == imported \o Prefix(Len(batches))
           g == OfAspect(u, a)
           T == {v \in Versions : v.uid = u /\ a \in AspectsOf(v)}
           p == Len(batches)
<1>1. p \in Nat /\ p \in 0..p /\ target \in 0..p /\ manifest \in 0..p /\ 0 \in 0..p
  BY StreamTypes DEF RunIsSound
<1>2. \A x \in Versions : g[x] \in Nat
  BY OfAreNumbers
<1>3. g = Ones(Versions, T)
  BY DEF OfAspect
<1>4. w \in Seq(Versions) /\ Weigh(w, g) = Due(g, p)
  BY <1>1, <1>2, DueIs
<1>5. \A i \in DOMAIN w : w[i] \notin T
  <2> SUFFICES ASSUME NEW i \in DOMAIN w, w[i].uid = u, a \in AspectsOf(w[i]) PROVE FALSE
    OBVIOUS
  <2>1. w[i].action = "create"
    BY DEF AspectsOf
  <2> QED
    BY <2>1 DEF Nobody, Created
<1> HIDE DEF w, g, T
<1>6. Due(g, p) = 0
  BY <1>3, <1>4, <1>5, NumberZero
<1>7. \A n \in 0..p : Due(g, n) \in Nat /\ Due(g, n) <= Due(g, p)
  <2>1. \A n \in 0..Len(batches) : Due(g, n) \in Nat
    BY <1>2, DueIs
  <2>2. \A m \in 0..Len(batches) : Due(g, m) <= Due(g, Len(batches))
    BY <1>1, <1>2, DueIs
  <2> QED
    BY <2>1, <2>2
<1>8. Due(g, 0) = Weigh(imported, g)
  BY <1>2, DueIs
<1>9. Weigh(imported, g) = 0
  BY <1>1, <1>6, <1>7, <1>8
<1>10. ASSUME phase \in {"ranking", "history"} PROVE Weigh(Staged("history"), g) = 0
  <2>1. Due(g, target) = Due(g, manifest) + Weigh(Staged("history"), g) /\ Weigh(Staged("history"), g) \in Nat
    BY <1>2, <1>10, DueStaged
  <2>2. Due(g, target) <= 0 /\ Due(g, target) \in Nat /\ Due(g, manifest) \in Nat
    BY <1>1, <1>6, <1>7
  <2> QED
    BY <2>1, <2>2
<1> QED
  BY <1>9, <1>10 DEF g

\* The import's days are those of its versions, and none has a flag.
LEMMA ImportedDays ==
  ASSUME RunIsSound, Import
  PROVE  \A k \in DOMAIN Base' : IsADay(imported, k) /\ Base'[k].flags = {}
<1>1. history = Absent /\ imported \in Seq(Versions) /\ imported' = imported
  BY StreamTypes DEF Import, RunIsSound
<1> DEFINE base == Base'
<1>2. \A k \in DOMAIN base : IsADay(imported, k) /\ base[k].flags = {}
  <2>1. CASE imported = <<>>
    <3>1. BaseRows' = <<>>
      BY <1>1, <2>1 DEF Import, BaseRows
    <3>2. DOMAIN base = {}
      BY <3>1 DEF Base
    <3> HIDE DEF base
    <3> QED
      BY <3>2
  <2>2. CASE imported # <<>>
    <3> DEFINE files == StageFiles(imported)
    <3>1. files \in Seq(Seq(Versions)) /\ FlattenSeq(files) = imported
      BY <1>1, StageFilesKeep
    <3> HIDE DEF files
    <3>2. history' = RowsOf(files)
      BY <2>2 DEF Import, files
    <3>3. RowsOf(files) \in Seq(DayRows)
      BY <3>1, RowsOfAre
    <3>4. BaseRows' = RowsOf(files)
      BY <3>2, <3>3, RowsAreThere DEF BaseRows
    <3>5. base = BaseOf(RowsOf(files))
      <4>1. base = BaseOf(BaseRows')
        BY DEF Base, BaseOf
      <4> QED
        BY <3>4, <4>1
    <3> HIDE DEF base
    <3> SUFFICES ASSUME NEW k \in DOMAIN base PROVE IsADay(imported, k) /\ base[k].flags = {}
      OBVIOUS
    <3>6. Weigh(imported, OfDay(k)) # 0 /\ base[k].flags = {}
      BY <3>1, <3>5, BaseOfRows
    <3>7. \E i \in DOMAIN imported : imported[i] \in {v \in Versions : DayKey(v) = k}
      BY <1>1, <3>6, NumberZero DEF OfDay
    <3> QED
      BY <3>6, <3>7 DEF IsADay
  <2> QED
    BY <2>1, <2>2
<1> QED
  BY <1>2

LEMMA ImportRanks ==
  ASSUME RunIsSound, Import PROVE RankingIsSound'
<1>1. history = Absent /\ totals = Absent /\ imported \in Seq(Versions) /\ imported' = imported /\ batches' = batches
  BY StreamTypes DEF Import, RunIsSound
<1> DEFINE base == Base'
<1>2. \A k \in DOMAIN base : IsADay(imported, k) /\ base[k].flags = {}
  BY ImportedDays
<1>3. \A k : Has("ranking", k)' => k \in DOMAIN base /\ "ranking" \in base[k].flags
  BY DEF Has
<1>4. ASSUME NEW u, NEW a \in Aspects, Nobody(u) PROVE TotalsOf(u)'[a] = 0
  <2>1. CASE imported = <<>>
    BY <1>1, <2>1 DEF Import, TotalsOf, NoTotals
  <2>2. CASE imported # <<>>
    <3> DEFINE t == Totals(imported)
    <3>1. totals' = t
      BY <2>2 DEF Import
    <3>2. Weigh(imported, OfAspect(u, a)) = 0
      BY <1>4, NobodyWeighs
    <3>3. u \in DOMAIN t => t[u] = [b \in Aspects |-> Weigh(imported, OfAspect(u, b))]
      BY <1>1, TotalsAre
    <3> HIDE DEF t
    <3>4. u \in DOMAIN t => t[u][a] = 0
      BY <3>2, <3>3
    <3> QED
      BY <3>1, <3>4 DEF TotalsOf, NoTotals
  <2> QED
    BY <2>1, <2>2
<1>5. (\A u : Nobody(u)' <=> Nobody(u)) /\ \A k : IsADay(imported, k)' <=> IsADay(imported, k)
  BY <1>1, NobodyStays
<1>6. /\ \A u, a : Nobody(u)' /\ a \in Aspects => TotalsOf(u)'[a] = 0
      /\ \A k : Has("ranking", k)' => ~IsADay(imported, k)'
      /\ \A k \in DOMAIN Base' : ~IsADay(imported, k)' /\ Nobody(Uid(k))' => Has("ranking", k)'
  BY <1>2, <1>3, <1>4, <1>5
<1> QED
  BY <1>6 DEF RankingIsSound

LEMMA RankingRanks ==
  ASSUME RunIsSound, WriteRanking, RankingIsSound PROVE RankingIsSound'
<1>1. phase = "ranking" /\ imported' = imported /\ batches' = batches /\ history' = history
  BY DEF WriteRanking
<1>2. Base' = Base /\ \A k : Has("ranking", k)' <=> Has("ranking", k)
  BY <1>1 DEF Base, BaseRows, Has
<1>3. (\A u : Nobody(u)' <=> Nobody(u)) /\ \A k : IsADay(imported, k)' <=> IsADay(imported, k)
  BY <1>1, NobodyStays
<1>4. ASSUME NEW u, NEW a \in Aspects, Nobody(u) PROVE TotalsOf(u)'[a] = 0
  <2>1. TotalsOf(u)[a] = 0
    BY <1>4 DEF RankingIsSound
  <2>2. CASE stage["history"] = {}
    BY <2>1, <2>2 DEF WriteRanking, TotalsOf
  <2>3. CASE stage["history"] # {}
    <3> DEFINE delta == Totals(Staged("history"))
               at(w, b) == TotalsOf(w)[b] + (IF w \in DOMAIN delta THEN delta[w][b] ELSE 0)
    <3>1. totals' = [w \in Users \cup DOMAIN delta |-> [b \in Aspects |-> at(w, b)]]
      BY <2>3 DEF WriteRanking
    <3>2. Staged("history") \in Seq(Versions)
      BY <1>1, HistoryStaged
    <3>3. u \in DOMAIN delta => delta[u] = [b \in Aspects |-> Weigh(Staged("history"), OfAspect(u, b))]
      BY <3>2, TotalsAre
    <3>4. Weigh(Staged("history"), OfAspect(u, a)) = 0
      BY <1>1, <1>4, NobodyWeighs
    <3> HIDE DEF delta
    <3>5. at(u, a) = 0
      BY <2>1, <3>3, <3>4
    <3> HIDE DEF at
    <3>6. u \in DOMAIN totals' => totals'[u][a] = 0
      BY <3>1, <3>5
    <3> QED
      BY <3>6 DEF TotalsOf, NoTotals
  <2> QED
    BY <2>2, <2>3
<1>5. /\ \A u, a : Nobody(u)' /\ a \in Aspects => TotalsOf(u)'[a] = 0
      /\ \A k : Has("ranking", k)' => ~IsADay(imported, k)'
      /\ \A k \in DOMAIN Base' : ~IsADay(imported, k)' /\ Nobody(Uid(k))' => Has("ranking", k)'
  BY <1>2, <1>3, <1>4 DEF RankingIsSound
<1> QED
  BY <1>5 DEF RankingIsSound

\* Who created nothing ranks 0, below the threshold.
LEMMA NobodyIsLow ==
  ASSUME CountsAreSound, RankingIsSound, phase = "history", NEW k, NewCount(k) # 0, Nobody(Uid(k))
  PROVE  NewDayFlags(k) = {"ranking"}
<1> DEFINE u == Uid(k)
<1>1. RunIsSound /\ Staged("history") \in Seq(Versions) /\ target \in 0..Len(batches) /\ manifest \in 0..Len(batches)
  BY HistoryStaged DEF CountsAreSound, HistoryIsSound, RunIsSound
<1>2. TotalsCover(target)
  BY DEF CountsAreSound, TotalsMark
<1>3. PICK i \in DOMAIN Staged("history") : Staged("history")[i] \in {v \in Versions : DayKey(v) = k}
  BY <1>1, NumberZero DEF NewCount, OfDay
<1>4. Staged("history")[i].uid = u
  BY <1>3 DEF DayKey, Uid
<1>5. Weigh(Staged("history"), OfUser(u)) # 0
  <2>1. Staged("history")[i] \in {v \in Versions : v.uid = u}
    BY <1>3, <1>4
  <2> QED
    BY <1>1, <2>1, NumberZero DEF OfUser
<1>6. Due(OfUser(u), target) # 0
  <2>1. \A x \in Versions : OfUser(u)[x] \in Nat
    BY OfAreNumbers
  <2>2. Due(OfUser(u), target) = Due(OfUser(u), manifest) + Weigh(Staged("history"), OfUser(u))
        /\ Weigh(Staged("history"), OfUser(u)) \in Nat
    BY <1>1, <2>1, DueStaged
  <2>3. Due(OfUser(u), manifest) \in Nat
    BY <1>1, <2>1, DueIs
  <2> QED
    BY <1>5, <2>2, <2>3
<1>7. u \in Users /\ TotalsTyped
  BY <1>2, <1>6 DEF TotalsCover
<1>8. totals # Absent /\ u \in DOMAIN totals
  BY <1>7 DEF Users
<1>9. PICK U \in SUBSET Uids : IsFiniteSet(U) /\ totals \in [U -> [Aspects -> Nat]]
  BY <1>7, <1>8 DEF TotalsTyped
<1>10. \A a \in Aspects : totals[u][a] = 0
  <2>1. TotalsOf(u) = totals[u]
    BY <1>8 DEF TotalsOf
  <2> QED
    BY <2>1 DEF RankingIsSound
<1>11. u \in U
  BY <1>8, <1>9
<1> HIDE DEF u
<1>12. Ranking(totals, u) = 0
  BY <1>9, <1>10, <1>11, RankingIs
<1> QED
  BY <1>12, RankingIsInPoints DEF NewDayFlags, u

LEMMA HistoryRanks ==
  ASSUME CountsAreSound, RankingIsSound, WriteHistory PROVE RankingIsSound'
<1>1. /\ phase = "history" /\ imported' = imported /\ batches' = batches /\ totals' = totals
      /\ HistoryIsSound /\ RunIsSound /\ BaseRows \in Seq(DayRows)
  BY BaseRowsTyped DEF WriteHistory, CountsAreSound, HistoryIsSound
<1>2. (\A u : Nobody(u)' <=> Nobody(u)) /\ \A k : IsADay(imported, k)' <=> IsADay(imported, k)
  BY <1>1, NobodyStays
<1>3. \A k : k \in DOMAIN Base' <=> k \in DOMAIN Base \/ NewCount(k) # 0
  BY <1>1, HistoryWritten
<1>4. \A k \in DOMAIN Base' : Base'[k].flags
        = (IF k \in DOMAIN Base THEN Base[k].flags ELSE NewDayFlags(k)) \cup DayFlags(FlagDays, k)
  BY <1>1, HistoryWritten
<1>5. \A k : "ranking" \notin DayFlags(FlagDays, k)
  BY FlagDaysOfFilters DEF DayFlags
<1>6. \A k : IsADay(imported, k) => k \in DOMAIN Base
  <2> SUFFICES ASSUME NEW k, IsADay(imported, k) PROVE k \in DOMAIN Base
    OBVIOUS
  <2>1. HistoryCovers(manifest) /\ manifest \in 0..Len(batches)
    BY <1>1 DEF CountsAreSound, HistoryMark, RunIsSound
  <2>2. \A x \in Versions : OfDay(k)[x] \in Nat
    BY OnesAreNumbers DEF OfDay
  <2>3. Due(OfDay(k), manifest) # 0 /\ Due(OfDay(k), manifest) \in Nat
    BY <1>1, <2>1, <2>2, DayIsDue, DueIs
  <2>4. WasCount(k) \in Nat /\ (k \in DOMAIN Base <=> WasCount(k) # 0) /\ WasCount(k) >= Due(OfDay(k), manifest)
    BY <2>1 DEF HistoryCovers
  <2> QED
    BY <2>3, <2>4
<1>7. \A u, a : Nobody(u)' /\ a \in Aspects => TotalsOf(u)'[a] = 0
  BY <1>1, <1>2 DEF RankingIsSound, TotalsOf
<1>8. ASSUME NEW k, Has("ranking", k)' PROVE ~IsADay(imported, k)
  <2>1. k \in DOMAIN Base' /\ "ranking" \in Base'[k].flags
    BY <1>8 DEF Has
  <2>2. CASE k \in DOMAIN Base
    <3>1. Has("ranking", k)
      BY <1>4, <1>5, <2>1, <2>2 DEF Has
    <3> QED
      BY <3>1 DEF RankingIsSound
  <2>3. CASE k \notin DOMAIN Base
    BY <1>6, <2>3
  <2> QED
    BY <2>2, <2>3
<1>9. ASSUME NEW k \in DOMAIN Base', ~IsADay(imported, k), Nobody(Uid(k)) PROVE Has("ranking", k)'
  <2>1. CASE k \in DOMAIN Base
    <3>1. Has("ranking", k)
      BY <1>9, <2>1 DEF RankingIsSound
    <3> QED
      BY <1>4, <1>9, <2>1, <3>1 DEF Has
  <2>2. CASE k \notin DOMAIN Base
    <3>1. NewDayFlags(k) = {"ranking"}
      BY <1>1, <1>3, <1>9, <2>2, NobodyIsLow
    <3> QED
      BY <1>4, <1>9, <2>2, <3>1 DEF Has
  <2> QED
    BY <2>1, <2>2
<1>10. /\ \A k : Has("ranking", k)' => ~IsADay(imported, k)'
       /\ \A k \in DOMAIN Base' : ~IsADay(imported, k)' /\ Nobody(Uid(k))' => Has("ranking", k)'
  BY <1>2, <1>8, <1>9
<1> QED
  BY <1>7, <1>10 DEF RankingIsSound

-----------------------------------------------------------------------------
(* The flags between the steps of a run *)

Reach == IF Stamp("minutes") <= manifest THEN manifest ELSE Stamp("minutes")

FlagsAreSound ==
  /\ StampsAreSound /\ MovesAreTheRun /\ CountsAreSound
  /\ MovesAreFar
  /\ RankingIsSound
  /\ \A n : n = HistoryMark => HasDaysOf(n)
  /\ \A n : n = Reach => HasOnlyDaysOf(n)

LEMMA NoDaysBefore ==
  \A k : ~EditOf(0, k) /\ ~SpreadOf(0, k) /\ ~MoveOf(0, k) /\ ~CoverOf(0, 0, k)
<1>1. Prefix(0) = <<>>
  <2>1. SubSeq(batches, 1, 0) = <<>>
    OBVIOUS
  <2> QED
    BY <2>1, FlattenEmpty DEF Prefix
<1>2. <<>> \in Seq(Versions) /\ \A k : ~IsADay(<<>>, k)
  BY DEF IsADay
<1> QED
  BY <1>1, <1>2, FilterDaysAreDays DEF EditOf, SpreadOf, MoveOf, CoverOf

LEMMA HasStays ==
  ASSUME history' = history PROVE \A flag, k : Has(flag, k)' <=> Has(flag, k)
<1>1. Base' = Base
  BY DEF Base, BaseRows
<1> QED
  BY <1>1 DEF Has

LEMMA HasDaysStays ==
  ASSUME UNCHANGED <<batches, history, crashes>> PROVE \A n : HasDaysOf(n) => HasDaysOf(n)'
BY HasStays, StreamDaysSame DEF HasDaysOf

\* What holds of more batches holds of fewer, but for the shares after a crash.
LEMMA HasDaysLess ==
  ASSUME RunIsSound, UNCHANGED <<batches, history>>, crashes' # 0,
         NEW n \in 0..Len(batches), NEW m \in 0..n, HasDaysOf(n)
  PROVE  HasDaysOf(m)'
<1>1. /\ m \in 0..Len(batches) /\ n \in m..Len(batches)
      /\ Prefix(m) \in Seq(Versions) /\ Prefix(n) \in Seq(Versions)
  <2>1. Len(batches) \in Nat
    BY StreamTypes
  <2>2. m \in 0..Len(batches) /\ n \in m..Len(batches)
    BY <2>1
  <2> QED
    BY <2>2, PrefixTyped
<1>2. HoursGrow(Prefix(m), Prefix(n)) /\ PartsGrow("cells", Prefix(m), Prefix(n))
  BY <1>1, PrefixGrows
<1>3. ASSUME NEW k
      PROVE  /\ EditOf(m, k) => Has("edits", k)
             /\ SpreadOf(m, k) => Has("spread", k)
             /\ MoveOf(m, k) => Has("moves", k)
  <2>1. EditOf(m, k) => EditOf(n, k)
    BY <1>1, <1>2, EditDayGrows DEF EditOf
  <2>2. SpreadOf(m, k) => SpreadOf(n, k)
    BY <1>1, <1>2, SpreadDayGrows DEF SpreadOf
  <2>3. MoveOf(m, k) => MoveOf(n, k)
    BY <1>1, MoveDayGrows DEF MoveOf
  <2> QED
    BY <2>1, <2>2, <2>3 DEF HasDaysOf
<1> QED
  BY <1>3, HasStays, StreamDaysSame DEF HasDaysOf

\* Fewer batches have no other days.
LEMMA OnlyDaysOfMore ==
  ASSUME RunIsSound, UNCHANGED <<batches, history>>,
         NEW n \in 0..Len(batches), NEW p \in n..Len(batches), HasOnlyDaysOf(n)
  PROVE  HasOnlyDaysOf(p)'
<1>1. Len(batches) \in Nat /\ p \in 0..Len(batches) /\ 0..n \subseteq 0..p
  BY StreamTypes
<1>2. Prefix(p) \in Seq(Versions) /\ Prefix(n) \in Seq(Versions)
  BY <1>1, PrefixTyped
<1>3. HoursGrow(Prefix(n), Prefix(p)) /\ PartsGrow("cells", Prefix(n), Prefix(p))
  BY <1>1, PrefixGrows
<1>4. ASSUME NEW k
      PROVE  /\ Has("edits", k) => EditOf(p, k)
             /\ Has("spread", k) => SpreadOf(p, k)
             /\ Has("moves", k) => MoveOf(Len(batches), k)
             /\ Has("tags", k) => \E a, b \in 0..p : CoverOf(a, b, k)
  <2>1. EditOf(n, k) => EditOf(p, k)
    BY <1>2, <1>3, EditDayGrows DEF EditOf
  <2>2. SpreadOf(n, k) => SpreadOf(p, k)
    BY <1>2, <1>3, SpreadDayGrows DEF SpreadOf
  <2>3. (\E a, b \in 0..n : CoverOf(a, b, k)) => \E a, b \in 0..p : CoverOf(a, b, k)
    BY <1>1
  <2> QED
    BY <2>1, <2>2, <2>3 DEF HasOnlyDaysOf
<1> QED
  BY <1>4, HasStays, StreamDaysSame DEF HasOnlyDaysOf

\* Without staged counts, the manifest's days are the target's.
LEMMA NothingNew ==
  ASSUME RunIsSound, phase = "ranking", stage["history"] = {}, UNCHANGED <<batches, history, crashes>>,
         HasDaysOf(manifest)
  PROVE  \A n : n = target => HasDaysOf(n)'
<1>1. /\ target \in 0..Len(batches) /\ manifest \in 0..Len(batches) /\ Len(batches) \in Nat
      /\ target \in manifest..Len(batches)
      /\ Prefix(target) \in Seq(Versions) /\ Prefix(manifest) \in Seq(Versions)
  <2>1. target \in 0..Len(batches) /\ manifest \in 0..Len(batches) /\ Len(batches) \in Nat /\ manifest < target
    BY StreamTypes DEF RunIsSound, RunPhases
  <2>2. target \in manifest..Len(batches)
    BY <2>1
  <2> QED
    BY <2>1, <2>2, PrefixTyped
<1>2. /\ HoursGrow(Prefix(target), Prefix(manifest))
      /\ \A root : PartsGrow(root, Prefix(target), Prefix(manifest))
      /\ \A k : IsMoveDay(Prefix(target), k) <=> IsMoveDay(Prefix(manifest), k)
  BY NothingStaged
<1>3. /\ HoursGrow(Prefix(manifest), Prefix(target))
      /\ \A root : PartsGrow(root, Prefix(manifest), Prefix(target))
  BY <1>1, PrefixGrows
<1>4. ASSUME NEW k
      PROVE  /\ EditOf(target, k) => EditOf(manifest, k)
             /\ SpreadOf(target, k) => SpreadOf(manifest, k)
             /\ MoveOf(target, k) => MoveOf(manifest, k)
             /\ CoverOf(target, target, k) => CoverOf(manifest, manifest, k)
  <2> DEFINE vs == Prefix(target)
             ws == Prefix(manifest)
  <2>1. /\ vs \in Seq(Versions) /\ ws \in Seq(Versions) /\ HoursGrow(vs, ws) /\ HoursGrow(ws, vs)
        /\ PartsGrow("cells", vs, ws) /\ PartsGrow("tags", vs, ws) /\ PartsGrow("tags", ws, vs)
    BY <1>1, <1>2, <1>3
  <2>2. MoveOf(target, k) => MoveOf(manifest, k)
    BY <1>2 DEF MoveOf
  <2> HIDE DEF vs, ws
  <2>3. IsEditDay(vs, k) => IsEditDay(ws, k)
    BY <2>1, EditDayGrows
  <2>4. IsSpreadDay(vs, k) => IsSpreadDay(ws, k)
    BY <2>1, SpreadDayGrows
  <2>5. IsCoverDay(vs, vs, k) => IsCoverDay(ws, ws, k)
    <3>1. \A u, m : (Covers(vs, vs, u, m) <=> Covers(ws, ws, u, m)) /\ (HasEdit(vs, u, m) <=> HasEdit(ws, u, m))
      BY <2>1, CoverSame
    <3> QED
      BY <3>1 DEF IsCoverDay
  <2> QED
    BY <2>2, <2>3, <2>4, <2>5 DEF EditOf, SpreadOf, CoverOf, vs, ws
<1> QED
  BY <1>4, HasStays, StreamDaysSame DEF HasDaysOf

LEMMA ReachGrows ==
  ASSUME StampsAreSound, [Next]_vars
  PROVE  Reach \in 0..Len(batches) /\ Reach' \in Reach..Len(batches) /\ Stamp("minutes") <= Reach
         /\ (UNCHANGED <<stores, manifest>> => Reach' = Reach)
<1>1. StoresAreSound /\ RunIsSound /\ StoresAreSound' /\ RunIsSound' /\ Len(batches) \in Nat /\ batches' = batches
  <2>1. StoresAreSound /\ RunIsSound
    BY DEF StampsAreSound, StoresAreSound
  <2> QED
    BY <2>1, StoresAreSoundStep, StreamTypes, StoresSteps DEF StoresAreSound
<1>2. "minutes" \in StreamRoots /\ IsAPrefix("minutes")
  BY <1>1 DEF StoresAreSound, StreamRoots
<1>3. Stamp("minutes") \in 0..Len(batches) /\ manifest \in 0..Len(batches) /\ target \in 0..Len(batches)
      /\ manifest' \in 0..Len(batches)
  BY <1>1, <1>2, StoredTyped DEF RunIsSound
<1>4. Reach \in 0..Len(batches) /\ Stamp("minutes") <= Reach /\ manifest <= Reach
  BY <1>1, <1>3 DEF Reach
<1>5. Stamp("minutes")' \in {Stamp("minutes"), target} /\ Stamp("minutes") <= Stamp("minutes")'
  <2>1. CASE \E r \in StreamRoots : \E next \in RunPhases : Fold(r, next)
    <3>1. PICK r \in StreamRoots : \E next \in RunPhases : Fold(r, next)
      BY <2>1
    <3>2. /\ Stamp(r) <= Stamp(r)' /\ Stamp(r)' \in {Stamp(r), target}
          /\ \A q \in StreamRoots \ {r} : Stamp(q)' = Stamp(q)
      BY <1>1, <3>1, FoldStamps
    <3> QED
      BY <1>2, <1>3, <3>2
  <2>2. CASE FoldLangs
    <3>1. stores'["minutes"] = stores["minutes"]
      BY <1>1, <2>2 DEF FoldLangs, Fold, StoresAreSound, Roots
    <3> QED
      BY <1>3, <3>1 DEF Stamp
  <2>3. CASE UNCHANGED stores
    BY <1>3, <2>3 DEF Stamp
  <2> QED
    BY <2>1, <2>2, <2>3, StoresSteps
<1>6. manifest <= manifest'
  <2>1. manifest' = manifest \/ WriteManifest \/ StartRun
    BY StoresSteps
  <2>2. CASE WriteManifest
    <3>1. manifest' = target /\ phase \in RunPhases
      BY <2>2 DEF WriteManifest, RunPhases
    <3> QED
      BY <1>1, <1>3, <3>1 DEF RunIsSound
  <2>3. CASE StartRun
    BY <1>3, <2>3 DEF StartRun
  <2> QED
    BY <1>3, <2>1, <2>2, <2>3
<1> DEFINE s == Stamp("minutes")
           t == Stamp("minutes")'
           p == Len(batches)
<1>7. s \in 0..p /\ t \in 0..p /\ s <= t /\ manifest \in 0..p /\ manifest' \in 0..p /\ manifest <= manifest' /\ p \in Nat
  BY <1>1, <1>3, <1>5, <1>6
<1>8. Reach = (IF s <= manifest THEN manifest ELSE s) /\ Reach' = (IF t <= manifest' THEN manifest' ELSE t)
  BY DEF Reach
<1> HIDE DEF s, t, p
<1>9. Reach' \in Reach..p
  BY <1>7, <1>8
<1>10. UNCHANGED <<stores, manifest>> => Reach' = Reach
  BY DEF Reach, Stamp
<1> QED
  BY <1>4, <1>9, <1>10 DEF p

LEMMA MovesAreFarStep ==
  ASSUME RunIsSound, MovesAreFar, [Next]_vars PROVE MovesAreFar'
<1>1. batches' = batches
  BY DEF Next, vars, Import, StartRun, Scan, FoldMinutes, FoldCells, FoldTags, FoldLangs, Fold, FlagMoves,
         WriteRanking, WriteHistory, WriteSuspects, WriteManifest, Crash, Done
<1>2. FlagMoves \/ moves' = moves \/ moves' = NoDays
  BY DEF Next, vars, Import, StartRun, Scan, FoldMinutes, FoldCells, FoldTags, FoldLangs, Fold,
         WriteRanking, WriteHistory, WriteSuspects, WriteManifest, Crash, Done
<1>3. \A k \in DOMAIN moves' : IsMoveDay(Prefix(Len(batches)), k)
  <2>1. CASE FlagMoves
    BY <2>1, FlagMovesAreFar
  <2>2. CASE moves' = moves
    BY <2>2 DEF MovesAreFar
  <2>3. CASE moves' = NoDays
    BY <2>3 DEF NoDays
  <2> QED
    BY <1>2, <2>1, <2>2, <2>3
<1>4. Prefix(Len(batches))' = Prefix(Len(batches))
  BY <1>1 DEF Prefix
<1> QED
  BY <1>3, <1>4 DEF MovesAreFar

LEMMA RankingStays ==
  ASSUME RankingIsSound, UNCHANGED <<imported, batches, totals, history>> PROVE RankingIsSound'
<1>1. (\A u : Nobody(u)' <=> Nobody(u)) /\ \A k : IsADay(imported, k)' <=> IsADay(imported, k)
  BY NobodyStays
<1>2. Base' = Base /\ \A k : Has("ranking", k)' <=> Has("ranking", k)
  BY HasStays DEF Base, BaseRows
<1>3. \A u : TotalsOf(u)' = TotalsOf(u)
  BY DEF TotalsOf
<1>4. /\ \A u, a : Nobody(u)' /\ a \in Aspects => TotalsOf(u)'[a] = 0
      /\ \A k : Has("ranking", k)' => ~IsADay(imported, k)'
      /\ \A k \in DOMAIN Base' : ~IsADay(imported, k)' /\ Nobody(Uid(k))' => Has("ranking", k)'
  BY <1>1, <1>2, <1>3 DEF RankingIsSound
<1> QED
  BY <1>4 DEF RankingIsSound

LEMMA FlagsAreSoundInit == Init => FlagsAreSound
<1> SUFFICES ASSUME Init PROVE FlagsAreSound
  OBVIOUS
<1>1. StampsAreSound /\ MovesAreTheRun /\ CountsAreSound
  BY StampsAreSoundInit, MovesAreTheRunInit, CountsAreSoundInit
<1>2. MovesAreFar
  BY DEF Init, MovesAreFar, NoDays
<1>3. DOMAIN Base = {} /\ \A flag, k : ~Has(flag, k)
  <2>1. BaseRows = <<>>
    BY DEF Init, BaseRows
  <2>2. DOMAIN Base = {}
    BY <2>1 DEF Base
  <2> QED
    BY <2>2 DEF Has
<1>4. RankingIsSound
  <2>1. \A u, a : a \in Aspects => TotalsOf(u)[a] = 0
    BY DEF Init, TotalsOf, NoTotals
  <2> QED
    BY <1>3, <2>1 DEF RankingIsSound
<1>5. \A n : n = HistoryMark => HasDaysOf(n)
  <2>1. HistoryMark = 0
    BY DEF Init, HistoryMark
  <2> QED
    BY <2>1, NoDaysBefore DEF HasDaysOf
<1>6. \A n : HasOnlyDaysOf(n)
  BY <1>3 DEF HasOnlyDaysOf
<1> QED
  BY <1>1, <1>2, <1>4, <1>5, <1>6 DEF FlagsAreSound

LEMMA FlagsAreSoundStep == FlagsAreSound /\ [Next]_vars => FlagsAreSound'
<1> SUFFICES ASSUME FlagsAreSound, [Next]_vars PROVE FlagsAreSound'
  OBVIOUS
<1>1. /\ StampsAreSound /\ MovesAreTheRun /\ CountsAreSound /\ MovesAreFar /\ RankingIsSound
      /\ HistoryIsSound /\ RunIsSound
  BY DEF FlagsAreSound, CountsAreSound, HistoryIsSound
<1>2. (StampsAreSound /\ MovesAreTheRun /\ CountsAreSound)' /\ MovesAreFar'
  BY <1>1, StampsAreSoundStep, MovesAreTheRunStep, CountsAreSoundStep, MovesAreFarStep
<1>3. /\ Reach \in 0..Len(batches) /\ Reach' \in Reach..Len(batches) /\ Stamp("minutes") <= Reach
      /\ UNCHANGED <<stores, manifest>> => Reach' = Reach
  BY <1>1, ReachGrows
<1>4. HasDaysOf(HistoryMark) /\ HasOnlyDaysOf(Reach)
  BY DEF FlagsAreSound
<1>5. ASSUME history' = history PROVE \A n : n = Reach' => HasOnlyDaysOf(n)'
  <2>1. batches' = batches
    BY StoresSteps
  <2> SUFFICES ASSUME NEW n, n = Reach' PROVE HasOnlyDaysOf(n)'
    OBVIOUS
  <2>2. n \in Reach..Len(batches)
    BY <1>3
  <2> QED
    BY <1>1, <1>3, <1>4, <1>5, <2>1, <2>2, OnlyDaysOfMore
<1>6. CASE Import
  <2>1. manifest' = 0 /\ phase' = "idle" /\ HistoryMark' = 0 /\ batches' = batches
    BY <1>1, <1>6 DEF Import, RunIsSound, HistoryMark
  <2>2. RankingIsSound'
    BY <1>1, <1>6, ImportRanks
  <2>3. \A flag, k : ~Has(flag, k)'
    BY <1>1, <1>6, ImportedDays DEF Has
  <2>4. \A n : n = HistoryMark' => HasDaysOf(n)'
    BY <2>1, StreamDaysSame, NoDaysBefore DEF HasDaysOf
  <2>5. \A n : HasOnlyDaysOf(n)'
    BY <2>3 DEF HasOnlyDaysOf
  <2> QED
    BY <1>2, <2>2, <2>4, <2>5 DEF FlagsAreSound
<1>7. CASE WriteRanking
  <2>1. UNCHANGED <<imported, batches, history, crashes, target, manifest, stores>> /\ phase = "ranking"
    BY <1>7 DEF WriteRanking
  <2>2. RankingIsSound'
    BY <1>1, <1>7, RankingRanks
  <2>3. HasDaysOf(manifest)
    BY <1>4, <2>1 DEF HistoryMark
  <2>4. CASE stage["history"] = {}
    <3>1. HistoryMark' = target
      BY <1>7, <2>1, <2>4 DEF WriteRanking, HistoryMark
    <3>2. \A n : n = target => HasDaysOf(n)'
      BY <1>1, <2>1, <2>3, <2>4, NothingNew
    <3> QED
      BY <1>2, <1>5, <2>1, <2>2, <3>1, <3>2 DEF FlagsAreSound
  <2>5. CASE stage["history"] # {}
    <3>1. HistoryMark' = manifest
      BY <1>7, <2>1, <2>5 DEF WriteRanking, HistoryMark
    <3>2. \A n : n = manifest => HasDaysOf(n)'
      BY <2>1, <2>3, HasDaysStays
    <3> QED
      BY <1>2, <1>5, <2>1, <2>2, <3>1, <3>2 DEF FlagsAreSound
  <2> QED
    BY <2>4, <2>5
<1>8. CASE WriteHistory
  <2>1. UNCHANGED <<stores, manifest, target>> /\ phase = "history" /\ phase' = "suspects"
    BY <1>8 DEF WriteHistory
  <2>2. HasDaysOf(manifest) /\ HistoryMark' = target
    BY <1>4, <2>1 DEF HistoryMark
  <2>3. \A n : n = target => HasDaysOf(n)'
    BY <1>1, <1>8, <2>2, HistoryHasDays
  <2>4. RankingIsSound'
    BY <1>1, <1>8, HistoryRanks
  <2>5. ASSUME NEW n, n = Reach PROVE HasOnlyDaysOf(n)'
    <3>1. n \in 0..Len(batches) /\ Stamp("minutes") <= n /\ HasOnlyDaysOf(n)
      BY <1>3, <1>4, <2>5
    <3> QED
      BY <1>1, <1>8, <3>1, HistoryHasOnlyDays
  <2>6. \A n : n = Reach' => HasOnlyDaysOf(n)'
    BY <1>3, <2>1, <2>5
  <2> QED
    BY <1>2, <2>2, <2>3, <2>4, <2>6 DEF FlagsAreSound
<1>9. CASE Crash
  <2>1. /\ UNCHANGED <<imported, batches, totals, history, manifest>> /\ phase' = "idle"
        /\ crashes' = crashes + 1 /\ crashes \in Nat /\ phase \in RunPhases
    <3>1. UNCHANGED <<imported, batches, totals, history, manifest>> /\ phase' = "idle" /\ crashes' = crashes + 1
      BY <1>9 DEF Crash, tables
    <3>2. phase \notin {"none", "idle"} /\ phase \in {"none", "idle"} \cup RunPhases /\ crashes \in Nat
      BY <1>1, <1>9 DEF Crash, RunIsSound
    <3> QED
      BY <3>1, <3>2
  <2>2. HistoryMark' = manifest /\ HistoryMark \in 0..Len(batches) /\ manifest \in 0..HistoryMark
    <3>1. HistoryMark' = manifest
      BY <2>1 DEF HistoryMark
    <3>2. manifest < target /\ manifest \in 0..Len(batches) /\ target \in 0..Len(batches) /\ Len(batches) \in Nat
      BY <1>1, <2>1, StreamTypes DEF RunIsSound
    <3> QED
      BY <3>1, <3>2 DEF HistoryMark
  <2>3. \A n : n = HistoryMark' => HasDaysOf(n)'
    <3> SUFFICES ASSUME NEW n, n = manifest PROVE HasDaysOf(n)'
      BY <2>2
    <3> DEFINE m == HistoryMark
    <3>1. m \in 0..Len(batches) /\ n \in 0..m /\ HasDaysOf(m) /\ crashes' # 0
      BY <1>4, <2>1, <2>2
    <3> HIDE DEF m
    <3> QED
      BY <1>1, <2>1, <3>1, HasDaysLess
  <2>4. RankingIsSound'
    BY <1>1, <2>1, RankingStays
  <2> QED
    BY <1>2, <1>5, <2>1, <2>3, <2>4 DEF FlagsAreSound
<1>10. CASE /\ UNCHANGED <<imported, batches, totals, history, crashes>>
            /\ HistoryMark' = HistoryMark
  <2>1. \A n : n = HistoryMark' => HasDaysOf(n)'
    BY <1>4, <1>10, HasDaysStays
  <2>2. RankingIsSound'
    BY <1>1, <1>10, RankingStays
  <2> QED
    BY <1>2, <1>5, <1>10, <2>1, <2>2 DEF FlagsAreSound
<1> QED
  BY <1>6, <1>7, <1>8, <1>9, <1>10, MarksStay

LEMMA FlagsAreSoundAlways == Spec => []FlagsAreSound
BY FlagsAreSoundInit, FlagsAreSoundStep, PTL DEF Spec

LEMMA ReachIs ==
  ASSUME StampsAreSound PROVE Max({manifest, AppliedSeqOf(stores["minutes"])}) = Reach
<1> DEFINE s == AppliedSeqOf(stores["minutes"])
           S == {manifest, s}
<1>1. RunIsSound /\ IsAPrefix("minutes") /\ "minutes" \in StreamRoots
  BY DEF StampsAreSound, StoresAreSound, StreamRoots
<1>2. manifest \in Nat /\ Len(batches) \in Nat
  BY <1>1, StreamTypes
<1>3. Stamp("minutes") \in 0..Len(batches)
  BY <1>1, StoredTyped
<1>4. s \in Nat
  BY <1>2, <1>3 DEF Stamp
<1> HIDE DEF s
<1>5. IsFiniteSet(S) /\ S \subseteq Int /\ S # {}
  <2>1. S = {manifest} \cup {s} /\ S \subseteq Int /\ S # {}
    BY <1>2, <1>4
  <2>2. IsFiniteSet({manifest}) /\ IsFiniteSet({s})
    BY FS_Singleton
  <2>3. IsFiniteSet({manifest} \cup {s})
    BY <2>2, FS_Union
  <2> QED
    BY <2>1, <2>3
<1>6. Max(S) \in S /\ \A y \in S : y <= Max(S)
  <2> HIDE DEF S
  <2> QED
    BY <1>5, MaxIs
<1>7. Max(S) = IF s <= manifest THEN manifest ELSE s
  BY <1>2, <1>4, <1>6
<1> QED
  BY <1>7 DEF Reach, Stamp, s

\* In every state at rest, on every stream and after any crashes, the days of the
\* filters in the manifest's diffs have their bits (filter 5's without a crash),
\* no day has a bit that the batches up to the manifest or the minutes' stamp do
\* not call for, filter 1 marks no day of the import and every new day of a user
\* who creates nothing.
THEOREM FlagsFollowTheFilters == Spec => []FlagsAreTheFilters
<1>1. ASSUME FlagsAreSound PROVE FlagsAreTheFilters
  <2> DEFINE reach == Max({manifest, AppliedSeqOf(stores["minutes"])})
  <2> SUFFICES ASSUME phase = "idle" PROVE FlagsAreTheFilters
    BY DEF FlagsAreTheFilters
  <2>1. /\ StampsAreSound /\ CountsAreSound /\ HistoryIsSound /\ RunIsSound /\ RankingIsSound
        /\ HasDaysOf(manifest) /\ HasOnlyDaysOf(Reach)
    BY <1>1 DEF FlagsAreSound, CountsAreSound, HistoryIsSound, HistoryMark
  <2>2. reach = Reach /\ reach \in 0..Len(batches) /\ manifest \in 0..Len(batches) /\ Len(batches) \in Nat
    <3>1. manifest \in 0..Len(batches) /\ Len(batches) \in Nat
      BY <2>1, StreamTypes DEF RunIsSound
    <3>2. Stamp("minutes") \in 0..Len(batches)
      BY <2>1, StoredTyped DEF StampsAreSound, StoresAreSound, StreamRoots
    <3>3. Reach \in 0..Len(batches)
      BY <3>1, <3>2 DEF Reach
    <3> QED
      BY <2>1, <3>1, <3>3, ReachIs
  <2> HIDE DEF reach
  <2>3. \A flag, k : k \in Flagged(flag) <=> Has(flag, k)
    BY DEF Flagged, Has
  <2>4. \A n \in 0..Len(batches) : \A k : /\ k \in EditDays(n) <=> EditOf(n, k)
                                          /\ k \in SpreadDays(n) <=> SpreadOf(n, k)
                                          /\ k \in MoveDays(n) <=> MoveOf(n, k)
    <3> SUFFICES ASSUME NEW n \in 0..Len(batches), NEW k
                 PROVE  /\ k \in EditDays(n) <=> EditOf(n, k)
                        /\ k \in SpreadDays(n) <=> SpreadOf(n, k)
                        /\ k \in MoveDays(n) <=> MoveOf(n, k)
      OBVIOUS
    <3>1. k \in MoveDays(n) <=> MoveOf(n, k)
      BY <2>1, PrefixTyped, MoveDaysAre, MoveDayIs DEF MoveOf
    <3>2. k \in EditDays(n) <=> EditOf(n, k)
      BY <2>1, EditDaysAre DEF EditOf
    <3>3. k \in SpreadDays(n) <=> SpreadOf(n, k)
      BY <2>1, SpreadDaysAre DEF SpreadOf
    <3> QED
      BY <3>1, <3>2, <3>3
  <2>5. \A n, p \in 0..Len(batches) : \A k : k \in CoverDays(n, p) <=> CoverOf(n, p, k)
    BY <2>1, CoverDaysAre DEF CoverOf
  <2>6. EditDays(manifest) \subseteq Flagged("edits") /\ Flagged("edits") \subseteq EditDays(reach)
    BY <2>1, <2>2, <2>3, <2>4 DEF HasDaysOf, HasOnlyDaysOf
  <2>7. SpreadDays(manifest) \subseteq Flagged("spread") /\ Flagged("spread") \subseteq SpreadDays(reach)
    BY <2>1, <2>2, <2>3, <2>4 DEF HasDaysOf, HasOnlyDaysOf
  <2>8. MoveDays(manifest) \subseteq Flagged("moves") /\ Flagged("moves") \subseteq MoveDays(Len(batches))
    <3>1. Len(batches) \in 0..Len(batches)
      BY <2>2
    <3> QED
      BY <2>1, <2>2, <2>3, <2>4, <3>1 DEF HasDaysOf, HasOnlyDaysOf
  <2>9. crashes = 0 => CoverDays(manifest, manifest) \subseteq Flagged("tags")
    BY <2>1, <2>2, <2>3, <2>5 DEF HasDaysOf
  <2>10. Flagged("tags") \subseteq CoverDaysUpTo(reach)
    <3> SUFFICES ASSUME NEW k \in Flagged("tags")
                 PROVE  \E n, p \in 0..reach : k \in CoverDays(n, p)
      BY DEF CoverDaysUpTo
    <3>1. PICK n \in 0..reach : \E p \in 0..reach : CoverOf(n, p, k)
      BY <2>1, <2>2, <2>3 DEF HasOnlyDaysOf
    <3>2. PICK p \in 0..reach : CoverOf(n, p, k)
      BY <3>1
    <3>3. n \in 0..Len(batches) /\ p \in 0..Len(batches)
      BY <2>2
    <3> QED
      BY <2>5, <3>2, <3>3
  <2>11. \A vs, k : k \in DayKeys(vs) <=> IsADay(vs, k)
    BY DEF DayKeys, IsADay
  <2>12. Newcomers(manifest) \subseteq Flagged("ranking")
    <3> SUFFICES ASSUME NEW k \in Newcomers(manifest) PROVE Has("ranking", k)
      BY <2>3
    <3>1. IsADay(Prefix(manifest), k) /\ ~IsADay(imported, k) /\ Nobody(Uid(k))
      BY <2>11 DEF Newcomers, Nobody
    <3>2. Due(OfDay(k), manifest) # 0
      BY <2>1, <2>2, <3>1, DayIsDue
    <3>3. HistoryCovers(manifest)
      BY <2>1 DEF CountsAreSound, HistoryMark
    <3>4. Due(OfDay(k), manifest) \in Nat
      <4>1. \A x \in Versions : OfDay(k)[x] \in Nat
        BY OnesAreNumbers DEF OfDay
      <4> QED
        BY <2>1, <2>2, <4>1, DueIs
    <3>5. k \in DOMAIN Base
      BY <3>2, <3>3, <3>4 DEF HistoryCovers
    <3> QED
      BY <2>1, <3>1, <3>5 DEF RankingIsSound
  <2>13. Flagged("ranking") \cap DayKeys(imported) = {}
    BY <2>1, <2>3, <2>11 DEF RankingIsSound
  <2> QED
    BY <2>6, <2>7, <2>8, <2>9, <2>10, <2>12, <2>13 DEF FlagsAreTheFilters, reach
<1> QED
  BY <1>1, FlagsAreSoundAlways, PTL

=============================================================================
