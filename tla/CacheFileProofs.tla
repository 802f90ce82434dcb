-------------------------- MODULE CacheFileProofs --------------------------
(***************************************************************************)
(* The sweep and the rebuild are right for every base file, every block     *)
(* size, every set of refs and every overlay.                               *)
(***************************************************************************)
EXTENDS CacheFile, DataInduction

-----------------------------------------------------------------------------
(* Ascending sequences *)

IsAscending(s) == \A i, j \in DOMAIN s : i < j => s[i] < s[j]

LEMMA AscendingExists ==
  ASSUME NEW S, IsFiniteSet(S), S \subseteq Int
  PROVE  \E s \in [1..Cardinality(S) -> S] : IsAscending(s)
<1> DEFINE Has == {n \in Nat : \A T \in SUBSET S :
                     Cardinality(T) = n => \E s \in [1..n -> T] : IsAscending(s)}
<1>1. \A T \in SUBSET S : IsFiniteSet(T) /\ Cardinality(T) \in Nat
  BY FS_Subset, FS_CardinalityType
<1>2. 0 \in Has
  <2> SUFFICES ASSUME NEW T \in SUBSET S, Cardinality(T) = 0
               PROVE  \E s \in [1..0 -> T] : IsAscending(s)
    OBVIOUS
  <2> DEFINE s == [i \in 1..0 |-> i]
  <2>1. s \in [1..0 -> T] /\ IsAscending(s)
    BY DEF IsAscending
  <2>. QED BY <2>1
<1>3. ASSUME NEW n \in Has PROVE n + 1 \in Has
  <2> SUFFICES ASSUME NEW T \in SUBSET S, Cardinality(T) = n + 1
               PROVE  \E s \in [1..(n + 1) -> T] : IsAscending(s)
    OBVIOUS
  <2>1. T # {}
    BY FS_EmptySet
  <2>2. PICK m \in T : \A y \in T : y <= m
    BY <1>1, <2>1, GreatestExists
  <2>3. Cardinality(T \ {m}) = n /\ T \ {m} \in SUBSET S
    BY <1>1, <2>2, FS_RemoveElement
  <2>4. PICK s \in [1..n -> T \ {m}] : IsAscending(s)
    BY <2>3
  <2> DEFINE t == [i \in 1..(n + 1) |-> IF i = n + 1 THEN m ELSE s[i]]
  <2>5. t \in [1..(n + 1) -> T]
    BY <2>2, <2>4
  <2>6. ASSUME NEW i \in 1..(n + 1), NEW j \in 1..(n + 1), i < j PROVE t[i] < t[j]
    <3>1. i \in 1..n
      BY <2>6
    <3>2. s[i] \in T \ {m} /\ t[i] = s[i] /\ s[i] < m
      <4>1. s[i] \in T \ {m} /\ s[i] <= m /\ s[i] \in Int /\ m \in Int
        BY <2>2, <2>4, <3>1
      <4>. QED BY <3>1, <4>1
    <3>3. CASE j = n + 1
      BY <3>2, <3>3
    <3>4. CASE j # n + 1
      BY <2>4, <2>6, <3>1, <3>2, <3>4 DEF IsAscending
    <3>. QED BY <3>3, <3>4
  <2>. QED BY <2>5, <2>6 DEF IsAscending
<1>4. Nat \subseteq Has
  <2> HIDE DEF Has
  <2>. QED BY <1>2, <1>3, NaturalsBySteps
<1>5. Cardinality(S) \in Has
  BY <1>1, <1>4
<1>. QED BY <1>5

LEMMA AscendingOrders ==
  ASSUME NEW s \in Seq(Int), IsAscending(s), NEW i \in 1..Len(s), NEW j \in 1..Len(s)
  PROVE  s[i] \in Int /\ s[j] \in Int /\ (i < j => s[i] < s[j]) /\ (i <= j => s[i] <= s[j])
<1>1. s[i] \in Int /\ s[j] \in Int /\ DOMAIN s = 1..Len(s)
  OBVIOUS
<1>2. CASE i < j
  BY <1>1, <1>2 DEF IsAscending
<1>3. CASE ~(i < j)
  BY <1>1, <1>3
<1>. QED BY <1>2, <1>3

\* An ascending sequence has no element twice.
LEMMA AscendingCounts ==
  ASSUME NEW n \in Nat, NEW s, DOMAIN s = 1..n, \A i \in 1..n : s[i] \in Int, IsAscending(s)
  PROVE  IsFiniteSet(Elements(s)) /\ Cardinality(Elements(s)) = n
<1> DEFINE f == [i \in 1..n |-> s[i]]
<1>1. f \in Bijection(1..n, Elements(s))
  <2>1. f \in [1..n -> Elements(s)]
    BY DEF Elements
  <2>2. \A i, j \in 1..n : f[i] = f[j] => i = j
    BY DEF IsAscending
  <2>3. \A x \in Elements(s) : \E i \in 1..n : f[i] = x
    BY DEF Elements
  <2>. QED BY <2>1, <2>2, <2>3 DEF Bijection, Injection, Surjection, IsInjective
<1>2. IsFiniteSet(1..n) /\ Cardinality(1..n) = n
  BY FS_Interval
<1>3. ExistsBijection(1..n, Elements(s))
  BY <1>1 DEF ExistsBijection
<1>. QED BY <1>2, <1>3, FS_Bijection

LEMMA AscendingIsThat ==
  ASSUME NEW S, IsFiniteSet(S), S \subseteq Int
  PROVE  /\ Ascending(S) \in Seq(S) /\ Len(Ascending(S)) = Cardinality(S)
         /\ Cardinality(S) \in Nat
         /\ IsAscending(Ascending(S)) /\ Elements(Ascending(S)) = S
<1> DEFINE s == Ascending(S)
           n == Cardinality(S)
<1>0. n \in Nat
  BY FS_CardinalityType
<1>1. s \in [1..n -> S] /\ IsAscending(s)
  BY AscendingExists DEF Ascending, IsAscending
<1> HIDE DEF s, n
<1>2. s \in Seq(S) /\ Len(s) = n
  BY <1>0, <1>1
<1>3. Elements(s) \subseteq S /\ Cardinality(Elements(s)) = n
  BY <1>0, <1>1, AscendingCounts DEF Elements
<1>4. Elements(s) = S
  BY <1>3, FS_Subset DEF n
<1>. QED BY <1>0, <1>1, <1>2, <1>4 DEF s, n

-----------------------------------------------------------------------------
(* The bisection *)

BaseOK == base \in Seq(Int) /\ IsAscending(base)

LEMMA BlocksAreNumbers == BaseOK => Blocks \in Nat
BY BlocksHoldRecords DEF BaseOK, Blocks

\* A block that is there has a first record.
LEMMA BlocksBegin ==
  ASSUME BaseOK, NEW k \in Nat, k < Blocks
  PROVE  k * BlockSize \in Nat /\ k * BlockSize + 1 \in 1..Len(base)
<1> DEFINE L == Len(base)
           q == Blocks
<1>1. L \in Nat /\ BlockSize \in Nat /\ BlockSize > 0
  BY BlocksHoldRecords DEF BaseOK
<1>2. q \in Nat /\ q * BlockSize <= L + BlockSize - 1
  BY <1>1 DEF Blocks
<1> HIDE DEF L, q
<1>3. (k + 1) * BlockSize <= q * BlockSize
  BY <1>1, <1>2 DEF q
<1>4. (k + 1) * BlockSize = k * BlockSize + BlockSize /\ k * BlockSize \in Nat
  BY <1>1
<1>. QED BY <1>1, <1>2, <1>3, <1>4 DEF L

\* The rounds of a bisection, up to the m-th.
Rounds(f, id, m) ==
  f = [n \in 0..m |-> IF n = 0 THEN [lo |-> 0, hi |-> Blocks] ELSE Halved(f[n - 1], id)]

LEMMA RoundsExist ==
  ASSUME NEW id, NEW m \in Nat PROVE \E f : Rounds(f, id, m)
<1> DEFINE S == {k \in Nat : \E f : Rounds(f, id, k)}
<1>1. 0 \in S
  <2> DEFINE f == [n \in 0..0 |-> [lo |-> 0, hi |-> Blocks]]
  <2>1. Rounds(f, id, 0)
    BY DEF Rounds
  <2>. QED BY <2>1
<1>2. ASSUME NEW k \in S PROVE k + 1 \in S
  <2>1. PICK f : Rounds(f, id, k)
    OBVIOUS
  <2>2. k \in Nat
    OBVIOUS
  <2> DEFINE next(n, i) == IF n = 0 THEN [lo |-> 0, hi |-> Blocks] ELSE Halved(i, id)
             g == [n \in 0..(k + 1) |-> next(n, f[n - 1])]
  <2> HIDE DEF next, S
  <2>3. f = [n \in 0..k |-> next(n, f[n - 1])]
    BY <2>1 DEF Rounds, next
  <2>4. \A n \in 0..k : g[n] = f[n]
    BY <2>2, <2>3
  <2>5. \A n \in 0..(k + 1) : next(n, g[n - 1]) = next(n, f[n - 1])
    <3> SUFFICES ASSUME NEW n \in 0..(k + 1) PROVE next(n, g[n - 1]) = next(n, f[n - 1])
      OBVIOUS
    <3>1. CASE n = 0
      BY <3>1 DEF next
    <3>2. CASE n # 0
      <4>1. n - 1 \in 0..k
        BY <2>2, <3>2
      <4>. QED BY <2>4, <4>1
    <3>. QED BY <3>1, <3>2
  <2>6. g = [n \in 0..(k + 1) |-> next(n, g[n - 1])]
    BY <2>5
  <2>7. Rounds(g, id, k + 1)
    BY <2>6 DEF Rounds, next
  <2>. QED BY <2>2, <2>7 DEF S
<1>. QED BY <1>1, <1>2, NaturalsBySteps

LEMMA BisectionIsThat ==
  ASSUME BaseOK, NEW id
  PROVE  \E f : Rounds(f, id, Blocks) /\ BlocksBelow(id) = f[Blocks].lo
<1> DEFINE f == CHOOSE g : Rounds(g, id, Blocks)
<1>1. BlocksBelow(id) = f[Blocks].lo
  BY DEF BlocksBelow, Rounds
<1>2. Rounds(f, id, Blocks)
  BY BlocksAreNumbers, RoundsExist
<1>. QED BY <1>1, <1>2

\* The block before the one found begins below the id.
LEMMA SweepStartsBelow ==
  ASSUME BaseOK, NEW id
  PROVE  /\ SweepStart(id) \in Nat
         /\ SweepStart(id) # 0 => /\ SweepStart(id) + 1 \in 1..Len(base)
                                  /\ base[SweepStart(id) + 1] < id
<1>1. PICK f : Rounds(f, id, Blocks) /\ BlocksBelow(id) = f[Blocks].lo
  BY BisectionIsThat
<1> DEFINE OK(i) == /\ i.lo \in Nat /\ i.hi \in Nat /\ i.lo <= Blocks /\ i.hi <= Blocks
                    /\ i.lo # 0 => FirstNode(i.lo - 1) < id
           S == {n \in Nat : n <= Blocks => OK(f[n])}
<1>2. Blocks \in Nat
  BY BlocksAreNumbers
<1>3. 0 \in S
  <2>1. f[0] = [lo |-> 0, hi |-> Blocks]
    BY <1>1, <1>2 DEF Rounds
  <2>. QED BY <1>2, <2>1
<1>4. ASSUME NEW n \in S PROVE n + 1 \in S
  <2> SUFFICES ASSUME n + 1 <= Blocks PROVE OK(f[n + 1])
    OBVIOUS
  <2>1. n \in Nat /\ n + 1 \in 0..Blocks /\ OK(f[n])
    BY <1>2
  <2> DEFINE i == f[n]
             mid == i.lo + (i.hi - i.lo) \div 2
  <2>2. f[n + 1] = Halved(i, id)
    <3>1. n + 1 # 0 /\ (n + 1) - 1 = n
      BY <2>1
    <3>2. f[n + 1] = IF n + 1 = 0 THEN [lo |-> 0, hi |-> Blocks] ELSE Halved(f[(n + 1) - 1], id)
      BY <1>1, <2>1 DEF Rounds
    <3>. QED BY <3>1, <3>2
  <2>3. CASE i.lo >= i.hi
    BY <2>1, <2>2, <2>3 DEF Halved
  <2>4. CASE ~(i.lo >= i.hi)
    <3>1. mid \in Nat /\ i.lo <= mid /\ mid < i.hi
      BY <2>1, <2>4
    <3>2. CASE FirstNode(mid) < id
      <4>1. f[n + 1] = [lo |-> mid + 1, hi |-> i.hi]
        BY <2>2, <2>4, <3>2 DEF Halved
      <4> HIDE DEF mid, i
      <4>2. (mid + 1) - 1 = mid
        BY <3>1
      <4>. QED BY <1>2, <2>1, <3>1, <3>2, <4>1, <4>2 DEF i
    <3>3. CASE ~(FirstNode(mid) < id)
      <4>1. f[n + 1] = [lo |-> i.lo, hi |-> mid]
        BY <2>2, <2>4, <3>3 DEF Halved
      <4> HIDE DEF mid
      <4>. QED BY <1>2, <2>1, <3>1, <4>1
    <3>. QED BY <3>2, <3>3
  <2>. QED BY <2>3, <2>4
<1>5. Blocks \in S
  <2> HIDE DEF S
  <2>. QED BY <1>2, <1>3, <1>4, NaturalsBySteps
<1>6. OK(f[Blocks])
  BY <1>2, <1>5
<1> HIDE DEF S
<1>7. CASE BlocksBelow(id) = 0
  BY <1>7 DEF SweepStart
<1>8. CASE BlocksBelow(id) # 0
  <2> DEFINE k == BlocksBelow(id) - 1
  <2>1. k \in Nat /\ k < Blocks /\ FirstNode(k) < id
    BY <1>1, <1>2, <1>6, <1>8
  <2>2. SweepStart(id) = k * BlockSize
    BY <1>1, <1>6, <1>8 DEF SweepStart
  <2> HIDE DEF k
  <2>. QED BY <2>1, <2>2, BlocksBegin DEF FirstNode
<1>. QED BY <1>7, <1>8

-----------------------------------------------------------------------------
(* The sweep *)

Passed == {pending[i] : i \in 1..p}

\* Every record the sweep has left behind is below every ref that is left.
Behind ==
  \A i \in 1..rec : \A k \in (p + 1)..Len(pending) : base[i] < pending[k]

SweepInv ==
  /\ BaseOK
  /\ pending \in Seq(Int) /\ IsAscending(pending)
  /\ p \in 0..Len(pending) /\ rec \in 0..Len(base)
  /\ job = "sweep" => Behind
  /\ SweepAnswersLookup

LEMMA SubsetsAscend ==
  ASSUME NEW S \in SUBSET Ids
  PROVE  /\ Ascending(S) \in Seq(Int) /\ IsAscending(Ascending(S))
         /\ Elements(Ascending(S)) = S
         /\ S # {} => Len(Ascending(S)) > 0
<1>1. IsFiniteSet(S) /\ S \subseteq Int
  BY IdsAreNumbers, FS_Subset
<1>2. /\ Ascending(S) \in Seq(S) /\ Len(Ascending(S)) = Cardinality(S)
      /\ IsAscending(Ascending(S)) /\ Elements(Ascending(S)) = S
  BY <1>1, AscendingIsThat
<1>3. Ascending(S) \in Seq(Int)
  <2> DEFINE s == Ascending(S)
  <2>1. s \in Seq(S)
    BY <1>2
  <2> HIDE DEF s
  <2>2. s \in [1..Len(s) -> S] /\ Len(s) \in Nat
    BY <2>1
  <2>3. s \in [1..Len(s) -> Int]
    BY <1>1, <2>2
  <2>4. s \in Seq(Int)
    BY <2>2, <2>3
  <2>. QED BY <2>4 DEF s
<1>4. S # {} => Len(Ascending(S)) > 0
  BY <1>2, <1>3 DEF Elements
<1>. QED BY <1>2, <1>3, <1>4

LEMMA SweepInit == Init => SweepInv
<1> SUFFICES ASSUME Init PROVE SweepInv
  OBVIOUS
<1>1. BaseOK
  BY SubsetsAscend DEF Init, BaseOK
<1>2. p = 0 /\ SweepAnswersLookup
  BY DEF Init, SweepAnswersLookup
<1>3. CASE job = "sweep"
  <2>1. pending \in Seq(Int) /\ IsAscending(pending) /\ Len(pending) > 0 /\ rec = SweepStart(pending[1])
    <3>1. /\ \E S \in SUBSET Ids : S # {} /\ pending = Ascending(S)
          /\ rec = SweepStart(pending[1])
      BY <1>3 DEF Init
    <3>2. PICK S \in SUBSET Ids : S # {} /\ pending = Ascending(S)
      BY <3>1
    <3>. QED BY <3>1, <3>2, SubsetsAscend
  <2>2. rec \in 0..Len(base) /\ (rec # 0 => rec + 1 \in 1..Len(base) /\ base[rec + 1] < pending[1])
    <3>1. rec \in Nat /\ (rec # 0 => rec + 1 \in 1..Len(base) /\ base[rec + 1] < pending[1])
      BY <1>1, <2>1, SweepStartsBelow
    <3>2. Len(base) \in Nat
      BY <1>1 DEF BaseOK
    <3>. QED BY <3>1, <3>2
  <2>3. ASSUME NEW i \in 1..rec, NEW k \in 1..Len(pending) PROVE base[i] < pending[k]
    <3>1. rec # 0 /\ i < rec + 1 /\ i \in 1..Len(base) /\ rec + 1 \in 1..Len(base)
      BY <1>1, <2>2 DEF BaseOK
    <3>2. base[i] < base[rec + 1] /\ base[i] \in Int /\ base[rec + 1] \in Int
      BY <1>1, <3>1, AscendingOrders DEF BaseOK
    <3>3. 1 \in 1..Len(pending) /\ 1 <= k
      BY <2>1
    <3>4. pending[1] <= pending[k] /\ pending[1] \in Int /\ pending[k] \in Int
      BY <2>1, <3>3, AscendingOrders
    <3>. QED BY <2>2, <3>1, <3>2, <3>4
  <2>. QED BY <1>1, <1>2, <2>1, <2>2, <2>3 DEF SweepInv, Behind
<1>4. CASE job # "sweep"
  <2>1. pending = <<>> /\ rec = 0
    BY <1>4 DEF Init
  <2>. QED BY <1>1, <1>2, <1>4, <2>1 DEF SweepInv, IsAscending, BaseOK
<1>. QED BY <1>3, <1>4

\* A ref that is passed is answered by whether the base has it.
LEMMA RefAnswered ==
  ASSUME SweepInv, job = "sweep", p < Len(pending), p' = p + 1, UNCHANGED <<base, pending>>,
         \/ /\ Want \in Elements(base) /\ known' = known \cup {Want} /\ absent' = absent
         \/ /\ Want \notin Elements(base) /\ known' = known /\ absent' = absent \cup {Want}
  PROVE  SweepAnswersLookup'
<1> DEFINE passed == {pending[i] : i \in 1..p}
           then == {pending[i] : i \in 1..(p + 1)}
<1>1. p \in Nat
  BY DEF SweepInv
<1>2. then = passed \cup {Want}
  <2>1. \A i : i \in 1..(p + 1) <=> i \in 1..p \/ i = p + 1
    BY <1>1
  <2>. QED BY <2>1 DEF Want
<1>3. known = passed \cap Elements(base) /\ absent = passed \ Elements(base)
  BY DEF SweepInv, SweepAnswersLookup
<1> HIDE DEF passed
<1>4. known' = then \cap Elements(base) /\ absent' = then \ Elements(base)
  <2> HIDE DEF then
  <2>. QED BY <1>2, <1>3
<1>5. Elements(base)' = Elements(base)
  BY DEF Elements
<1>. QED BY <1>4, <1>5 DEF SweepAnswersLookup

\* A ref that no record behind nor the one at hand is, is in no record.
LEMMA RefIsAbsent ==
  ASSUME SweepInv, Resolving, InBase => Node > Want PROVE Want \notin Elements(base)
<1> SUFFICES ASSUME NEW i \in DOMAIN base, base[i] = Want PROVE FALSE
  BY DEF Elements
<1>1. i \in 1..Len(base) /\ p + 1 \in (p + 1)..Len(pending) /\ rec \in 0..Len(base)
  BY DEF SweepInv, BaseOK, Resolving
<1>2. base[i] \in Int /\ Want \in Int
  BY <1>1 DEF SweepInv, BaseOK
<1>3. CASE i <= rec
  BY <1>1, <1>2, <1>3 DEF SweepInv, Behind, Resolving, Want
<1>4. CASE ~(i <= rec)
  <2>1. InBase /\ rec + 1 \in 1..Len(base) /\ rec + 1 <= i
    BY <1>1, <1>4 DEF InBase
  <2>2. Node <= base[i] /\ Node \in Int
    BY <1>1, <2>1, AscendingOrders DEF SweepInv, BaseOK, Node
  <2>. QED BY <1>2, <2>1, <2>2
<1>. QED BY <1>3, <1>4

LEMMA SweepStep == ASSUME SweepInv, [Next]_vars PROVE SweepInv'
<1>0. /\ UNCHANGED <<job, base, pending>>
      /\ Len(base) \in Nat /\ Len(pending) \in Nat /\ p \in Nat /\ rec \in Nat
      /\ Elements(base)' = Elements(base)
  <2>1. UNCHANGED <<job, base, pending>>
    BY DEF Next, vars, inputs, Advance, Meet, Pass, RunOut, SkipDeleted, AddExtra, AddRecord
  <2>. QED BY <2>1 DEF SweepInv, BaseOK, Elements
<1>1. /\ BaseOK' /\ pending' \in Seq(Int) /\ IsAscending(pending)'
  BY <1>0 DEF SweepInv, BaseOK, IsAscending
<1>2. CASE Advance
  <2>1. /\ job = "sweep" /\ p < Len(pending) /\ rec < Len(base) /\ base[rec + 1] < pending[p + 1]
        /\ rec' = rec + 1 /\ UNCHANGED <<p, known, absent>>
    BY <1>2 DEF Advance, Resolving, InBase, Node, Want, memo
  <2>2. SweepAnswersLookup'
    BY <1>0, <2>1 DEF SweepInv, SweepAnswersLookup
  <2>3. ASSUME NEW i \in 1..(rec + 1), NEW k \in (p + 1)..Len(pending) PROVE base[i] < pending[k]
    <3>1. CASE i \in 1..rec
      BY <2>1, <3>1 DEF SweepInv, Behind
    <3>2. CASE i = rec + 1
      <4>1. p + 1 \in 1..Len(pending) /\ p + 1 <= k /\ k \in 1..Len(pending) /\ rec + 1 \in 1..Len(base)
        BY <1>0, <2>1
      <4>2. /\ pending[p + 1] <= pending[k] /\ pending[k] \in Int /\ pending[p + 1] \in Int
            /\ base[rec + 1] \in Int
        BY <4>1, AscendingOrders DEF SweepInv, BaseOK
      <4>3. base[i] = base[rec + 1]
        BY <3>2
      <4>. QED BY <2>1, <4>2, <4>3
    <3>. QED BY <1>0, <3>1, <3>2
  <2>. QED BY <1>0, <1>1, <2>1, <2>2, <2>3 DEF SweepInv, Behind
<1>3. CASE Meet
  <2>1. /\ job = "sweep" /\ p < Len(pending) /\ rec < Len(base) /\ base[rec + 1] = pending[p + 1]
        /\ rec' = rec + 1 /\ p' = p + 1 /\ known' = known \cup {Want} /\ absent' = absent
    BY <1>3 DEF Meet, Resolving, InBase, Node, Want
  <2>2. Want \in Elements(base)
    BY <1>0, <2>1 DEF Want, Elements, SweepInv, BaseOK
  <2>3. SweepAnswersLookup'
    BY <1>0, <2>1, <2>2, RefAnswered
  <2>4. ASSUME NEW i \in 1..(rec + 1), NEW k \in (p + 2)..Len(pending) PROVE base[i] < pending[k]
    <3>1. CASE i \in 1..rec
      BY <1>0, <2>1, <3>1 DEF SweepInv, Behind
    <3>2. CASE i = rec + 1
      <4>1. p + 1 \in 1..Len(pending) /\ k \in 1..Len(pending) /\ p + 1 < k
        BY <1>0, <2>1
      <4>2. pending[p + 1] < pending[k] /\ base[i] = base[rec + 1]
        BY <3>2, <4>1, AscendingOrders DEF SweepInv
      <4>. QED BY <2>1, <4>2
    <3>. QED BY <1>0, <3>1, <3>2
  <2>5. (p + 1) + 1 = p + 2
    BY <1>0
  <2>. QED BY <1>0, <1>1, <2>1, <2>3, <2>4, <2>5 DEF SweepInv, Behind
<1>4. CASE Pass \/ RunOut
  <2>1. /\ job = "sweep" /\ p < Len(pending) /\ p' = p + 1 /\ UNCHANGED <<rec, known>>
        /\ absent' = absent \cup {Want}
    BY <1>4 DEF Pass, RunOut, Resolving
  <2>2. Want \notin Elements(base)
    BY <1>4, RefIsAbsent DEF Pass, RunOut
  <2>3. SweepAnswersLookup'
    BY <1>0, <2>1, <2>2, RefAnswered
  <2>4. (p + 2)..Len(pending) \subseteq (p + 1)..Len(pending) /\ (p + 1) + 1 = p + 2
    BY <1>0
  <2>. QED BY <1>0, <1>1, <2>1, <2>3, <2>4 DEF SweepInv, Behind
<1>5. CASE SkipDeleted \/ AddExtra \/ AddRecord
  <2>1. job # "sweep" /\ UNCHANGED <<p, known, absent>> /\ (rec' = rec \/ (InBase /\ rec' = rec + 1))
    BY <1>5 DEF SkipDeleted, AddExtra, AddRecord, Rebuilding, memo
  <2>2. SweepAnswersLookup'
    BY <1>0, <2>1 DEF SweepInv, SweepAnswersLookup
  <2>. QED BY <1>0, <1>1, <2>1, <2>2 DEF SweepInv, InBase
<1>6. CASE UNCHANGED vars
  BY <1>0, <1>1, <1>6 DEF vars, inputs, memo, output, SweepInv, SweepAnswersLookup, Behind
<1>. QED BY <1>2, <1>3, <1>4, <1>5, <1>6 DEF Next

\* The one forward sweep memoizes each ref as a lookup of its own would answer it.
THEOREM SweepAnswersLookupTheorem == Spec => []SweepAnswersLookup
<1>1. SweepInv => SweepAnswersLookup
  BY DEF SweepInv
<1>. QED BY <1>1, SweepInit, SweepStep, PTL DEF Spec

-----------------------------------------------------------------------------
(* The rebuild *)

\* The records of the new base that the base's records before the loop's place, and
\* the overlay nodes before the other loop's, give.
FromBase == {[node |-> base[i], new |-> base[i] \in overlay] :
               i \in {j \in 1..rec : base[j] \notin deleted}}
FromExtra == {[node |-> Extra[i], new |-> TRUE] : i \in 1..b}

\* The nodes that are still to be written are above all that are.
WrittenBelow(node) == \A i \in DOMAIN written : written[i].node < node
AboveWritten ==
  /\ \A i \in (rec + 1)..Len(base) : base[i] \notin deleted => WrittenBelow(base[i])
  /\ \A i \in (b + 1)..Len(Extra) : WrittenBelow(Extra[i])

ExtraOK ==
  /\ Extra \in Seq(Int) /\ IsAscending(Extra)
  /\ Elements(Extra) = overlay \ Elements(base)

RebuildInv ==
  /\ BaseOK /\ ExtraOK
  /\ overlay \intersect deleted = {}
  /\ rec \in Nat /\ b \in 0..Len(Extra)
  /\ job \in {"sweep", "rebuild"}
  /\ written \in Seq([node : Int, new : BOOLEAN])
  /\ \A i, j \in DOMAIN written : i < j => written[i].node < written[j].node
  /\ ~threw
  /\ job = "rebuild" => /\ rec <= Len(base)
                        /\ Elements(written) = FromBase \cup FromExtra
                        /\ AboveWritten

LEMMA RebuildInit == Init => RebuildInv
<1> SUFFICES ASSUME Init PROVE RebuildInv
  OBVIOUS
<1>1. BaseOK
  BY SubsetsAscend DEF Init, BaseOK
<1>2. overlay \in SUBSET Ids /\ overlay \intersect deleted = {} /\ overlay \ Elements(base) \in SUBSET Ids
  BY DEF Init
<1>3. ExtraOK
  BY <1>2, SubsetsAscend DEF ExtraOK, Extra
<1>4. job = "sweep" => rec \in Nat
  BY <1>1, SweepStartsBelow DEF Init
<1>5. /\ job \in {"sweep", "rebuild"} /\ (job = "rebuild" => rec = 0) /\ b = 0 /\ written = <<>> /\ ~threw
  BY DEF Init
<1>6. Elements(written) = {} /\ DOMAIN written = {}
  BY <1>5 DEF Elements
<1>7. job = "rebuild" => FromBase = {} /\ FromExtra = {}
  BY <1>5 DEF FromBase, FromExtra
<1>8. written \in Seq([node : Int, new : BOOLEAN])
  BY <1>5
<1>9. Len(base) \in Nat /\ Len(Extra) \in Nat
  BY <1>1, <1>3 DEF BaseOK, ExtraOK
<1>. QED BY <1>1, <1>2, <1>3, <1>4, <1>5, <1>6, <1>7, <1>8, <1>9 DEF RebuildInv, AboveWritten, WrittenBelow

\* A node above all that is written goes to the end, and is not refused.
LEMMA AddAppends ==
  ASSUME RebuildInv, NEW node \in Int, NEW new \in BOOLEAN, WrittenBelow(node), Add(node, new)
  PROVE  /\ ~threw'
         /\ written' \in Seq([node : Int, new : BOOLEAN])
         /\ \A i, j \in DOMAIN written' : i < j => written'[i].node < written'[j].node
         /\ Elements(written') = Elements(written) \cup {[node |-> node, new |-> new]}
         /\ \A m \in Int : WrittenBelow(m) /\ node < m => WrittenBelow(m)'
<1> DEFINE n == Len(written)
           r == [node |-> node, new |-> new]
<1>1. n \in Nat /\ DOMAIN written = 1..n /\ written \in Seq([node : Int, new : BOOLEAN])
  BY DEF RebuildInv
<1>2. ~(n > 0 /\ written[n].node > node) /\ ~(n > 0 /\ written[n].node = node)
  <2> SUFFICES ASSUME n > 0 PROVE written[n].node \in Int /\ written[n].node < node
    OBVIOUS
  <2>1. n \in 1..n
    BY <1>1
  <2>2. written[n] \in [node : Int, new : BOOLEAN]
    <3> DEFINE R == [node : Int, new : BOOLEAN]
    <3>1. written \in Seq(R) /\ n = Len(written) /\ n \in 1..n
      BY <1>1, <2>1
    <3> HIDE DEF R, n
    <3>2. written[n] \in R
      BY <3>1
    <3>. QED BY <3>2 DEF R
  <2>. QED BY <1>1, <2>1, <2>2 DEF WrittenBelow
<1>3. ~threw' /\ written' = Append(written, r)
  BY <1>2 DEF Add
<1> HIDE DEF n
<1>4. /\ r \in [node : Int, new : BOOLEAN] /\ written' \in Seq([node : Int, new : BOOLEAN])
      /\ DOMAIN written' = 1..(n + 1) /\ written'[n + 1] = r /\ \A i \in 1..n : written'[i] = written[i]
  BY <1>1, <1>3 DEF n
<1>5. \A i \in 1..(n + 1) : i \in 1..n \/ i = n + 1
  BY <1>1
<1>6. ASSUME NEW i \in 1..(n + 1), NEW j \in 1..(n + 1), i < j PROVE written'[i].node < written'[j].node
  <2>1. i \in 1..n
    BY <1>1, <1>6
  <2>2. CASE j \in 1..n
    BY <1>1, <1>4, <1>6, <2>1, <2>2 DEF RebuildInv
  <2>3. CASE j = n + 1
    BY <1>1, <1>4, <2>1, <2>3 DEF WrittenBelow
  <2>. QED BY <1>5, <2>2, <2>3
<1>7. Elements(written') = Elements(written) \cup {r}
  <2>1. \A x : x \in Elements(written') <=> \E i \in 1..(n + 1) : x = written'[i]
    BY <1>4 DEF Elements
  <2>2. \A x : x \in Elements(written) <=> \E i \in 1..n : x = written[i]
    BY <1>1 DEF Elements
  <2>3. 1..n \subseteq 1..(n + 1) /\ n + 1 \in 1..(n + 1)
    BY <1>1
  <2>4. \A x : (\E i \in 1..(n + 1) : x = written'[i]) <=> (\E i \in 1..n : x = written[i]) \/ x = r
    BY <1>4, <1>5, <2>3
  <2>. QED BY <2>1, <2>2, <2>4
<1>8. ASSUME NEW m \in Int, WrittenBelow(m), node < m PROVE WrittenBelow(m)'
  <2> SUFFICES ASSUME NEW i \in 1..(n + 1) PROVE written'[i].node < m
    BY <1>4, <1>8 DEF WrittenBelow
  <2>. QED BY <1>1, <1>4, <1>5, <1>8 DEF WrittenBelow
<1>. QED BY <1>3, <1>4, <1>6, <1>7, <1>8

LEMMA ExtraIsNew ==
  ASSUME RebuildInv, NEW i \in 1..Len(Extra), NEW j \in 1..Len(base)
  PROVE  Extra[i] \in Int /\ base[j] \in Int /\ Extra[i] # base[j] /\ Extra[i] \in overlay
<1>1. Extra[i] \in Elements(Extra) /\ base[j] \in Elements(base)
  BY DEF RebuildInv, BaseOK, ExtraOK, Elements
<1>2. Extra[i] \in Int /\ base[j] \in Int
  BY DEF RebuildInv, BaseOK, ExtraOK
<1>. QED BY <1>1, <1>2 DEF RebuildInv, ExtraOK

LEMMA RebuildAddsExtra == ASSUME RebuildInv, AddExtra PROVE RebuildInv'
<1>1. /\ UNCHANGED <<job, base, overlay, deleted, rec>> /\ b' = b + 1 /\ b < Len(Extra)
      /\ job = "rebuild" /\ (InBase => Node \notin deleted /\ Extra[b + 1] < Node)
      /\ Add(Extra[b + 1], TRUE)
  BY DEF AddExtra, inputs, Rebuilding
<1>2. Extra' = Extra
  BY <1>1 DEF Extra, Elements
<1>3. /\ b \in Nat /\ b + 1 \in 1..Len(Extra) /\ Len(Extra) \in Nat /\ Len(base) \in Nat
      /\ rec \in Nat /\ rec <= Len(base)
  BY <1>1 DEF RebuildInv, ExtraOK, BaseOK
<1>4. Extra[b + 1] \in Int /\ WrittenBelow(Extra[b + 1])
  BY <1>1, <1>3 DEF RebuildInv, ExtraOK, AboveWritten
<1>5. /\ ~threw' /\ written' \in Seq([node : Int, new : BOOLEAN])
      /\ \A i, j \in DOMAIN written' : i < j => written'[i].node < written'[j].node
      /\ Elements(written') = Elements(written) \cup {[node |-> Extra[b + 1], new |-> TRUE]}
      /\ \A m \in Int : WrittenBelow(m) /\ Extra[b + 1] < m => WrittenBelow(m)'
  BY <1>1, <1>4, AddAppends
<1>6. FromBase' = FromBase /\ FromExtra' = FromExtra \cup {[node |-> Extra[b + 1], new |-> TRUE]}
  <2>1. FromBase' = FromBase
    BY <1>1 DEF FromBase
  <2>2. \A i : i \in 1..(b + 1) <=> i \in 1..b \/ i = b + 1
    BY <1>3
  <2>3. FromExtra' = {[node |-> Extra[i], new |-> TRUE] : i \in 1..(b + 1)}
    BY <1>1, <1>2 DEF FromExtra
  <2>. QED BY <2>1, <2>2, <2>3 DEF FromExtra
<1>7. ASSUME NEW i \in (rec + 1)..Len(base), base[i] \notin deleted PROVE WrittenBelow(base[i])'
  <2>1. InBase /\ rec + 1 \in 1..Len(base) /\ i \in 1..Len(base) /\ rec + 1 <= i
    BY <1>3 DEF InBase
  <2>2. base[rec + 1] <= base[i] /\ base[rec + 1] \in Int /\ base[i] \in Int
    BY <2>1, AscendingOrders DEF RebuildInv, BaseOK
  <2>3. Extra[b + 1] < base[i]
    BY <1>1, <1>4, <2>1, <2>2 DEF Node
  <2>4. WrittenBelow(base[i])
    BY <1>1, <1>7 DEF RebuildInv, AboveWritten
  <2>. QED BY <1>1, <1>5, <2>2, <2>3, <2>4 DEF WrittenBelow
<1>8. ASSUME NEW i \in (b + 2)..Len(Extra) PROVE WrittenBelow(Extra[i])'
  <2>1. i \in 1..Len(Extra) /\ b + 1 < i /\ i \in (b + 1)..Len(Extra)
    BY <1>3
  <2>2. Extra[b + 1] < Extra[i] /\ Extra[i] \in Int
    BY <1>3, <2>1, AscendingOrders DEF RebuildInv, ExtraOK
  <2>3. WrittenBelow(Extra[i])
    BY <1>1, <2>1 DEF RebuildInv, AboveWritten
  <2>. QED BY <1>2, <1>5, <2>2, <2>3 DEF WrittenBelow
<1>9. AboveWritten'
  <2>1. (b + 1) + 1 = b + 2
    BY <1>3
  <2>. QED BY <1>1, <1>2, <1>7, <1>8, <2>1 DEF AboveWritten
<1>10. BaseOK' /\ ExtraOK' /\ b' \in 0..Len(Extra)'
  <2>1. BaseOK'
    BY <1>1 DEF RebuildInv, BaseOK, IsAscending
  <2>2. Elements(Extra)' = Elements(Extra) /\ Elements(base)' = Elements(base)
    BY <1>1, <1>2 DEF Elements
  <2>3. IsAscending(Extra)'
    BY <1>2 DEF RebuildInv, ExtraOK, IsAscending
  <2>. QED BY <1>1, <1>2, <1>3, <2>1, <2>2, <2>3 DEF RebuildInv, ExtraOK
<1>11. Elements(written)' = FromBase' \cup FromExtra'
  BY <1>1, <1>5, <1>6 DEF RebuildInv, Elements
<1>. QED BY <1>1, <1>3, <1>5, <1>9, <1>10, <1>11 DEF RebuildInv

\* The loop's place in the base goes past a record, which was copied or is deleted.
LEMMA RebuildAdvances ==
  ASSUME RebuildInv, Rebuilding, InBase, rec' = rec + 1,
         UNCHANGED <<job, base, overlay, deleted, b>>,
         BaseOK', ExtraOK', Extra' = Extra,
         /\ ~threw' /\ written' \in Seq([node : Int, new : BOOLEAN])
         /\ \A i, j \in DOMAIN written' : i < j => written'[i].node < written'[j].node,
         \/ Node \in deleted /\ written' = written
         \/ /\ Node \notin deleted
            /\ Elements(written') = Elements(written) \cup {[node |-> Node, new |-> Node \in overlay]}
            /\ \A m \in Int : WrittenBelow(m) /\ Node < m => WrittenBelow(m)'
            /\ \A i \in (b + 1)..Len(Extra) : Node < Extra[i]
  PROVE  RebuildInv'
<1>1. /\ rec \in Nat /\ b \in Nat /\ Len(base) \in Nat /\ rec < Len(base) /\ rec + 1 \in 1..Len(base)
      /\ Len(Extra) \in Nat /\ job = "rebuild" /\ Node = base[rec + 1]
  BY DEF RebuildInv, InBase, BaseOK, ExtraOK, Rebuilding, Node
<1>2. \A i : i \in 1..(rec + 1) <=> i \in 1..rec \/ i = rec + 1
  BY <1>1
<1>3. FromExtra' = FromExtra
  BY DEF FromExtra
<1>4. FromBase' = IF Node \in deleted THEN FromBase
                  ELSE FromBase \cup {[node |-> Node, new |-> Node \in overlay]}
  <2>1. FromBase' = {[node |-> base[i], new |-> base[i] \in overlay] :
                       i \in {j \in 1..(rec + 1) : base[j] \notin deleted}}
    BY DEF FromBase
  <2>2. CASE Node \in deleted
    <3>1. {j \in 1..(rec + 1) : base[j] \notin deleted} = {j \in 1..rec : base[j] \notin deleted}
      BY <1>1, <1>2, <2>2
    <3>. QED BY <2>1, <2>2, <3>1 DEF FromBase
  <2>3. CASE Node \notin deleted
    <3>1. {j \in 1..(rec + 1) : base[j] \notin deleted}
            = {j \in 1..rec : base[j] \notin deleted} \cup {rec + 1}
      BY <1>1, <1>2, <2>3
    <3>. QED BY <1>1, <2>1, <2>3, <3>1 DEF FromBase
  <2>. QED BY <2>2, <2>3
<1>5. Elements(written)' = FromBase' \cup FromExtra'
  BY <1>1, <1>3, <1>4 DEF RebuildInv, Elements
<1>6. ASSUME NEW i \in (rec + 2)..Len(base), base[i] \notin deleted PROVE WrittenBelow(base[i])'
  <2>1. i \in 1..Len(base) /\ rec + 1 < i /\ i \in (rec + 1)..Len(base)
    BY <1>1
  <2>2. base[rec + 1] < base[i] /\ base[i] \in Int
    BY <1>1, <2>1, AscendingOrders DEF RebuildInv, BaseOK
  <2>3. WrittenBelow(base[i])
    BY <1>1, <1>6, <2>1 DEF RebuildInv, AboveWritten
  <2>. QED BY <1>1, <2>2, <2>3 DEF WrittenBelow
<1>7. ASSUME NEW i \in (b + 1)..Len(Extra) PROVE WrittenBelow(Extra[i])'
  <2>1. WrittenBelow(Extra[i]) /\ Extra[i] \in Int
    BY <1>1, <1>7 DEF RebuildInv, AboveWritten, ExtraOK
  <2>. QED BY <1>7, <2>1 DEF WrittenBelow
<1>8. AboveWritten'
  <2>1. (rec + 1) + 1 = rec + 2
    BY <1>1
  <2>. QED BY <1>6, <1>7, <2>1 DEF AboveWritten
<1>. QED BY <1>1, <1>5, <1>8 DEF RebuildInv

LEMMA RebuildStep == ASSUME RebuildInv, [Next]_vars PROVE RebuildInv'
<1>0. /\ UNCHANGED <<job, base, overlay, deleted>> /\ Extra' = Extra /\ BaseOK' /\ ExtraOK'
  <2>1. UNCHANGED <<job, base, overlay, deleted>>
    BY DEF Next, vars, inputs, Advance, Meet, Pass, RunOut, SkipDeleted, AddExtra, AddRecord
  <2>2. Extra' = Extra
    BY <2>1 DEF Extra, Elements
  <2>. QED BY <2>1, <2>2 DEF RebuildInv, BaseOK, ExtraOK, IsAscending, Elements
<1>1. CASE UNCHANGED vars \/ Advance \/ Meet \/ Pass \/ RunOut
  <2>1. /\ UNCHANGED <<b, written, threw>> /\ rec' \in {rec, rec + 1}
        /\ job = "rebuild" => rec' = rec
    BY <1>1 DEF vars, output, Advance, Meet, Pass, RunOut, Resolving
  <2>2. job = "rebuild" =>
          FromBase' = FromBase /\ FromExtra' = FromExtra /\ (AboveWritten => AboveWritten')
    BY <1>0, <2>1 DEF FromBase, FromExtra, AboveWritten, WrittenBelow
  <2>. QED BY <1>0, <2>1, <2>2 DEF RebuildInv, Elements
<1>2. CASE SkipDeleted
  <2>1. Rebuilding /\ InBase /\ rec' = rec + 1 /\ UNCHANGED <<b, written, threw>> /\ Node \in deleted
    BY <1>2 DEF SkipDeleted, output
  <2>. QED BY <1>0, <2>1, RebuildAdvances DEF RebuildInv
<1>3. CASE AddExtra
  BY <1>3, RebuildAddsExtra
<1>4. CASE AddRecord
  <2>1. /\ Rebuilding /\ InBase /\ Node \notin deleted /\ rec' = rec + 1 /\ b' = b
        /\ b < Len(Extra) => Extra[b + 1] >= Node
        /\ Add(Node, Node \in overlay)
    BY <1>4 DEF AddRecord
  <2>2. rec + 1 \in 1..Len(base) /\ Node = base[rec + 1] /\ Node \in Int /\ rec \in Nat
    <3>1. base \in Seq(Int) /\ rec \in Nat /\ rec < Len(base)
      BY <2>1 DEF InBase, RebuildInv, BaseOK
    <3>2. rec + 1 \in 1..Len(base)
      BY <3>1
    <3>. QED BY <3>1, <3>2 DEF Node
  <2>3. WrittenBelow(Node)
    <3>1. rec + 1 \in (rec + 1)..Len(base)
      BY <2>2
    <3>. QED BY <2>1, <2>2, <3>1 DEF RebuildInv, AboveWritten, Rebuilding
  <2>4. ASSUME NEW i \in (b + 1)..Len(Extra) PROVE Node < Extra[i]
    <3>1. i \in 1..Len(Extra) /\ b + 1 \in 1..Len(Extra) /\ b + 1 <= i /\ b < Len(Extra)
      BY DEF RebuildInv, ExtraOK
    <3>2. Extra[b + 1] <= Extra[i] /\ Extra[b + 1] \in Int /\ Extra[i] \in Int
      BY <3>1, AscendingOrders DEF RebuildInv, ExtraOK
    <3>3. Extra[b + 1] # Node
      BY <2>2, <3>1, ExtraIsNew
    <3>. QED BY <2>1, <2>2, <3>1, <3>2, <3>3
  <2> DEFINE new == Node \in overlay
  <2>5. new \in BOOLEAN
    OBVIOUS
  <2> HIDE DEF new
  <2>6. /\ ~threw' /\ written' \in Seq([node : Int, new : BOOLEAN])
        /\ \A i, j \in DOMAIN written' : i < j => written'[i].node < written'[j].node
        /\ Elements(written') = Elements(written) \cup {[node |-> Node, new |-> new]}
        /\ \A m \in Int : WrittenBelow(m) /\ Node < m => WrittenBelow(m)'
    <3>1. Add(Node, new)
      BY <2>1 DEF new
    <3>. QED BY <2>2, <2>3, <2>5, <3>1, AddAppends
  <2>. QED BY <1>0, <2>1, <2>4, <2>6, RebuildAdvances DEF new
<1>. QED BY <1>1, <1>2, <1>3, <1>4 DEF Next

\* The writer is never given a record out of order, and the new base is the view that
\* post() gave of the old one: the overlay's cells, the base's for the others, nothing
\* for the deleted, each node once.
THEOREM RebuildIsThePostViewTheorem == Spec => []RebuildIsThePostView
<1>1. RebuildInv => RebuildIsThePostView
  <2> SUFFICES ASSUME RebuildInv, job = "rebuild", ~InBase, b = Len(Extra)
               PROVE  /\ Elements(written) =
                           {[node |-> n, new |-> TRUE] : n \in overlay} \cup
                           {[node |-> n, new |-> FALSE] : n \in Elements(base) \ (overlay \cup deleted)}
                      /\ Len(written) = Cardinality(Elements(written))
    BY DEF RebuildInv, RebuildIsThePostView
  <2>1. /\ rec = Len(base) /\ Len(base) \in Nat /\ DOMAIN base = 1..rec
        /\ Len(Extra) \in Nat /\ DOMAIN Extra = 1..b
    BY DEF RebuildInv, InBase, BaseOK, ExtraOK
  <2>2. FromBase = {[node |-> n, new |-> n \in overlay] : n \in Elements(base) \ deleted}
    BY <2>1 DEF FromBase, Elements
  <2>3. FromExtra = {[node |-> n, new |-> TRUE] : n \in overlay \ Elements(base)}
    <3>1. FromExtra = {[node |-> n, new |-> TRUE] : n \in Elements(Extra)}
      BY <2>1 DEF FromExtra, Elements
    <3>. QED BY <3>1 DEF RebuildInv, ExtraOK
  <2>4. Elements(written) = FromBase \cup FromExtra /\ overlay \intersect deleted = {}
    BY DEF RebuildInv
  <2>5. Elements(written) =
          {[node |-> n, new |-> TRUE] : n \in overlay} \cup
          {[node |-> n, new |-> FALSE] : n \in Elements(base) \ (overlay \cup deleted)}
    <3> DEFINE New(n) == [node |-> n, new |-> TRUE]
               Old(n) == [node |-> n, new |-> FALSE]
    <3>1. FromBase = {New(n) : n \in (Elements(base) \ deleted) \intersect overlay}
                       \cup {Old(n) : n \in (Elements(base) \ deleted) \ overlay}
      <4>1. \A n \in overlay : [node |-> n, new |-> n \in overlay] = New(n)
        OBVIOUS
      <4>2. \A n : n \notin overlay => [node |-> n, new |-> n \in overlay] = Old(n)
        <5>1. \A n : n \notin overlay => (n \in overlay) = FALSE
          OBVIOUS
        <5>. QED BY <5>1
      <4> HIDE DEF New, Old
      <4>. QED BY <2>2, <4>1, <4>2
    <3>2. (Elements(base) \ deleted) \intersect overlay = Elements(base) \intersect overlay
      BY <2>4
    <3> HIDE DEF New, Old
    <3>3. {New(n) : n \in Elements(base) \intersect overlay} \cup {New(n) : n \in overlay \ Elements(base)}
            = {New(n) : n \in overlay}
      OBVIOUS
    <3>4. (Elements(base) \ deleted) \ overlay = Elements(base) \ (overlay \cup deleted)
      OBVIOUS
    <3>5. FromExtra = {New(n) : n \in overlay \ Elements(base)}
      BY <2>3 DEF New
    <3>6. Elements(written) = {New(n) : n \in overlay}
                                \cup {Old(n) : n \in Elements(base) \ (overlay \cup deleted)}
      BY <2>4, <3>1, <3>2, <3>3, <3>4, <3>5
    <3>. QED BY <3>6 DEF New, Old
  <2>6. Cardinality(Elements(written)) = Len(written)
    <3> DEFINE n == Len(written)
               f == [i \in 1..n |-> written[i]]
    <3>1. n \in Nat /\ DOMAIN written = 1..n /\ \A i \in 1..n : written[i].node \in Int
      <4> DEFINE R == [node : Int, new : BOOLEAN]
      <4>1. written \in Seq(R)
        BY DEF RebuildInv
      <4> HIDE DEF R
      <4>2. n \in Nat /\ DOMAIN written = 1..n /\ \A i \in 1..n : written[i] \in R
        BY <4>1
      <4>. QED BY <4>2 DEF R
    <3> HIDE DEF n
    <3>2. \A i, j \in 1..n : f[i] = f[j] => i = j
      <4> SUFFICES ASSUME NEW i \in 1..n, NEW j \in 1..n, written[i] = written[j], i # j PROVE FALSE
        OBVIOUS
      <4>1. i < j \/ j < i
        BY <3>1
      <4>. QED BY <3>1, <4>1 DEF RebuildInv
    <3>3. f \in Bijection(1..n, Elements(written))
      <4>1. f \in [1..n -> Elements(written)] /\ \A x \in Elements(written) : \E i \in 1..n : f[i] = x
        BY <3>1 DEF Elements
      <4>. QED BY <3>2, <4>1 DEF Bijection, Injection, Surjection, IsInjective
    <3>4. IsFiniteSet(1..n) /\ Cardinality(1..n) = n
      BY <3>1, FS_Interval
    <3>5. ExistsBijection(1..n, Elements(written))
      BY <3>3 DEF ExistsBijection
    <3>. QED BY <3>4, <3>5, FS_Bijection DEF n
  <2>. QED BY <2>5, <2>6
<1>. QED BY <1>1, RebuildInit, RebuildStep, PTL DEF Spec
=============================================================================
