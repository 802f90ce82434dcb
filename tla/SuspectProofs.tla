---------------------------- MODULE SuspectProofs ----------------------------
(***************************************************************************)
(* What the operators of the suspect stores and filters give, for every    *)
(* sequence of versions: sums, sequences and the order of keys; the rows   *)
(* read back from a store; what a tally counts; and the sliding windows    *)
(* against the hours they stand for.                                       *)
(***************************************************************************)
EXTENDS SuspectFilters, DataInduction, SequenceTheorems

\* A family that has {} and, with a set, the set with one element more has every
\* finite set.
LEMMA SetsBySteps ==
  ASSUME NEW S, IsFiniteSet(S), NEW F, {} \in F,
         \A T \in F : T \subseteq S => \A x \in S \ T : T \cup {x} \in F
  PROVE  S \in F
<1> DEFINE Has == {n \in Nat : \A T \in SUBSET S : Cardinality(T) = n => T \in F}
<1>1. \A T \in SUBSET S : IsFiniteSet(T) /\ Cardinality(T) \in Nat
  BY FS_Subset, FS_CardinalityType
<1>2. 0 \in Has
  BY <1>1, FS_EmptySet
<1>3. ASSUME NEW n \in Has PROVE n + 1 \in Has
  <2> SUFFICES ASSUME NEW T \in SUBSET S, Cardinality(T) = n + 1 PROVE T \in F
    OBVIOUS
  <2>1. PICK z \in T : TRUE
    BY <1>1, FS_EmptySet
  <2>2. Cardinality(T \ {z}) = n
    BY <1>1, <2>1, FS_RemoveElement
  <2>3. T \ {z} \in F /\ T \ {z} \subseteq S /\ z \in S \ (T \ {z})
    BY <2>1, <2>2
  <2>4. (T \ {z}) \cup {z} \in F
    BY <2>3
  <2>5. (T \ {z}) \cup {z} = T
    BY <2>1
  <2>. QED BY <2>4, <2>5
<1>4. Nat \subseteq Has
  <2> HIDE DEF Has
  <2>. QED BY <1>2, <1>3, NaturalsBySteps
<1>5. Cardinality(S) \in Has
  BY <1>1, <1>4
<1>. QED BY <1>5

LEMMA OneLess ==
  ASSUME NEW S, IsFiniteSet(S), NEW x \in S
  PROVE  /\ IsFiniteSet(S \ {x}) /\ Cardinality(S \ {x}) \in Nat
         /\ Cardinality(S) = Cardinality(S \ {x}) + 1
<1>1. IsFiniteSet(S \ {x}) /\ Cardinality(S \ {x}) = Cardinality(S) - 1 /\ Cardinality(S) \in Nat
  BY FS_RemoveElement, FS_CardinalityType
<1>2. Cardinality(S \ {x}) \in Nat
  BY <1>1, FS_CardinalityType
<1>. QED BY <1>1, <1>2

-----------------------------------------------------------------------------
(* Sums *)

\* What SumFunctionOnSet chooses.
Sums(it, f, S) ==
  it = [s \in SUBSET S |-> IF s = {} THEN 0
                           ELSE f[CHOOSE x \in s : TRUE] + it[s \ {CHOOSE x \in s : TRUE}]]

LEMMA SumIsChosen ==
  ASSUME NEW f, NEW S PROVE SumFunctionOnSet(f, S) = (CHOOSE it : Sums(it, f, S))[S]
BY DEF SumFunctionOnSet, FoldFunctionOnSet, MapThenFoldSet, Sums

LEMMA SumsExist ==
  ASSUME NEW f, NEW S, IsFiniteSet(S) PROVE \E it : Sums(it, f, S)
<1> DEFINE pick(s) == CHOOSE x \in s : TRUE
           upTo(it, n) == \A s \in SUBSET S : Cardinality(s) <= n =>
                            it[s] = (IF s = {} THEN 0 ELSE f[pick(s)] + it[s \ {pick(s)}])
           Has == {n \in Nat : \E it : it = [s \in SUBSET S |-> it[s]] /\ upTo(it, n)}
<1>1. \A s \in SUBSET S : IsFiniteSet(s) /\ Cardinality(s) \in Nat
  BY FS_Subset, FS_CardinalityType
<1>2. 0 \in Has
  <2> DEFINE it == [s \in SUBSET S |-> 0]
  <2>1. upTo(it, 0)
    BY <1>1, FS_EmptySet
  <2>. QED BY <2>1
<1>3. ASSUME NEW n \in Has PROVE n + 1 \in Has
  <2>1. PICK it : it = [s \in SUBSET S |-> it[s]] /\ upTo(it, n)
    OBVIOUS
  <2> DEFINE new == [s \in SUBSET S |-> IF Cardinality(s) <= n THEN it[s]
                                        ELSE f[pick(s)] + it[s \ {pick(s)}]]
  <2>2. ASSUME NEW s \in SUBSET S, Cardinality(s) <= n + 1
        PROVE  new[s] = (IF s = {} THEN 0 ELSE f[pick(s)] + new[s \ {pick(s)}])
    <3>1. CASE s = {}
      <4>1. Cardinality(s) <= n /\ Cardinality(s) <= 0
        BY <3>1, FS_EmptySet
      <4>2. it[s] = 0
        BY <2>1, <3>1, <4>1
      <4>. QED BY <3>1, <4>1, <4>2
    <3>2. CASE s # {}
      <4>1. pick(s) \in s
        BY <3>2
      <4> HIDE DEF pick, new, upTo
      <4>2. Cardinality(s \ {pick(s)}) <= n /\ s \ {pick(s)} \in SUBSET S
        BY <1>1, <2>2, <4>1, OneLess
      <4> USE DEF new, upTo
      <4>3. new[s \ {pick(s)}] = it[s \ {pick(s)}]
        BY <4>2
      <4>4. Cardinality(s) <= n => it[s] = f[pick(s)] + it[s \ {pick(s)}]
        BY <2>1, <3>2
      <4>. QED BY <3>2, <4>3, <4>4
    <3>. QED BY <3>1, <3>2
  <2>3. upTo(new, n + 1)
    <3> HIDE DEF new
    <3>. QED BY <2>2
  <2>4. new = [s \in SUBSET S |-> new[s]]
    OBVIOUS
  <2> HIDE DEF upTo, new
  <2>. QED BY <2>3, <2>4
<1>4. Nat \subseteq Has
  <2> HIDE DEF Has
  <2>. QED BY <1>2, <1>3, NaturalsBySteps
<1>5. Cardinality(S) \in Has
  BY <1>1, <1>4
<1>6. PICK it : it = [s \in SUBSET S |-> it[s]] /\ upTo(it, Cardinality(S))
  BY <1>5
<1>7. \A s \in SUBSET S : it[s] = (IF s = {} THEN 0 ELSE f[pick(s)] + it[s \ {pick(s)}])
  BY <1>1, <1>6, FS_Subset
<1> HIDE DEF upTo
<1>8. Sums(it, f, S)
  BY <1>6, <1>7 DEF Sums
<1>. QED BY <1>8

LEMMA SumsAgree ==
  ASSUME NEW f, NEW S, IsFiniteSet(S), NEW T \in SUBSET S, NEW it, Sums(it, f, S),
         NEW jt, Sums(jt, f, T)
  PROVE  jt[T] = it[T]
<1> DEFINE pick(s) == CHOOSE x \in s : TRUE
           Has == {n \in Nat : \A s \in SUBSET T : Cardinality(s) = n => it[s] = jt[s]}
<1>1. \A s \in SUBSET T : IsFiniteSet(s) /\ Cardinality(s) \in Nat /\ s \in SUBSET S
  BY FS_Subset, FS_CardinalityType
<1>0. Cardinality({}) = 0
  BY FS_EmptySet
<1>2. \A s \in SUBSET T : /\ it[s] = (IF s = {} THEN 0 ELSE f[pick(s)] + it[s \ {pick(s)}])
                          /\ jt[s] = (IF s = {} THEN 0 ELSE f[pick(s)] + jt[s \ {pick(s)}])
  BY <1>1 DEF Sums
<1>3. 0 \in Has
  BY <1>1, <1>2, FS_EmptySet
<1>4. ASSUME NEW n \in Has PROVE n + 1 \in Has
  <2> SUFFICES ASSUME NEW s \in SUBSET T, Cardinality(s) = n + 1 PROVE it[s] = jt[s]
    OBVIOUS
  <2>0. n + 1 # 0
    <3>1. n \in Nat OBVIOUS
    <3> QED BY <3>1
  <2>1. s # {}
    <3> HIDE DEF Has
    <3> QED BY <1>0, <2>0
  <2>2. pick(s) \in s
    BY <2>1
  <2>3. s \ {pick(s)} \in SUBSET T /\ Cardinality(s \ {pick(s)}) = n
    <3>1. n \in Nat
      OBVIOUS
    <3> HIDE DEF pick, Has
    <3>. QED BY <1>1, <2>2, <3>1, OneLess
  <2>4. it[s \ {pick(s)}] = jt[s \ {pick(s)}]
    BY <2>3
  <2> HIDE DEF pick
  <2>. QED BY <1>2, <2>1, <2>4
<1>5. Nat \subseteq Has
  <2> HIDE DEF Has
  <2>. QED BY <1>3, <1>4, NaturalsBySteps
<1>6. Cardinality(T) \in Has
  BY <1>1, <1>5
<1>. QED BY <1>6

\* The sum of no value, and one value set apart from the sum.
LEMMA SumEmpty == ASSUME NEW f PROVE SumFunctionOnSet(f, {}) = 0
<1>1. PICK it : Sums(it, f, {})
  BY FS_EmptySet, SumsExist
<1>2. Sums(CHOOSE jt : Sums(jt, f, {}), f, {})
  BY <1>1
<1>. QED BY <1>2, SumIsChosen DEF Sums

LEMMA SumOne ==
  ASSUME NEW f, NEW S, IsFiniteSet(S), S # {}
  PROVE  \E x \in S : SumFunctionOnSet(f, S) = f[x] + SumFunctionOnSet(f, S \ {x})
<1> DEFINE it == CHOOSE jt : Sums(jt, f, S)
           x == CHOOSE y \in S : TRUE
           jt == CHOOSE kt : Sums(kt, f, S \ {x})
<1>1. Sums(it, f, S)
  BY SumsExist
<1>2. IsFiniteSet(S \ {x}) /\ S \ {x} \in SUBSET S /\ x \in S
  BY FS_Subset
<1>3. Sums(jt, f, S \ {x})
  BY <1>2, SumsExist
<1>4. SumFunctionOnSet(f, S) = it[S] /\ SumFunctionOnSet(f, S \ {x}) = jt[S \ {x}]
  BY SumIsChosen
<1> HIDE DEF it, jt
<1>5. jt[S \ {x}] = it[S \ {x}]
  BY <1>1, <1>2, <1>3, SumsAgree
<1>6. it[S] = f[x] + it[S \ {x}]
  BY <1>1 DEF Sums
<1>. QED BY <1>2, <1>4, <1>5, <1>6

LEMMA SumInInt ==
  ASSUME NEW f, NEW S, IsFiniteSet(S), \A x \in S : f[x] \in Int
  PROVE  SumFunctionOnSet(f, S) \in Int
<1> DEFINE Has == {n \in Nat : \A T \in SUBSET S : Cardinality(T) = n => SumFunctionOnSet(f, T) \in Int}
<1>1. \A T \in SUBSET S : IsFiniteSet(T) /\ Cardinality(T) \in Nat
  BY FS_Subset, FS_CardinalityType
<1>2. 0 \in Has
  BY <1>1, FS_EmptySet, SumEmpty
<1>3. ASSUME NEW n \in Nat, n \in Has PROVE n + 1 \in Has
  <2> SUFFICES ASSUME NEW T \in SUBSET S, Cardinality(T) = n + 1 PROVE SumFunctionOnSet(f, T) \in Int
    OBVIOUS
  <2>1. T # {}
    <3>1. Cardinality({}) = 0
      BY FS_EmptySet
    <3>. QED BY <3>1
  <2>2. PICK x \in T : SumFunctionOnSet(f, T) = f[x] + SumFunctionOnSet(f, T \ {x})
    BY <1>1, <2>1, SumOne
  <2>3. Cardinality(T \ {x}) = n /\ T \ {x} \in SUBSET S
    BY <1>1, OneLess
  <2>. QED BY <1>3, <2>2, <2>3
<1>4. Nat \subseteq Has
  <2> HIDE DEF Has
  <2>. QED BY <1>2, <1>3, NaturalsBySteps
<1>5. Cardinality(S) \in Has
  BY <1>1, <1>4
<1>. QED BY <1>1, <1>5

\* Any value may be the one set apart.
LEMMA SumRemove ==
  ASSUME NEW f, NEW S, IsFiniteSet(S), \A x \in S : f[x] \in Int, NEW y \in S
  PROVE  /\ SumFunctionOnSet(f, S) \in Int
         /\ SumFunctionOnSet(f, S) = f[y] + SumFunctionOnSet(f, S \ {y})
<1> DEFINE sum(T) == SumFunctionOnSet(f, T)
           Ok(T) == sum(T) \in Int /\ \A z \in T : sum(T) = f[z] + sum(T \ {z})
           Has == {n \in Nat : \A T \in SUBSET S : Cardinality(T) = n => Ok(T)}
<1>1. \A T \in SUBSET S : IsFiniteSet(T) /\ Cardinality(T) \in Nat
  BY FS_Subset, FS_CardinalityType
<1>2. 0 \in Has
  <2> SUFFICES ASSUME NEW T \in SUBSET S, Cardinality(T) = 0 PROVE Ok(T)
    OBVIOUS
  <2>1. T = {}
    BY <1>1, FS_EmptySet
  <2>. QED BY <2>1, SumEmpty
<1>3. ASSUME NEW n \in Nat, n \in Has PROVE n + 1 \in Has
  <2> SUFFICES ASSUME NEW T \in SUBSET S, Cardinality(T) = n + 1 PROVE Ok(T)
    OBVIOUS
  <2>1. \A z \in T : Cardinality(T \ {z}) = n /\ T \ {z} \in SUBSET S
    BY <1>1, OneLess
  <2>2. \A z \in T : Ok(T \ {z})
    BY <1>3, <2>1
  <2>3. T # {}
    BY FS_EmptySet
  <2>4. PICK x \in T : sum(T) = f[x] + sum(T \ {x})
    BY <1>1, <2>3, SumOne
  <2>5. sum(T) \in Int
    BY <2>2, <2>4
  <2>6. ASSUME NEW z \in T PROVE sum(T) = f[z] + sum(T \ {z})
    <3>1. CASE z = x
      BY <2>4, <3>1
    <3>2. CASE z # x
      <4>1. (T \ {x}) \ {z} = (T \ {z}) \ {x}
        OBVIOUS
      <4>2. sum(T \ {x}) = f[z] + sum((T \ {x}) \ {z})
        BY <2>2, <3>2
      <4>3. sum(T \ {z}) = f[x] + sum((T \ {x}) \ {z})
        BY <2>2, <3>2, <4>1
      <4>4. sum(T \ {x}) \in Int /\ sum(T \ {z}) \in Int /\ f[x] \in Int /\ f[z] \in Int
        BY <2>2
      <4>5. sum((T \ {x}) \ {z}) \in Int
        <5>1. z \in T \ {x}
          BY <3>2
        <5>2. Cardinality(T \ {x}) = n
          BY <2>1
        <5>3. (T \ {x}) \ {z} \in SUBSET S /\ IsFiniteSet((T \ {x}) \ {z})
          BY <1>1
        <5>. QED BY <5>3, SumInInt
      <4> HIDE DEF sum
      <4>. QED BY <2>4, <4>2, <4>3, <4>4, <4>5
    <3>. QED BY <3>1, <3>2
  <2>. QED BY <2>5, <2>6
<1>4. Nat \subseteq Has
  <2> HIDE DEF Has
  <2>. QED BY <1>2, <1>3, NaturalsBySteps
<1>5. Cardinality(S) \in Has
  BY <1>1, <1>4
<1>. QED BY <1>1, <1>5

LEMMA SumAdd ==
  ASSUME NEW f, NEW S, IsFiniteSet(S), \A x \in S : f[x] \in Int, NEW y, y \notin S, f[y] \in Int
  PROVE  SumFunctionOnSet(f, S \cup {y}) = SumFunctionOnSet(f, S) + f[y]
<1>1. IsFiniteSet(S \cup {y}) /\ (S \cup {y}) \ {y} = S
  BY FS_AddElement
<1>2. SumFunctionOnSet(f, S \cup {y}) = f[y] + SumFunctionOnSet(f, (S \cup {y}) \ {y})
  BY <1>1, SumRemove
<1>3. SumFunctionOnSet(f, S) \in Int
  BY SumInInt
<1>4. SumFunctionOnSet(f, (S \cup {y}) \ {y}) = SumFunctionOnSet(f, S)
  BY <1>1
<1>. QED BY <1>2, <1>3, <1>4

LEMMA SumSame ==
  ASSUME NEW f, NEW g, NEW S, IsFiniteSet(S), \A x \in S : f[x] \in Int /\ f[x] = g[x]
  PROVE  SumFunctionOnSet(f, S) = SumFunctionOnSet(g, S)
<1> DEFINE F == {T \in SUBSET S : SumFunctionOnSet(f, T) = SumFunctionOnSet(g, T)}
<1>1. {} \in F
  BY SumEmpty
<1>2. ASSUME NEW T \in F, NEW x \in S \ T PROVE T \cup {x} \in F
  <2>1. IsFiniteSet(T)
    BY FS_Subset
  <2>. QED BY <2>1, SumAdd
<1> HIDE DEF F
<1>3. S \in F
  BY <1>1, <1>2, SetsBySteps
<1>. QED BY <1>3 DEF F

LEMMA SumLeq ==
  ASSUME NEW f, NEW g, NEW S, IsFiniteSet(S),
         \A x \in S : f[x] \in Int /\ g[x] \in Int /\ f[x] <= g[x]
  PROVE  SumFunctionOnSet(f, S) <= SumFunctionOnSet(g, S)
<1> DEFINE F == {T \in SUBSET S : SumFunctionOnSet(f, T) <= SumFunctionOnSet(g, T)}
<1>1. {} \in F
  BY SumEmpty
<1>2. ASSUME NEW T \in F, NEW x \in S \ T PROVE T \cup {x} \in F
  <2>1. IsFiniteSet(T)
    BY FS_Subset
  <2>2. SumFunctionOnSet(f, T) \in Int /\ SumFunctionOnSet(g, T) \in Int
    BY <2>1, SumInInt
  <2>3. SumFunctionOnSet(f, T \cup {x}) = SumFunctionOnSet(f, T) + f[x]
    BY <2>1, SumAdd
  <2>4. SumFunctionOnSet(g, T \cup {x}) = SumFunctionOnSet(g, T) + g[x]
    BY <2>1, SumAdd
  <2>. QED BY <2>2, <2>3, <2>4
<1> HIDE DEF F
<1>3. S \in F
  BY <1>1, <1>2, SetsBySteps
<1>. QED BY <1>3 DEF F

LEMMA SumZero ==
  ASSUME NEW f, NEW S, IsFiniteSet(S), \A x \in S : f[x] = 0
  PROVE  SumFunctionOnSet(f, S) = 0
<1> DEFINE F == {T \in SUBSET S : SumFunctionOnSet(f, T) = 0}
<1>1. {} \in F
  BY SumEmpty
<1>2. ASSUME NEW T \in F, NEW x \in S \ T PROVE T \cup {x} \in F
  <2>1. IsFiniteSet(T)
    BY FS_Subset
  <2>. QED BY <2>1, SumAdd
<1> HIDE DEF F
<1>3. S \in F
  BY <1>1, <1>2, SetsBySteps
<1>. QED BY <1>3 DEF F

LEMMA SumNat ==
  ASSUME NEW f, NEW S, IsFiniteSet(S), \A x \in S : f[x] \in Nat
  PROVE  SumFunctionOnSet(f, S) \in Nat
<1> DEFINE z == [x \in S |-> 0]
<1>1. SumFunctionOnSet(z, S) = 0
  BY SumZero
<1>2. SumFunctionOnSet(z, S) <= SumFunctionOnSet(f, S)
  BY SumLeq
<1>3. SumFunctionOnSet(f, S) \in Int
  BY SumInInt
<1> HIDE DEF z
<1>. QED BY <1>1, <1>2, <1>3

LEMMA SumUnion ==
  ASSUME NEW f, NEW S, IsFiniteSet(S), NEW R, IsFiniteSet(R), S \cap R = {},
         \A x \in S \cup R : f[x] \in Int
  PROVE  SumFunctionOnSet(f, S \cup R) = SumFunctionOnSet(f, S) + SumFunctionOnSet(f, R)
<1> DEFINE F == {T \in SUBSET R : SumFunctionOnSet(f, S \cup T)
                                    = SumFunctionOnSet(f, S) + SumFunctionOnSet(f, T)}
<1>0. SumFunctionOnSet(f, S) \in Int
  BY SumInInt
<1>1. {} \in F
  <2>1. S \cup {} = S
    OBVIOUS
  <2>. QED BY <1>0, <2>1, SumEmpty
<1>2. ASSUME NEW T \in F, NEW x \in R \ T PROVE T \cup {x} \in F
  <2>1. IsFiniteSet(T) /\ IsFiniteSet(S \cup T)
    BY FS_Subset, FS_Union
  <2>2. SumFunctionOnSet(f, T \cup {x}) = SumFunctionOnSet(f, T) + f[x] /\ SumFunctionOnSet(f, T) \in Int
    BY <2>1, SumAdd, SumInInt
  <2>3. SumFunctionOnSet(f, (S \cup T) \cup {x}) = SumFunctionOnSet(f, S \cup T) + f[x]
    BY <2>1, SumAdd
  <2>4. (S \cup T) \cup {x} = S \cup (T \cup {x})
    OBVIOUS
  <2>5. SumFunctionOnSet(f, S \cup (T \cup {x})) = SumFunctionOnSet(f, S \cup T) + f[x]
    BY <2>3, <2>4
  <2>6. SumFunctionOnSet(f, S \cup T) = SumFunctionOnSet(f, S) + SumFunctionOnSet(f, T) /\ f[x] \in Int
    OBVIOUS
  <2>7. SumFunctionOnSet(f, S \cup (T \cup {x}))
          = SumFunctionOnSet(f, S) + SumFunctionOnSet(f, T \cup {x})
    BY <1>0, <2>2, <2>5, <2>6
  <2>. QED BY <2>7
<1> HIDE DEF F
<1>3. R \in F
  BY <1>1, <1>2, SetsBySteps
<1>. QED BY <1>3 DEF F

\* What is nothing outside of R sums up to what it does in R.
LEMMA SumInside ==
  ASSUME NEW f, NEW S, IsFiniteSet(S), NEW R \in SUBSET S,
         \A x \in S : f[x] \in Int, \A x \in S \ R : f[x] = 0
  PROVE  SumFunctionOnSet(f, S) = SumFunctionOnSet(f, R)
<1>1. IsFiniteSet(R) /\ IsFiniteSet(S \ R) /\ R \cup (S \ R) = S
  BY FS_Subset
<1>2. SumFunctionOnSet(f, S \ R) = 0 /\ SumFunctionOnSet(f, R) \in Int
  BY <1>1, SumZero, SumInInt
<1>3. SumFunctionOnSet(f, R \cup (S \ R)) = SumFunctionOnSet(f, R) + SumFunctionOnSet(f, S \ R)
  BY <1>1, SumUnion
<1>4. SumFunctionOnSet(f, R \cup (S \ R)) = SumFunctionOnSet(f, S)
  BY <1>1
<1>. QED BY <1>2, <1>3, <1>4

LEMMA SumPlus ==
  ASSUME NEW f, NEW g, NEW h, NEW S, IsFiniteSet(S),
         \A x \in S : f[x] \in Int /\ g[x] \in Int /\ h[x] = f[x] + g[x]
  PROVE  SumFunctionOnSet(h, S) = SumFunctionOnSet(f, S) + SumFunctionOnSet(g, S)
<1> DEFINE F == {T \in SUBSET S : SumFunctionOnSet(h, T) = SumFunctionOnSet(f, T) + SumFunctionOnSet(g, T)}
<1>1. {} \in F
  BY SumEmpty
<1>2. ASSUME NEW T \in F, NEW x \in S \ T PROVE T \cup {x} \in F
  <2>1. IsFiniteSet(T)
    BY FS_Subset
  <2>2. SumFunctionOnSet(f, T) \in Int /\ SumFunctionOnSet(g, T) \in Int
    BY <2>1, SumInInt
  <2>3. SumFunctionOnSet(f, T \cup {x}) = SumFunctionOnSet(f, T) + f[x]
    BY <2>1, SumAdd
  <2>4. SumFunctionOnSet(g, T \cup {x}) = SumFunctionOnSet(g, T) + g[x]
    BY <2>1, SumAdd
  <2>5. SumFunctionOnSet(h, T \cup {x}) = SumFunctionOnSet(h, T) + h[x]
    BY <2>1, SumAdd
  <2>. QED BY <2>2, <2>3, <2>4, <2>5
<1> HIDE DEF F
<1>3. S \in F
  BY <1>1, <1>2, SetsBySteps
<1>. QED BY <1>3 DEF F

LEMMA SumTimes ==
  ASSUME NEW f, NEW g, NEW c \in Int, NEW S, IsFiniteSet(S),
         \A x \in S : f[x] \in Int /\ g[x] = f[x] * c
  PROVE  SumFunctionOnSet(g, S) = SumFunctionOnSet(f, S) * c
<1> DEFINE F == {T \in SUBSET S : SumFunctionOnSet(g, T) = SumFunctionOnSet(f, T) * c}
<1>1. {} \in F
  BY SumEmpty
<1>2. ASSUME NEW T \in F, NEW x \in S \ T PROVE T \cup {x} \in F
  <2>1. IsFiniteSet(T)
    BY FS_Subset
  <2>2. SumFunctionOnSet(f, T) \in Int /\ f[x] \in Int
    BY <2>1, SumInInt
  <2>3. SumFunctionOnSet(f, T \cup {x}) = SumFunctionOnSet(f, T) + f[x]
    BY <2>1, SumAdd
  <2>4. SumFunctionOnSet(g, T \cup {x}) = SumFunctionOnSet(g, T) + g[x]
    BY <2>1, SumAdd
  <2>5. (SumFunctionOnSet(f, T) + f[x]) * c = SumFunctionOnSet(f, T) * c + f[x] * c
    BY <2>2
  <2>. QED BY <2>3, <2>4, <2>5
<1> HIDE DEF F
<1>3. S \in F
  BY <1>1, <1>2, SetsBySteps
<1>. QED BY <1>3 DEF F

\* One to one, and onto.
Renames(h, S, R) ==
  /\ \A x \in S : h[x] \in R
  /\ \A x, y \in S : h[x] = h[y] => x = y
  /\ \A z \in R : \E x \in S : h[x] = z

\* The same values under other names.
LEMMA SumRenamed ==
  ASSUME NEW f, NEW S, IsFiniteSet(S), NEW g, NEW R, NEW h, Renames(h, S, R),
         \A x \in S : f[x] \in Int /\ f[x] = g[h[x]]
  PROVE  SumFunctionOnSet(f, S) = SumFunctionOnSet(g, R)
<1>0. /\ \A x \in S : h[x] \in R
      /\ \A x, y \in S : h[x] = h[y] => x = y
      /\ \A z \in R : \E x \in S : h[x] = z
  BY DEF Renames
<1> DEFINE to(T) == {h[x] : x \in T}
           F == {T \in SUBSET S : /\ IsFiniteSet(to(T))
                                  /\ SumFunctionOnSet(f, T) = SumFunctionOnSet(g, to(T))}
<1>1. {} \in F
  <2>1. to({}) = {}
    OBVIOUS
  <2>. QED BY <2>1, SumEmpty, FS_EmptySet
<1>2. ASSUME NEW T \in F, NEW x \in S \ T PROVE T \cup {x} \in F
  <2>1. IsFiniteSet(T) /\ IsFiniteSet(to(T))
    BY FS_Subset
  <2>2. to(T \cup {x}) = to(T) \cup {h[x]}
    OBVIOUS
  <2>3. h[x] \notin to(T) /\ T \subseteq S
    BY <1>0
  <2>4. IsFiniteSet(to(T) \cup {h[x]})
    BY <2>1, FS_AddElement
  <2>5. SumFunctionOnSet(f, T \cup {x}) = SumFunctionOnSet(f, T) + f[x]
    BY <2>1, SumAdd
  <2>6. \A z \in to(T) : g[z] \in Int
    OBVIOUS
  <2>7. g[h[x]] \in Int /\ g[h[x]] = f[x]
    OBVIOUS
  <2>8. SumFunctionOnSet(g, to(T) \cup {h[x]}) = SumFunctionOnSet(g, to(T)) + g[h[x]]
    <3> HIDE DEF to, F
    <3>. QED BY <2>1, <2>3, <2>6, <2>7, SumAdd
  <2>9. SumFunctionOnSet(f, T) = SumFunctionOnSet(g, to(T)) /\ T \cup {x} \in SUBSET S
    OBVIOUS
  <2> HIDE DEF to
  <2>. QED BY <2>2, <2>4, <2>5, <2>7, <2>8, <2>9
<1> HIDE DEF F
<1>3. S \in F
  BY <1>1, <1>2, SetsBySteps
<1>4. to(S) = R
  BY <1>0
<1>. QED BY <1>3, <1>4 DEF F

\* Of numbers none of which is negative, parts never sum to more.
LEMMA SumPositive ==
  ASSUME NEW f, NEW S, IsFiniteSet(S), \A x \in S : f[x] \in Nat
  PROVE  /\ SumFunctionOnSet(f, S) \in Nat
         /\ SumFunctionOnSet(f, S) = 0 <=> \A x \in S : f[x] = 0
         /\ \A T \in SUBSET S : SumFunctionOnSet(f, T) <= SumFunctionOnSet(f, S)
<1>1. \A T \in SUBSET S : IsFiniteSet(T) /\ SumFunctionOnSet(f, T) \in Nat
  BY FS_Subset, SumNat
<1>2. ASSUME NEW T \in SUBSET S PROVE SumFunctionOnSet(f, T) <= SumFunctionOnSet(f, S)
  <2> DEFINE R == S \ T
  <2>1. IsFiniteSet(T) /\ IsFiniteSet(R) /\ T \cap R = {} /\ S = T \cup R
    BY <1>1
  <2>2. \A x \in T \cup R : f[x] \in Int
    OBVIOUS
  <2>4. SumFunctionOnSet(f, T) \in Nat /\ SumFunctionOnSet(f, R) \in Nat
    BY <1>1
  <2> HIDE DEF R
  <2>3. SumFunctionOnSet(f, T \cup R) = SumFunctionOnSet(f, T) + SumFunctionOnSet(f, R)
    BY <2>1, <2>2, SumUnion
  <2>. QED BY <2>1, <2>3, <2>4
<1>3. ASSUME SumFunctionOnSet(f, S) = 0, NEW y \in S PROVE f[y] = 0
  <2>1. \A x \in S : f[x] \in Int
    OBVIOUS
  <2>2. SumFunctionOnSet(f, S) = f[y] + SumFunctionOnSet(f, S \ {y})
    BY <2>1, SumRemove
  <2>3. SumFunctionOnSet(f, S \ {y}) \in Nat
    BY <1>1
  <2>. QED BY <1>3, <2>2, <2>3
<1>4. (\A x \in S : f[x] = 0) => SumFunctionOnSet(f, S) = 0
  BY SumZero
<1>. QED BY <1>1, <1>2, <1>3, <1>4

-----------------------------------------------------------------------------
(* Sequences *)

\* A family that has <<>> and, with a sequence, the one with an element more has
\* every sequence.
LEMMA SequencesBySteps ==
  ASSUME NEW X, NEW F, <<>> \in F, \A s \in F : s \in Seq(X) => \A e \in X : Append(s, e) \in F
  PROVE  Seq(X) \subseteq F
<1> DEFINE Has == {n \in Nat : \A s \in Seq(X) : Len(s) = n => s \in F}
<1>1. 0 \in Has
  <2>1. \A s \in Seq(X) : Len(s) = 0 => s = <<>>
    OBVIOUS
  <2>. QED BY <2>1
<1>2. ASSUME NEW n \in Nat, n \in Has PROVE n + 1 \in Has
  <2> SUFFICES ASSUME NEW s \in Seq(X), Len(s) = n + 1 PROVE s \in F
    OBVIOUS
  <2> DEFINE front == [i \in 1..n |-> s[i]]
  <2>1. front \in Seq(X) /\ Len(front) = n /\ s[n + 1] \in X
    OBVIOUS
  <2>2. s = Append(front, s[n + 1])
    OBVIOUS
  <2>3. front \in F
    BY <1>2, <2>1
  <2> HIDE DEF front
  <2>. QED BY <2>1, <2>2, <2>3
<1>3. Nat \subseteq Has
  <2> HIDE DEF Has
  <2>. QED BY <1>1, <1>2, NaturalsBySteps
<1>. QED BY <1>3

\* What At chooses.
Taken(t, s, I) ==
  t = [n \in 0..Len(s) |-> IF n = 0 THEN <<>>
                           ELSE IF n \in I THEN Append(t[n - 1], s[n]) ELSE t[n - 1]]

LEMMA AtIsChosen ==
  ASSUME NEW s, NEW I PROVE At(s, I) = (CHOOSE t : Taken(t, s, I))[Len(s)]
BY DEF At, Taken

LEMMA TakenExists ==
  ASSUME NEW s, NEW I, Len(s) \in Nat PROVE \E t : Taken(t, s, I)
<1> DEFINE upTo(t, m) == /\ t = [n \in 0..m |-> t[n]]
                         /\ t[0] = <<>>
                         /\ \A n \in 1..m : t[n] = (IF n \in I THEN Append(t[n - 1], s[n]) ELSE t[n - 1])
           Has == {m \in Nat : \E t : upTo(t, m)}
<1>1. 0 \in Has
  <2>1. upTo([n \in 0..0 |-> <<>>], 0)
    OBVIOUS
  <2>. QED BY <2>1
<1>2. ASSUME NEW m \in Nat, m \in Has PROVE m + 1 \in Has
  <2>1. PICK t : upTo(t, m)
    BY <1>2
  <2> DEFINE u == [n \in 0..(m + 1) |-> IF n <= m THEN t[n]
                      ELSE IF n \in I THEN Append(t[n - 1], s[n]) ELSE t[n - 1]]
  <2>2. upTo(u, m + 1)
    BY <2>1
  <2> HIDE DEF upTo, u
  <2>. QED BY <2>2
<1>3. Nat \subseteq Has
  <2> HIDE DEF Has
  <2>. QED BY <1>1, <1>2, NaturalsBySteps
<1>4. PICK t : upTo(t, Len(s))
  BY <1>3
<1>5. \A n \in 0..Len(s) : t[n] = (IF n = 0 THEN <<>>
                                   ELSE IF n \in I THEN Append(t[n - 1], s[n]) ELSE t[n - 1])
  BY <1>4
<1>6. t = [n \in 0..Len(s) |-> t[n]]
  BY <1>4
<1>7. Taken(t, s, I)
  BY <1>5, <1>6 DEF Taken
<1>. QED BY <1>7

\* A sequence with one element more gives that one more, if its position is meant.
LEMMA AtAppend ==
  ASSUME NEW X, NEW s \in Seq(X), NEW e \in X, NEW I
  PROVE  At(Append(s, e), I) = (IF Len(s) + 1 \in I THEN Append(At(s, I), e) ELSE At(s, I))
<1> DEFINE l == Append(s, e)
           t == CHOOSE x : Taken(x, s, I)
           u == CHOOSE x : Taken(x, l, I)
<1>1. Len(s) \in Nat /\ Len(l) = Len(s) + 1 /\ l[Len(s) + 1] = e /\ \A n \in 1..Len(s) : l[n] = s[n]
  OBVIOUS
<1>2. Taken(t, s, I) /\ Taken(u, l, I)
  <2>1. \E x : Taken(x, s, I)
    BY <1>1, TakenExists
  <2> HIDE DEF l
  <2>2. Len(l) \in Nat
    BY <1>1
  <2>3. \E x : Taken(x, l, I)
    BY <2>2, TakenExists
  <2>. QED BY <2>1, <2>3
<1>3. At(s, I) = t[Len(s)] /\ At(l, I) = u[Len(s) + 1]
  BY <1>1, AtIsChosen
<1> HIDE DEF l, t, u
<1>9. /\ \A n \in 0..Len(s) : t[n] = (IF n = 0 THEN <<>>
                                   ELSE IF n \in I THEN Append(t[n - 1], s[n]) ELSE t[n - 1])
      /\ \A n \in 0..Len(l) : u[n] = (IF n = 0 THEN <<>>
                                   ELSE IF n \in I THEN Append(u[n - 1], l[n]) ELSE u[n - 1])
  BY <1>2 DEF Taken
<1>4. /\ t[0] = <<>> /\ u[0] = <<>>
      /\ \A n \in 1..Len(s) : t[n] = (IF n \in I THEN Append(t[n - 1], s[n]) ELSE t[n - 1])
      /\ \A n \in 1..Len(s) : u[n] = (IF n \in I THEN Append(u[n - 1], s[n]) ELSE u[n - 1])
      /\ u[Len(s) + 1] = (IF Len(s) + 1 \in I THEN Append(u[Len(s)], e) ELSE u[Len(s)])
  BY <1>1, <1>9
<1> DEFINE Has == {n \in Nat : n <= Len(s) => t[n] = u[n]}
<1>5. 0 \in Has
  BY <1>4
<1>6. ASSUME NEW n \in Nat, n \in Has PROVE n + 1 \in Has
  <2> SUFFICES ASSUME n + 1 <= Len(s) PROVE t[n + 1] = u[n + 1]
    OBVIOUS
  <2>1. n + 1 \in 1..Len(s) /\ (n + 1) - 1 = n /\ t[n] = u[n]
    BY <1>1, <1>6
  <2>. QED BY <1>4, <2>1
<1>7. Nat \subseteq Has
  <2> HIDE DEF Has
  <2>. QED BY <1>5, <1>6, NaturalsBySteps
<1>8. t[Len(s)] = u[Len(s)]
  BY <1>1, <1>7
<1>. QED BY <1>3, <1>4, <1>8 DEF l

LEMMA AtEmpty == ASSUME NEW I PROVE At(<<>>, I) = <<>>
<1>1. Len(<<>>) = 0
  OBVIOUS
<1>2. Taken(CHOOSE t : Taken(t, <<>>, I), <<>>, I)
  BY <1>1, TakenExists
<1>3. At(<<>>, I) = (CHOOSE t : Taken(t, <<>>, I))[0]
  BY <1>1, AtIsChosen
<1>. QED BY <1>1, <1>2, <1>3 DEF Taken

\* Only the positions of the sequence matter.
LEMMA AtSame ==
  ASSUME NEW X, NEW s \in Seq(X), NEW I, NEW J, \A i \in DOMAIN s : i \in I <=> i \in J
  PROVE  At(s, I) = At(s, J)
<1> DEFINE F == {r \in Seq(X) : (\A i \in DOMAIN r : i \in I <=> i \in J) => At(r, I) = At(r, J)}
<1>1. <<>> \in F
  BY AtEmpty
<1>2. ASSUME NEW r \in F, r \in Seq(X), NEW e \in X PROVE Append(r, e) \in F
  <2> SUFFICES ASSUME \A i \in DOMAIN Append(r, e) : i \in I <=> i \in J
               PROVE  At(Append(r, e), I) = At(Append(r, e), J)
    OBVIOUS
  <2>1. DOMAIN Append(r, e) = 1..(Len(r) + 1) /\ Len(r) \in Nat /\ DOMAIN r = 1..Len(r)
    OBVIOUS
  <2>2. At(r, I) = At(r, J) /\ (Len(r) + 1 \in I <=> Len(r) + 1 \in J)
    BY <2>1
  <2> HIDE DEF F
  <2>3. At(Append(r, e), I) = (IF Len(r) + 1 \in I THEN Append(At(r, I), e) ELSE At(r, I))
    BY <1>2, AtAppend
  <2>4. At(Append(r, e), J) = (IF Len(r) + 1 \in J THEN Append(At(r, J), e) ELSE At(r, J))
    BY <1>2, AtAppend
  <2>. QED BY <2>2, <2>3, <2>4
<1>3. Seq(X) \subseteq F
  <2> HIDE DEF F
  <2>. QED BY <1>1, <1>2, SequencesBySteps
<1>. QED BY <1>3

LEMMA AtType ==
  ASSUME NEW X, NEW s \in Seq(X), NEW I PROVE At(s, I) \in Seq(X)
<1> DEFINE F == {r \in Seq(X) : At(r, I) \in Seq(X)}
<1>1. <<>> \in F
  <2>1. At(<<>>, I) = <<>> /\ <<>> \in Seq(X)
    BY AtEmpty
  <2>. QED BY <2>1
<1>2. ASSUME NEW r \in F, NEW e \in X PROVE Append(r, e) \in F
  <2>1. r \in Seq(X) /\ At(r, I) \in Seq(X) /\ Append(r, e) \in Seq(X)
    OBVIOUS
  <2>2. At(Append(r, e), I) = (IF Len(r) + 1 \in I THEN Append(At(r, I), e) ELSE At(r, I))
    BY <2>1, AtAppend
  <2>3. At(Append(r, e), I) \in Seq(X)
    BY <2>1, <2>2
  <2>. QED BY <2>1, <2>3
<1>3. Seq(X) \subseteq F
  <2> HIDE DEF F
  <2>. QED BY <1>1, <1>2, SequencesBySteps
<1>. QED BY <1>3

\* The elements of s at the positions I, in some order.
Takes(t, s, I) ==
  /\ \A j \in DOMAIN t : \E i \in DOMAIN s \cap I : t[j] = s[i]
  /\ \A i \in DOMAIN s \cap I : \E j \in DOMAIN t : t[j] = s[i]

\* What is at the positions, and nothing else.
LEMMA AtHas ==
  ASSUME NEW X, NEW s \in Seq(X), NEW I
  PROVE  Takes(At(s, I), s, I)
<1> DEFINE ok(r) == /\ \A j \in DOMAIN At(r, I) : \E i \in DOMAIN r \cap I : At(r, I)[j] = r[i]
                    /\ \A i \in DOMAIN r \cap I : \E j \in DOMAIN At(r, I) : At(r, I)[j] = r[i]
           F == {r \in Seq(X) : ok(r)}
<1>1. <<>> \in F
  BY AtEmpty
<1>2. ASSUME NEW r \in F, NEW e \in X PROVE Append(r, e) \in F
  <2> DEFINE a == At(r, I)
             q == Append(r, e)
  <2>1. /\ Len(r) \in Nat /\ DOMAIN r = 1..Len(r) /\ DOMAIN q = 1..(Len(r) + 1)
        /\ q[Len(r) + 1] = e /\ \A i \in 1..Len(r) : q[i] = r[i]
    OBVIOUS
  <2>2. a \in Seq(X)
    BY AtType
  <2>3. /\ Len(a) \in Nat /\ DOMAIN a = 1..Len(a)
        /\ DOMAIN Append(a, e) = 1..(Len(a) + 1)
        /\ Append(a, e)[Len(a) + 1] = e /\ \A j \in 1..Len(a) : Append(a, e)[j] = a[j]
    BY <2>2
  <2>4. ok(r)
    OBVIOUS
  <2>5. At(q, I) = (IF Len(r) + 1 \in I THEN Append(a, e) ELSE a)
    BY AtAppend
  <2> HIDE DEF a, q
  <2>8. q \in Seq(X)
    <3>1. r \in Seq(X)
      OBVIOUS
    <3>. QED BY <3>1 DEF q
  <2> SUFFICES /\ \A j \in DOMAIN At(q, I) : \E i \in DOMAIN q \cap I : At(q, I)[j] = q[i]
               /\ \A i \in DOMAIN q \cap I : \E j \in DOMAIN At(q, I) : At(q, I)[j] = q[i]
    BY <2>8, Zenon DEF q
  <2>6. CASE Len(r) + 1 \in I
    <3>1. At(q, I) = Append(a, e)
      BY <2>5, <2>6
    <3>2. ASSUME NEW j \in 1..(Len(a) + 1)
          PROVE  \E i \in DOMAIN q \cap I : Append(a, e)[j] = q[i]
      <4>1. CASE j = Len(a) + 1
        BY <2>1, <2>3, <2>6, <4>1
      <4>2. CASE j \in 1..Len(a)
        <5>1. PICK i \in DOMAIN r \cap I : a[j] = r[i]
          BY <2>3, <2>4, <4>2 DEF a
        <5>. QED BY <2>1, <2>3, <4>2, <5>1
      <4>. QED BY <2>3, <4>1, <4>2
    <3>3. ASSUME NEW i \in DOMAIN q \cap I
          PROVE  \E j \in 1..(Len(a) + 1) : Append(a, e)[j] = q[i]
      <4>1. CASE i = Len(r) + 1
        <5>1. Len(a) + 1 \in 1..(Len(a) + 1)
          BY <2>3
        <5>. QED BY <2>1, <2>3, <4>1, <5>1
      <4>2. CASE i \in 1..Len(r)
        <5>1. PICK j \in DOMAIN a : a[j] = r[i]
          BY <2>1, <2>4, <4>2 DEF a
        <5>2. j \in 1..Len(a) /\ j \in 1..(Len(a) + 1)
          BY <2>3, <5>1
        <5>. QED BY <2>1, <2>3, <4>2, <5>1, <5>2
      <4>. QED BY <2>1, <4>1, <4>2
    <3>4. DOMAIN At(q, I) = 1..(Len(a) + 1)
      BY <2>3, <3>1
    <3>5. \A j \in DOMAIN At(q, I) : \E i \in DOMAIN q \cap I : At(q, I)[j] = q[i]
      BY <3>1, <3>2, <3>4
    <3>6. \A i \in DOMAIN q \cap I : \E j \in DOMAIN At(q, I) : At(q, I)[j] = q[i]
      BY <3>1, <3>3, <3>4
    <3>. QED BY <3>5, <3>6
  <2>7. CASE Len(r) + 1 \notin I
    <3>1. At(q, I) = a
      BY <2>5, <2>7
    <3>2. DOMAIN q \cap I = DOMAIN r \cap I
      BY <2>1, <2>7
    <3>3. \A i \in DOMAIN r \cap I : q[i] = r[i]
      BY <2>1
    <3>5. /\ \A j \in DOMAIN a : \E i \in DOMAIN r \cap I : a[j] = r[i]
          /\ \A i \in DOMAIN r \cap I : \E j \in DOMAIN a : a[j] = r[i]
      BY <2>4 DEF a
    <3>6. \A j \in DOMAIN At(q, I) : \E i \in DOMAIN q \cap I : At(q, I)[j] = q[i]
      BY <3>1, <3>2, <3>3, <3>5
    <3>7. \A i \in DOMAIN q \cap I : \E j \in DOMAIN At(q, I) : At(q, I)[j] = q[i]
      BY <3>1, <3>2, <3>3, <3>5
    <3>. QED BY <3>6, <3>7
  <2>. QED BY <2>6, <2>7
<1>3. Seq(X) \subseteq F
  <2> HIDE DEF F
  <2>. QED BY <1>1, <1>2, SequencesBySteps
<1>4. s \in F
  BY <1>3
<1>5. ok(s)
  BY <1>4
<1>. QED BY <1>5 DEF Takes

-----------------------------------------------------------------------------
(* What the elements of a sequence weigh together: every count and every sum *)
(* of the model is one, by the right weights.                                *)

Weigh(s, g) == SumFunctionOnSet([i \in DOMAIN s |-> g[s[i]]], DOMAIN s)

LEMMA WeighEmpty == ASSUME NEW g PROVE Weigh(<<>>, g) = 0
<1>1. DOMAIN <<>> = {}
  OBVIOUS
<1>. QED BY <1>1, SumEmpty DEF Weigh

LEMMA WeighAppend ==
  ASSUME NEW X, NEW s \in Seq(X), NEW e \in X, NEW g, \A x \in X : g[x] \in Int
  PROVE  Weigh(Append(s, e), g) = Weigh(s, g) + g[e]
<1> DEFINE l == Append(s, e)
           f == [i \in DOMAIN s |-> g[s[i]]]
           h == [i \in DOMAIN l |-> g[l[i]]]
           n == Len(s) + 1
<1>1. /\ DOMAIN s = 1..Len(s) /\ DOMAIN l = DOMAIN s \cup {n} /\ n \notin DOMAIN s
      /\ l[n] = e /\ \A i \in DOMAIN s : l[i] = s[i] /\ s[i] \in X
  OBVIOUS
<1>2. IsFiniteSet(DOMAIN s)
  BY <1>1, FS_Interval
<1>3. \A i \in DOMAIN s : f[i] \in Int /\ h[i] \in Int /\ f[i] = h[i]
  BY <1>1
<1>4. h[n] = g[e] /\ h[n] \in Int
  BY <1>1
<1>7. Weigh(l, g) = SumFunctionOnSet(h, DOMAIN l) /\ Weigh(s, g) = SumFunctionOnSet(f, DOMAIN s)
  BY DEF Weigh
<1> HIDE DEF h, f, n, l
<1>5. SumFunctionOnSet(h, DOMAIN s \cup {n}) = SumFunctionOnSet(h, DOMAIN s) + h[n]
  <2>1. \A i \in DOMAIN s : h[i] \in Int
    BY <1>3
  <2>2. n \notin DOMAIN s /\ h[n] \in Int
    BY <1>1, <1>4
  <2>. QED BY <1>2, <2>1, <2>2, SumAdd
<1>6. SumFunctionOnSet(f, DOMAIN s) = SumFunctionOnSet(h, DOMAIN s)
  BY <1>2, <1>3, SumSame
<1>. QED BY <1>1, <1>4, <1>5, <1>6, <1>7 DEF l

LEMMA WeighInt ==
  ASSUME NEW X, NEW s \in Seq(X), NEW g, \A x \in X : g[x] \in Int
  PROVE  Weigh(s, g) \in Int
<1>1. IsFiniteSet(DOMAIN s)
  BY FS_Interval
<1>2. \A i \in DOMAIN s : [j \in DOMAIN s |-> g[s[j]]][i] \in Int
  OBVIOUS
<1>. QED BY <1>1, <1>2, SumInInt DEF Weigh

LEMMA WeighNat ==
  ASSUME NEW X, NEW s \in Seq(X), NEW g, \A x \in X : g[x] \in Nat
  PROVE  Weigh(s, g) \in Nat
<1>1. IsFiniteSet(DOMAIN s)
  BY FS_Interval
<1>2. \A i \in DOMAIN s : [j \in DOMAIN s |-> g[s[j]]][i] \in Nat
  OBVIOUS
<1>. QED BY <1>1, <1>2, SumNat DEF Weigh

\* Something weighs something if and only if one of the elements does.
LEMMA WeighZero ==
  ASSUME NEW X, NEW s \in Seq(X), NEW g, \A x \in X : g[x] \in Nat
  PROVE  Weigh(s, g) = 0 <=> \A i \in DOMAIN s : g[s[i]] = 0
<1> DEFINE f == [j \in DOMAIN s |-> g[s[j]]]
<1>1. IsFiniteSet(DOMAIN s)
  BY FS_Interval
<1>2. \A i \in DOMAIN s : f[i] \in Nat /\ f[i] = g[s[i]]
  OBVIOUS
<1>3. Weigh(s, g) = SumFunctionOnSet(f, DOMAIN s)
  BY DEF Weigh
<1> HIDE DEF f
<1>4. ASSUME \A i \in DOMAIN s : g[s[i]] = 0 PROVE Weigh(s, g) = 0
  BY <1>1, <1>2, <1>3, <1>4, SumZero
<1>5. ASSUME Weigh(s, g) = 0, NEW i \in DOMAIN s PROVE g[s[i]] = 0
  <2>1. \A j \in DOMAIN s : f[j] \in Int
    BY <1>2
  <2>2. SumFunctionOnSet(f, DOMAIN s) = f[i] + SumFunctionOnSet(f, DOMAIN s \ {i})
    BY <1>1, <2>1, SumRemove
  <2>3. IsFiniteSet(DOMAIN s \ {i}) /\ \A j \in DOMAIN s \ {i} : f[j] \in Nat
    BY <1>1, <1>2, FS_Subset
  <2>4. SumFunctionOnSet(f, DOMAIN s \ {i}) \in Nat
    BY <2>3, SumNat
  <2>. QED BY <1>2, <1>3, <1>5, <2>2, <2>4
<1>. QED BY <1>4, <1>5

LEMMA WeighSame ==
  ASSUME NEW X, NEW s \in Seq(X), NEW g, NEW h, \A x \in X : g[x] \in Int /\ g[x] = h[x]
  PROVE  Weigh(s, g) = Weigh(s, h)
<1> DEFINE f == [j \in DOMAIN s |-> g[s[j]]]
           k == [j \in DOMAIN s |-> h[s[j]]]
<1>1. IsFiniteSet(DOMAIN s)
  BY FS_Interval
<1>2. \A i \in DOMAIN s : f[i] \in Int /\ f[i] = k[i]
  OBVIOUS
<1>3. Weigh(s, g) = SumFunctionOnSet(f, DOMAIN s) /\ Weigh(s, h) = SumFunctionOnSet(k, DOMAIN s)
  BY DEF Weigh
<1> HIDE DEF f, k
<1>. QED BY <1>1, <1>2, <1>3, SumSame

LEMMA WeighLeq ==
  ASSUME NEW X, NEW s \in Seq(X), NEW g, NEW h,
         \A x \in X : g[x] \in Int /\ h[x] \in Int /\ g[x] <= h[x]
  PROVE  Weigh(s, g) <= Weigh(s, h)
<1> DEFINE f == [j \in DOMAIN s |-> g[s[j]]]
           k == [j \in DOMAIN s |-> h[s[j]]]
<1>1. IsFiniteSet(DOMAIN s)
  BY FS_Interval
<1>2. \A i \in DOMAIN s : f[i] \in Int /\ k[i] \in Int /\ f[i] <= k[i]
  OBVIOUS
<1>3. Weigh(s, g) = SumFunctionOnSet(f, DOMAIN s) /\ Weigh(s, h) = SumFunctionOnSet(k, DOMAIN s)
  BY DEF Weigh
<1> HIDE DEF f, k
<1>. QED BY <1>1, <1>2, <1>3, SumLeq

LEMMA WeighPlus ==
  ASSUME NEW X, NEW s \in Seq(X), NEW g, NEW h, NEW k,
         \A x \in X : g[x] \in Int /\ h[x] \in Int /\ k[x] = g[x] + h[x]
  PROVE  Weigh(s, k) = Weigh(s, g) + Weigh(s, h)
<1> DEFINE gs == [j \in DOMAIN s |-> g[s[j]]]
           hs == [j \in DOMAIN s |-> h[s[j]]]
           ks == [j \in DOMAIN s |-> k[s[j]]]
<1>1. IsFiniteSet(DOMAIN s)
  BY FS_Interval
<1>2. \A i \in DOMAIN s : gs[i] \in Int /\ hs[i] \in Int /\ ks[i] = gs[i] + hs[i]
  OBVIOUS
<1>3. /\ Weigh(s, g) = SumFunctionOnSet(gs, DOMAIN s) /\ Weigh(s, h) = SumFunctionOnSet(hs, DOMAIN s)
      /\ Weigh(s, k) = SumFunctionOnSet(ks, DOMAIN s)
  BY DEF Weigh
<1> HIDE DEF gs, hs, ks
<1>. QED BY <1>1, <1>2, <1>3, SumPlus

LEMMA WeighConcat ==
  ASSUME NEW X, NEW s \in Seq(X), NEW l \in Seq(X), NEW g, \A x \in X : g[x] \in Int
  PROVE  Weigh(s \o l, g) = Weigh(s, g) + Weigh(l, g)
<1> DEFINE F == {r \in Seq(X) : Weigh(s \o r, g) = Weigh(s, g) + Weigh(r, g)}
<1>0. \A r \in Seq(X) : Weigh(r, g) \in Int
  BY WeighInt
<1>1. <<>> \in F
  <2>1. s \o <<>> = s /\ <<>> \in Seq(X)
    OBVIOUS
  <2>2. Weigh(s, g) = Weigh(s, g) + 0
    BY <1>0
  <2>. QED BY <2>1, <2>2, WeighEmpty
<1>2. ASSUME NEW r \in Seq(X), r \in F, NEW e \in X PROVE Append(r, e) \in F
  <2>1. s \o r \in Seq(X) /\ Append(r, e) \in Seq(X) /\ s \o Append(r, e) = Append(s \o r, e)
    OBVIOUS
  <2>2. Weigh(Append(s \o r, e), g) = Weigh(s \o r, g) + g[e]
    BY <2>1, WeighAppend
  <2>3. Weigh(Append(r, e), g) = Weigh(r, g) + g[e]
    BY WeighAppend
  <2>4. Weigh(s \o r, g) = Weigh(s, g) + Weigh(r, g)
    BY <1>2
  <2>5. Weigh(s, g) \in Int /\ Weigh(r, g) \in Int /\ g[e] \in Int
    BY <1>0
  <2>6. Weigh(s \o Append(r, e), g) = Weigh(s, g) + Weigh(Append(r, e), g)
    BY <2>1, <2>2, <2>3, <2>4, <2>5
  <2>. QED BY <2>1, <2>6
<1>3. Seq(X) \subseteq F
  <2> HIDE DEF F
  <2>. QED BY <1>1, <1>2, SequencesBySteps
<1>. QED BY <1>3

\* The elements that satisfy a test: the others weigh nothing.
Within(X, T, g) == [x \in X |-> IF x \in T THEN g[x] ELSE 0]

LEMMA WeighAt ==
  ASSUME NEW X, NEW s \in Seq(X), NEW g, \A x \in X : g[x] \in Int, NEW I, NEW T,
         \A i \in DOMAIN s : i \in I <=> s[i] \in T
  PROVE  Weigh(At(s, I), g) = Weigh(s, Within(X, T, g))
<1> DEFINE w == Within(X, T, g)
           F == {r \in Seq(X) : (\A i \in DOMAIN r : i \in I <=> r[i] \in T)
                                  => Weigh(At(r, I), g) = Weigh(r, w)}
<1>0. \A x \in X : w[x] = (IF x \in T THEN g[x] ELSE 0) /\ w[x] \in Int
  BY DEF Within
<1> HIDE DEF w
<1>1. <<>> \in F
  BY AtEmpty, WeighEmpty
<1>2. ASSUME NEW r \in Seq(X), r \in F, NEW e \in X PROVE Append(r, e) \in F
  <2>0. Append(r, e) \in Seq(X)
    OBVIOUS
  <2> SUFFICES ASSUME \A i \in DOMAIN Append(r, e) : i \in I <=> Append(r, e)[i] \in T
               PROVE  Weigh(At(Append(r, e), I), g) = Weigh(Append(r, e), w)
    BY <2>0, Zenon
  <2> DEFINE a == At(r, I)
  <2>1. /\ DOMAIN r = 1..Len(r) /\ DOMAIN Append(r, e) = 1..(Len(r) + 1) /\ Len(r) \in Nat
        /\ Append(r, e)[Len(r) + 1] = e /\ \A i \in 1..Len(r) : Append(r, e)[i] = r[i]
    OBVIOUS
  <2>2. (\A i \in DOMAIN r : i \in I <=> r[i] \in T) /\ (Len(r) + 1 \in I <=> e \in T)
    BY <2>1
  <2>3. Weigh(a, g) = Weigh(r, w)
    BY <1>2, <2>2
  <2>4. a \in Seq(X)
    BY AtType
  <2>5. At(Append(r, e), I) = (IF Len(r) + 1 \in I THEN Append(a, e) ELSE a)
    BY AtAppend
  <2> HIDE DEF a, F
  <2>6. Weigh(Append(r, e), w) = Weigh(r, w) + w[e] /\ Weigh(r, w) \in Int
    BY <1>0, WeighAppend, WeighInt
  <2>7. Weigh(Append(a, e), g) = Weigh(a, g) + g[e]
    BY <2>4, WeighAppend
  <2>. QED BY <1>0, <2>2, <2>3, <2>5, <2>6, <2>7
<1>3. Seq(X) \subseteq F
  <2> HIDE DEF F
  <2>. QED BY <1>1, <1>2, SequencesBySteps
<1>. QED BY <1>3 DEF w

\* How many elements are of a set.
Ones(X, T) == [x \in X |-> IF x \in T THEN 1 ELSE 0]

LEMMA NumberIs ==
  ASSUME NEW X, NEW s \in Seq(X), NEW T
  PROVE  Cardinality({i \in DOMAIN s : s[i] \in T}) = Weigh(s, Ones(X, T))
<1> DEFINE g == Ones(X, T)
           of(r) == {i \in DOMAIN r : r[i] \in T}
           F == {r \in Seq(X) : IsFiniteSet(of(r)) /\ Cardinality(of(r)) = Weigh(r, g)}
<1>0. \A x \in X : g[x] = (IF x \in T THEN 1 ELSE 0) /\ g[x] \in Int
  BY DEF Ones
<1> HIDE DEF g
<1>1. <<>> \in F
  <2>1. of(<<>>) = {}
    OBVIOUS
  <2> HIDE DEF of
  <2>. QED BY <2>1, WeighEmpty, FS_EmptySet
<1>2. ASSUME NEW r \in Seq(X), r \in F, NEW e \in X PROVE Append(r, e) \in F
  <2> DEFINE l == Append(r, e)
             n == Len(r) + 1
  <2>1. /\ DOMAIN r = 1..Len(r) /\ DOMAIN l = DOMAIN r \cup {n} /\ n \notin DOMAIN r
        /\ l[n] = e /\ \A i \in DOMAIN r : l[i] = r[i]
    OBVIOUS
  <2>2. of(l) = (IF e \in T THEN of(r) \cup {n} ELSE of(r)) /\ n \notin of(r)
    BY <2>1
  <2>3. IsFiniteSet(of(r)) /\ Cardinality(of(r)) = Weigh(r, g)
    BY <1>2
  <2>4. Weigh(l, g) = Weigh(r, g) + g[e] /\ Weigh(r, g) \in Int
    BY <1>0, WeighAppend, WeighInt
  <2>7. l \in Seq(X)
    OBVIOUS
  <2> HIDE DEF of, l, n
  <2>5. CASE e \in T
    <3>1. IsFiniteSet(of(l)) /\ Cardinality(of(l)) = Cardinality(of(r)) + 1
      BY <2>2, <2>3, <2>5, FS_AddElement
    <3>2. g[e] = 1
      BY <1>0, <2>5
    <3>3. l \in F
      BY <2>3, <2>4, <2>7, <3>1, <3>2
    <3>. QED BY <3>3 DEF l
  <2>6. CASE e \notin T
    <3>2. g[e] = 0
      BY <1>0, <2>6
    <3>3. Weigh(l, g) = Weigh(r, g)
      BY <2>4, <3>2
    <3>4. of(l) = of(r)
      BY <2>2, <2>6
    <3>5. l \in F
      BY <2>3, <3>3, <3>4, <2>7
    <3>. QED BY <3>5 DEF l
  <2>. QED BY <2>5, <2>6
<1>3. Seq(X) \subseteq F
  <2> HIDE DEF F
  <2>. QED BY <1>1, <1>2, SequencesBySteps
<1>. QED BY <1>3 DEF g

-----------------------------------------------------------------------------
(* Sequences of sequences *)

\* What FlattenSeq chooses.
Flattens(t, ss) == t = [i \in 1..Len(ss) |-> IF i = 1 THEN ss[i] ELSE t[i - 1] \o ss[i]]

LEMMA FlattenIsChosen ==
  ASSUME NEW ss, Len(ss) # 0 PROVE FlattenSeq(ss) = (CHOOSE t : Flattens(t, ss))[Len(ss)]
BY DEF FlattenSeq, Flattens

LEMMA FlattensExists ==
  ASSUME NEW ss, Len(ss) \in Nat PROVE \E t : Flattens(t, ss)
<1> DEFINE cat(a, b) == a \o b
           upTo(t, m) == /\ t = [i \in 1..m |-> t[i]]
                         /\ \A i \in 1..m : t[i] = (IF i = 1 THEN ss[i] ELSE cat(t[i - 1], ss[i]))
           Has == {m \in Nat : \E t : upTo(t, m)}
<1> HIDE DEF cat
<1>1. 0 \in Has
  <2>1. upTo(<<>>, 0)
    OBVIOUS
  <2>. QED BY <2>1
<1>2. ASSUME NEW m \in Nat, m \in Has PROVE m + 1 \in Has
  <2>1. PICK t : upTo(t, m)
    BY <1>2
  <2> DEFINE u == [i \in 1..(m + 1) |-> IF i <= m THEN t[i]
                      ELSE IF i = 1 THEN ss[i] ELSE cat(t[i - 1], ss[i])]
  <2>2. upTo(u, m + 1)
    <3>1. u = [i \in 1..(m + 1) |-> u[i]]
      OBVIOUS
    <3>2. \A i \in 1..(m + 1) : u[i] = (IF i <= m THEN t[i] ELSE IF i = 1 THEN ss[i] ELSE cat(t[i - 1], ss[i]))
      OBVIOUS
    <3> HIDE DEF u
    <3>3. \A i \in 1..m : t[i] = (IF i = 1 THEN ss[i] ELSE cat(t[i - 1], ss[i]))
      BY <2>1
    <3>4. ASSUME NEW i \in 1..(m + 1)
          PROVE  u[i] = (IF i = 1 THEN ss[i] ELSE cat(u[i - 1], ss[i]))
      <4>1. CASE i = 1
        BY <3>2, <3>3, <4>1
      <4>2. CASE i # 1
        <5>1. i - 1 \in 1..(m + 1) /\ i - 1 <= m
          BY <4>2
        <5>2. u[i - 1] = t[i - 1]
          BY <3>2, <5>1
        <5>. QED BY <3>2, <3>3, <4>2, <5>2
      <4>. QED BY <4>1, <4>2
    <3>. QED BY <3>1, <3>4, Zenon
  <2> HIDE DEF upTo, u
  <2>. QED BY <2>2
<1>3. Nat \subseteq Has
  <2> HIDE DEF Has
  <2>. QED BY <1>1, <1>2, NaturalsBySteps
<1>4. PICK t : upTo(t, Len(ss))
  BY <1>3
<1>5. Flattens(t, ss)
  BY <1>4 DEF Flattens, cat
<1>. QED BY <1>5

LEMMA FlattenEmpty == FlattenSeq(<<>>) = <<>>
<1>1. Len(<<>>) = 0
  OBVIOUS
<1>. QED BY <1>1 DEF FlattenSeq

\* A sequence more is appended whole.
LEMMA FlattenAppend ==
  ASSUME NEW X, NEW ss \in Seq(Seq(X)), NEW s \in Seq(X)
  PROVE  FlattenSeq(Append(ss, s)) = FlattenSeq(ss) \o s
<1> DEFINE l == Append(ss, s)
           t == CHOOSE x : Flattens(x, ss)
           u == CHOOSE x : Flattens(x, l)
<1>1. /\ Len(ss) \in Nat /\ Len(l) = Len(ss) + 1 /\ l[Len(ss) + 1] = s
      /\ \A n \in 1..Len(ss) : l[n] = ss[n]
  OBVIOUS
<1>2. Flattens(t, ss) /\ Flattens(u, l)
  <2>1. \E x : Flattens(x, ss)
    BY <1>1, FlattensExists
  <2>2. Len(l) \in Nat
    BY <1>1
  <2> HIDE DEF l
  <2>3. \E x : Flattens(x, l)
    BY <2>2, FlattensExists
  <2>. QED BY <2>1, <2>3
<1>3. FlattenSeq(l) = u[Len(ss) + 1]
  <2>1. Len(l) # 0
    BY <1>1
  <2> HIDE DEF l
  <2>. QED BY <1>1, <2>1, FlattenIsChosen
<1>4. CASE Len(ss) = 0
  <2>1. ss = <<>>
    BY <1>4
  <2>2. FlattenSeq(ss) \o s = s
    BY <2>1, FlattenEmpty
  <2>3. Len(l) = 1 /\ l[1] = s
    BY <1>1, <1>4
  <2> HIDE DEF l, u
  <2>4. u[1] = l[1]
    <3>1. \A n \in 1..1 : u[n] = (IF n = 1 THEN l[n] ELSE u[n - 1] \o l[n])
      BY <1>2, <2>3, Zenon DEF Flattens
    <3>2. 1 \in 1..1
      OBVIOUS
    <3>. QED BY <3>1, <3>2, Zenon
  <2>. QED BY <1>3, <1>4, <2>2, <2>3, <2>4 DEF l
<1>5. CASE Len(ss) # 0
  <2>1. FlattenSeq(ss) = t[Len(ss)]
    BY <1>5, FlattenIsChosen
  <2> HIDE DEF l, t, u
  <2> DEFINE cat(a, b) == a \o b
  <2>2. /\ \A n \in 1..Len(ss) : t[n] = (IF n = 1 THEN ss[n] ELSE cat(t[n - 1], ss[n]))
        /\ \A n \in 1..Len(l) : u[n] = (IF n = 1 THEN l[n] ELSE cat(u[n - 1], l[n]))
    BY <1>2 DEF Flattens
  <2> HIDE DEF cat
  <2>3. /\ \A n \in 1..Len(ss) : u[n] = (IF n = 1 THEN ss[n] ELSE cat(u[n - 1], ss[n]))
        /\ u[Len(ss) + 1] = cat(u[Len(ss)], s)
    BY <1>1, <1>5, <2>2
  <2> DEFINE Has == {n \in Nat : n + 1 <= Len(ss) => t[n + 1] = u[n + 1]}
  <2>4. 0 \in Has
    BY <1>1, <1>5, <2>2, <2>3
  <2>5. ASSUME NEW n \in Nat, n \in Has PROVE n + 1 \in Has
    <3> SUFFICES ASSUME n + 2 <= Len(ss) PROVE t[n + 2] = u[n + 2]
      <4>1. n + 1 \in Nat /\ (n + 1) + 1 = n + 2
        OBVIOUS
      <4>. QED BY <4>1
    <3>1. n + 2 \in 1..Len(ss) /\ n + 2 # 1 /\ (n + 2) - 1 = n + 1 /\ t[n + 1] = u[n + 1]
      BY <1>1, <2>5
    <3>2. t[n + 2] = cat(t[n + 1], ss[n + 2]) /\ u[n + 2] = cat(u[n + 1], ss[n + 2])
      BY <2>2, <2>3, <3>1
    <3>. QED BY <3>1, <3>2
  <2>6. Nat \subseteq Has
    <3> HIDE DEF Has
    <3>. QED BY <2>4, <2>5, NaturalsBySteps
  <2>7. Len(ss) - 1 \in Nat /\ (Len(ss) - 1) + 1 = Len(ss)
    BY <1>1, <1>5
  <2>8. t[Len(ss)] = u[Len(ss)]
    <3>1. \A n \in Nat : n + 1 <= Len(ss) => t[n + 1] = u[n + 1]
      BY <2>6
    <3>2. (Len(ss) - 1) + 1 <= Len(ss)
      BY <1>1
    <3>. QED BY <2>7, <3>1, <3>2
  <2>. QED BY <1>3, <2>1, <2>3, <2>8 DEF l, cat
<1>. QED BY <1>4, <1>5

LEMMA FlattenType ==
  ASSUME NEW X, NEW ss \in Seq(Seq(X)) PROVE FlattenSeq(ss) \in Seq(X)
<1> DEFINE F == {r \in Seq(Seq(X)) : FlattenSeq(r) \in Seq(X)}
<1>1. <<>> \in F
  <2>1. <<>> \in Seq(Seq(X)) /\ <<>> \in Seq(X)
    OBVIOUS
  <2>. QED BY <2>1, FlattenEmpty
<1>2. ASSUME NEW r \in Seq(Seq(X)), r \in F, NEW e \in Seq(X) PROVE Append(r, e) \in F
  <2>1. FlattenSeq(Append(r, e)) = FlattenSeq(r) \o e
    BY FlattenAppend
  <2>2. FlattenSeq(r) \in Seq(X)
    BY <1>2
  <2>3. FlattenSeq(r) \o e \in Seq(X) /\ Append(r, e) \in Seq(Seq(X))
    BY <2>2
  <2>. QED BY <2>1, <2>3
<1>3. Seq(Seq(X)) \subseteq F
  <2> HIDE DEF F
  <2>. QED BY <1>1, <1>2, SequencesBySteps
<1>. QED BY <1>3

\* The parts weigh what the whole does.
LEMMA WeighFlatten ==
  ASSUME NEW X, NEW ss \in Seq(Seq(X)), NEW g, \A x \in X : g[x] \in Int,
         NEW w, \A r \in Seq(X) : w[r] = Weigh(r, g)
  PROVE  Weigh(FlattenSeq(ss), g) = Weigh(ss, w)
<1> DEFINE F == {r \in Seq(Seq(X)) : Weigh(FlattenSeq(r), g) = Weigh(r, w)}
<1>0. \A r \in Seq(X) : w[r] = Weigh(r, g) /\ w[r] \in Int
  BY WeighInt
<1>1. <<>> \in F
  BY FlattenEmpty, WeighEmpty
<1>2. ASSUME NEW r \in Seq(Seq(X)), r \in F, NEW e \in Seq(X) PROVE Append(r, e) \in F
  <2>1. FlattenSeq(Append(r, e)) = FlattenSeq(r) \o e
    BY FlattenAppend
  <2>2. FlattenSeq(r) \in Seq(X)
    BY FlattenType
  <2>3. Weigh(FlattenSeq(r) \o e, g) = Weigh(FlattenSeq(r), g) + Weigh(e, g)
    BY <2>2, WeighConcat
  <2>4. Weigh(Append(r, e), w) = Weigh(r, w) + w[e]
    BY <1>0, WeighAppend
  <2>5. Append(r, e) \in Seq(Seq(X)) /\ Weigh(FlattenSeq(r), g) = Weigh(r, w)
    BY <1>2
  <2>6. Weigh(FlattenSeq(Append(r, e)), g) = Weigh(Append(r, e), w)
    BY <1>0, <2>1, <2>3, <2>4, <2>5
  <2>. QED BY <2>5, <2>6
<1>3. Seq(Seq(X)) \subseteq F
  <2> HIDE DEF F
  <2>. QED BY <1>1, <1>2, SequencesBySteps
<1>. QED BY <1>3

-----------------------------------------------------------------------------
(* Sets in order *)

StrictlyOrders(R, S) ==
  /\ \A x \in S : <<x, x>> \notin R
  /\ \A x, y, z \in S : <<x, y>> \in R /\ <<y, z>> \in R => <<x, z>> \in R
  /\ \A x, y \in S : x = y \/ <<x, y>> \in R \/ <<y, x>> \in R

Below(R, S, x) == {y \in S : <<y, x>> \in R}

\* A list of a set: every element, in the order.
Lists(f, R, S) ==
  /\ f \in [1..Cardinality(S) -> S]
  /\ \A i, j \in 1..Cardinality(S) : i < j => <<f[i], f[j]>> \in R
  /\ \A x \in S : \E i \in 1..Cardinality(S) : f[i] = x

\* An element's rank is that of no other, and each rank is an element's.
LEMMA RanksAreOneToOne ==
  ASSUME NEW S, IsFiniteSet(S), NEW R, StrictlyOrders(R, S)
  PROVE  /\ \A x \in S : Cardinality(Below(R, S, x)) \in 0..(Cardinality(S) - 1)
         /\ \A x, y \in S : <<x, y>> \in R => Cardinality(Below(R, S, x)) < Cardinality(Below(R, S, y))
         /\ \A x, y \in S : Cardinality(Below(R, S, x)) = Cardinality(Below(R, S, y)) => x = y
         /\ \A n \in 0..(Cardinality(S) - 1) : \E x \in S : Cardinality(Below(R, S, x)) = n
<1> DEFINE rank == [x \in S |-> Cardinality(Below(R, S, x))]
<1>1. \A T \in SUBSET S : IsFiniteSet(T) /\ Cardinality(T) \in Nat
  BY FS_Subset, FS_CardinalityType
<1>2. \A x \in S : Below(R, S, x) \subseteq S /\ x \notin Below(R, S, x)
  <2> TAKE x \in S
  <2>1. <<x, x>> \notin R
    BY DEF StrictlyOrders
  <2>. QED BY <2>1 DEF Below
<1>3. ASSUME NEW x \in S PROVE Cardinality(Below(R, S, x)) \in 0..(Cardinality(S) - 1)
  <2>1. Below(R, S, x) \subseteq S /\ Below(R, S, x) # S
    BY <1>2
  <2>3. Cardinality(Below(R, S, x)) \in Nat /\ Cardinality(S) \in Nat
    BY <1>1, <2>1
  <2>4. Cardinality(Below(R, S, x)) <= Cardinality(S) /\ Cardinality(S) # Cardinality(Below(R, S, x))
    BY <2>1, FS_Subset
  <2>2. Cardinality(Below(R, S, x)) < Cardinality(S)
    BY <2>3, <2>4
  <2>. QED BY <2>2, <2>3
<1>4. ASSUME NEW x \in S, NEW y \in S, <<x, y>> \in R
      PROVE  Cardinality(Below(R, S, x)) < Cardinality(Below(R, S, y))
  <2>1. Below(R, S, x) \subseteq Below(R, S, y)
    BY <1>4 DEF Below, StrictlyOrders
  <2>2. x \in Below(R, S, y) /\ x \notin Below(R, S, x)
    BY <1>2, <1>4 DEF Below
  <2>3. IsFiniteSet(Below(R, S, y))
    BY <1>1, <1>2
  <2>4. Cardinality(Below(R, S, x)) \in Nat /\ Cardinality(Below(R, S, y)) \in Nat
    BY <1>1, <1>2
  <2>5. Below(R, S, x) # Below(R, S, y)
    BY <2>2
  <2>6. /\ Cardinality(Below(R, S, x)) <= Cardinality(Below(R, S, y))
        /\ Cardinality(Below(R, S, x)) # Cardinality(Below(R, S, y))
    BY <2>1, <2>3, <2>5, FS_Subset
  <2>. QED BY <2>4, <2>6
<1>5. ASSUME NEW x \in S, NEW y \in S, Cardinality(Below(R, S, x)) = Cardinality(Below(R, S, y))
      PROVE  x = y
  <2>1. Cardinality(Below(R, S, x)) \in Nat
    BY <1>3
  <2>2. ~(<<x, y>> \in R) /\ ~(<<y, x>> \in R)
    BY <1>4, <1>5, <2>1
  <2>. QED BY <2>2 DEF StrictlyOrders
<1>6. Cardinality(S) \in Nat
  BY <1>1
<1>7. rank \in [S -> 0..(Cardinality(S) - 1)] /\ \A x, y \in S : rank[x] = rank[y] => x = y
  BY <1>3, <1>5
<1>8. ASSUME NEW n \in 0..(Cardinality(S) - 1) PROVE \E x \in S : rank[x] = n
  <2> DEFINE image == {rank[x] : x \in S}
             all == 0..(Cardinality(S) - 1)
  <2>1. IsFiniteSet(all) /\ Cardinality(all) = Cardinality(S)
    BY <1>6, FS_Interval
  <2>2. image \subseteq all
    BY <1>7
  <2>3. rank \in Bijection(S, image)
    BY <1>7 DEF Bijection, Injection, Surjection, IsInjective
  <2> HIDE DEF rank, all, image
  <2>4. Cardinality(image) = Cardinality(S)
    <3>1. ExistsBijection(S, image)
      BY <2>3 DEF ExistsBijection
    <3>. QED BY <3>1, FS_Bijection
  <2>5. image = all
    BY <2>1, <2>2, <2>4, FS_Subset
  <2>. QED BY <2>5 DEF all, image
<1>. QED BY <1>3, <1>4, <1>5, <1>8

LEMMA ListOfRanks ==
  ASSUME NEW S, IsFiniteSet(S), NEW R, StrictlyOrders(R, S)
  PROVE  Lists([i \in 1..Cardinality(S) |-> CHOOSE x \in S : Cardinality(Below(R, S, x)) = i - 1], R, S)
<1> DEFINE n == Cardinality(S)
           rank(x) == Cardinality(Below(R, S, x))
           f == [i \in 1..n |-> CHOOSE x \in S : rank(x) = i - 1]
<1>1. /\ \A x \in S : rank(x) \in 0..(n - 1)
      /\ \A x, y \in S : <<x, y>> \in R => rank(x) < rank(y)
      /\ \A x, y \in S : rank(x) = rank(y) => x = y
      /\ \A i \in 0..(n - 1) : \E x \in S : rank(x) = i
  BY RanksAreOneToOne
<1>2. n \in Nat
  BY FS_CardinalityType
<1> HIDE DEF rank, n
<1>3. ASSUME NEW i \in 1..n PROVE f[i] \in S /\ rank(f[i]) = i - 1
  <2>1. i - 1 \in 0..(n - 1)
    BY <1>2
  <2>2. \E x \in S : rank(x) = i - 1
    BY <1>1, <2>1
  <2>. QED BY <2>2
<1>4. f \in [1..n -> S]
  BY <1>3
<1> HIDE DEF f
<1>5. ASSUME NEW i \in 1..n, NEW j \in 1..n, i < j PROVE <<f[i], f[j]>> \in R
  <2>1. f[i] \in S /\ f[j] \in S /\ rank(f[i]) = i - 1 /\ rank(f[j]) = j - 1
    BY <1>3
  <2>2. f[i] # f[j]
    BY <1>2, <1>5, <2>1
  <2>3. ~(<<f[j], f[i]>> \in R)
    <3>1. ~(j - 1 < i - 1)
      BY <1>2, <1>5
    <3>. QED BY <1>1, <2>1, <3>1
  <2>. QED BY <2>1, <2>2, <2>3 DEF StrictlyOrders
<1>6. ASSUME NEW x \in S PROVE \E i \in 1..n : f[i] = x
  <2>1. rank(x) + 1 \in 1..n
    BY <1>1, <1>2
  <2>2. rank(f[rank(x) + 1]) = (rank(x) + 1) - 1 /\ f[rank(x) + 1] \in S
    BY <1>3, <2>1
  <2>3. rank(f[rank(x) + 1]) = rank(x)
    BY <1>1, <2>2
  <2>. QED BY <1>1, <2>1, <2>2, <2>3
<1>. QED BY <1>4, <1>5, <1>6 DEF Lists, f, n, rank

\* Numbers in order.
Ranked(S) == [i \in 1..Cardinality(S) |-> CHOOSE x \in S : Cardinality({y \in S : y < x}) = i - 1]

Ascends(f, S) ==
  /\ f \in [1..Cardinality(S) -> S] /\ Cardinality(S) \in Nat
  /\ \A i, j \in 1..Cardinality(S) : i < j => f[i] < f[j]
  /\ \A x \in S : \E i \in 1..Cardinality(S) : f[i] = x

LEMMA NumbersInOrder ==
  ASSUME NEW S, IsFiniteSet(S), S \subseteq Int
  PROVE  Ascends(Ranked(S), S) /\ Renames(Ranked(S), 1..Cardinality(S), S)
<1> DEFINE f == Ranked(S)
<1> DEFINE R == {p \in S \X S : p[1] < p[2]}
<1>1. \A x, y \in S : <<x, y>> \in R <=> x < y
  OBVIOUS
<1>2. \A x \in S : Below(R, S, x) = {y \in S : y < x}
  BY <1>1 DEF Below
<1> HIDE DEF R
<1>3. StrictlyOrders(R, S)
  BY <1>1 DEF StrictlyOrders
<1>5. \A i \in 1..Cardinality(S) : (CHOOSE x \in S : Cardinality({y \in S : y < x}) = i - 1)
                                   = (CHOOSE x \in S : Cardinality(Below(R, S, x)) = i - 1)
  BY <1>2
<1>6. f = [i \in 1..Cardinality(S) |-> CHOOSE x \in S : Cardinality(Below(R, S, x)) = i - 1]
  <2> DEFINE a(i) == CHOOSE x \in S : Cardinality({y \in S : y < x}) = i - 1
             b(i) == CHOOSE x \in S : Cardinality(Below(R, S, x)) = i - 1
  <2>1. f = [i \in 1..Cardinality(S) |-> a(i)] /\ \A i \in 1..Cardinality(S) : a(i) = b(i)
    BY <1>5 DEF Ranked
  <2> HIDE DEF a, b
  <2>2. f = [i \in 1..Cardinality(S) |-> b(i)]
    BY <2>1
  <2>. QED BY <2>2 DEF b
<1>7. Lists(f, R, S)
  BY <1>3, <1>6, ListOfRanks
<1>8. Cardinality(S) \in Nat
  BY FS_CardinalityType
<1>9. Ascends(f, S)
  BY <1>1, <1>7, <1>8 DEF Lists, Ascends
<1> HIDE DEF f
<1>10. \A i, j \in 1..Cardinality(S) : f[i] = f[j] => i = j
  <2> TAKE i, j \in 1..Cardinality(S)
  <2>1. f[i] \in Int /\ f[j] \in Int
    BY <1>9 DEF Ascends
  <2>. QED BY <1>9, <2>1 DEF Ascends
<1>11. Renames(f, 1..Cardinality(S), S)
  BY <1>9, <1>10 DEF Ascends, Renames
<1>. QED BY <1>9, <1>11 DEF f

\* A key has n numbers.
Keys(n) == {k \in Seq(Int) : Len(k) = n}

\* The first place where two keys differ.
LEMMA KeysDiffer ==
  ASSUME NEW n \in Nat, NEW k \in Keys(n), NEW l \in Keys(n), k # l
  PROVE  \E i \in 1..n : k[i] # l[i] /\ \A j \in 1..(i - 1) : k[j] = l[j]
<1> DEFINE Has == {m \in Nat : (\E i \in 1..n : i <= m /\ k[i] # l[i])
                     => \E i \in 1..n : k[i] # l[i] /\ \A j \in 1..(i - 1) : k[j] = l[j]}
<1>1. 0 \in Has
  OBVIOUS
<1>2. ASSUME NEW m \in Nat, m \in Has PROVE m + 1 \in Has
  <2>1. CASE \E i \in 1..n : i <= m /\ k[i] # l[i]
    BY <1>2, <2>1
  <2>2. CASE ~\E i \in 1..n : i <= m /\ k[i] # l[i]
    <3> SUFFICES ASSUME NEW i \in 1..n, i <= m + 1, k[i] # l[i]
                 PROVE  \E h \in 1..n : k[h] # l[h] /\ \A j \in 1..(h - 1) : k[j] = l[j]
      OBVIOUS
    <3>1. \A j \in 1..(i - 1) : k[j] = l[j]
      BY <2>2
    <3>. QED BY <3>1
  <2>. QED BY <2>1, <2>2
<1>3. Nat \subseteq Has
  <2> HIDE DEF Has
  <2>. QED BY <1>1, <1>2, NaturalsBySteps
<1>4. \E i \in 1..n : k[i] # l[i]
  <2>1. k \in Seq(Int) /\ l \in Seq(Int) /\ Len(k) = n /\ Len(l) = n
    BY DEF Keys
  <2>. QED BY <2>1
<1>5. n \in Has
  BY <1>3
<1>. QED BY <1>4, <1>5

LEMMA BeforeOrdersKeys ==
  ASSUME NEW n \in Nat
  PROVE  /\ \A k \in Keys(n) : ~Before(k, k)
         /\ \A k, l, m \in Keys(n) : Before(k, l) /\ Before(l, m) => Before(k, m)
         /\ \A k, l \in Keys(n) : k = l \/ Before(k, l) \/ Before(l, k)
<1>0. \A k \in Keys(n) : Len(k) = n /\ \A i \in 1..n : k[i] \in Int
  BY DEF Keys
<1>1. \A k, l \in Keys(n) : Before(k, l) <=> \E i \in 1..n : k[i] < l[i] /\ \A j \in 1..(i - 1) : k[j] = l[j]
  BY <1>0 DEF Before
<1>2. ASSUME NEW k \in Keys(n) PROVE ~Before(k, k)
  BY <1>0, <1>1
<1>3. ASSUME NEW k \in Keys(n), NEW l \in Keys(n), NEW m \in Keys(n), Before(k, l), Before(l, m)
      PROVE  Before(k, m)
  <2>1. PICK i \in 1..n : k[i] < l[i] /\ \A j \in 1..(i - 1) : k[j] = l[j]
    BY <1>1, <1>3
  <2>2. PICK h \in 1..n : l[h] < m[h] /\ \A j \in 1..(h - 1) : l[j] = m[j]
    BY <1>1, <1>3
  <2>0. \A j \in 1..n : k[j] \in Int /\ l[j] \in Int /\ m[j] \in Int
    BY <1>0
  <2>3. CASE i <= h
    <3>1. k[i] < m[i]
      BY <2>0, <2>1, <2>2, <2>3
    <3>2. \A j \in 1..(i - 1) : k[j] = m[j]
      BY <2>1, <2>2, <2>3
    <3>. QED BY <1>1, <3>1, <3>2
  <2>4. CASE h < i
    <3>1. k[h] < m[h]
      BY <2>0, <2>1, <2>2, <2>4
    <3>2. \A j \in 1..(h - 1) : k[j] = m[j]
      BY <2>1, <2>2, <2>4
    <3>. QED BY <1>1, <3>1, <3>2
  <2>. QED BY <2>3, <2>4
<1>4. ASSUME NEW k \in Keys(n), NEW l \in Keys(n), k # l PROVE Before(k, l) \/ Before(l, k)
  <2>1. PICK i \in 1..n : k[i] # l[i] /\ \A j \in 1..(i - 1) : k[j] = l[j]
    BY <1>4, KeysDiffer
  <2>2. k[i] < l[i] \/ l[i] < k[i]
    BY <1>0, <2>1
  <2>3. \A j \in 1..(i - 1) : l[j] = k[j]
    BY <2>1
  <2>. QED BY <1>1, <2>1, <2>2, <2>3
<1>. QED BY <1>2, <1>3, <1>4

\* InOrder(S, Before), written out.
KeyRanked(S) == [i \in 1..Cardinality(S) |-> CHOOSE x \in S : Cardinality({y \in S : Before(y, x)}) = i - 1]

\* A sequence of the elements of S, each once, in the order of their keys.
KeyListed(f, S) ==
  /\ f \in [1..Cardinality(S) -> S] /\ Cardinality(S) \in Nat
  /\ \A i, j \in 1..Cardinality(S) : i < j => Before(f[i], f[j])
  /\ \A i, j \in 1..Cardinality(S) : f[i] = f[j] => i = j
  /\ \A x \in S : \E i \in 1..Cardinality(S) : f[i] = x

\* Keys in order.
LEMMA KeysInOrder ==
  ASSUME NEW n \in Nat, NEW S, IsFiniteSet(S), S \subseteq Keys(n)
  PROVE  KeyListed(KeyRanked(S), S)
<1> SUFFICES ASSUME NEW f, f = KeyRanked(S)
    PROVE  /\ f \in [1..Cardinality(S) -> S] /\ Cardinality(S) \in Nat
           /\ \A i, j \in 1..Cardinality(S) : i < j => Before(f[i], f[j])
           /\ \A i, j \in 1..Cardinality(S) : f[i] = f[j] => i = j
           /\ \A x \in S : \E i \in 1..Cardinality(S) : f[i] = x
  BY DEF KeyListed
<1> DEFINE R == {p \in S \X S : Before(p[1], p[2])}
<1>1. \A x, y \in S : <<x, y>> \in R <=> Before(x, y)
  <2> HIDE DEF Before
  <2>. QED OBVIOUS
<1>2. \A x \in S : Below(R, S, x) = {y \in S : Before(y, x)}
  BY <1>1 DEF Below
<1> HIDE DEF R
<1>3. StrictlyOrders(R, S)
  <2>1. /\ \A k \in S : ~Before(k, k)
        /\ \A k, l, m \in S : Before(k, l) /\ Before(l, m) => Before(k, m)
        /\ \A k, l \in S : k = l \/ Before(k, l) \/ Before(l, k)
    BY BeforeOrdersKeys
  <2>. QED BY <1>1, <2>1 DEF StrictlyOrders
<1>5. \A i \in 1..Cardinality(S) : (CHOOSE x \in S : Cardinality({y \in S : Before(y, x)}) = i - 1)
                                   = (CHOOSE x \in S : Cardinality(Below(R, S, x)) = i - 1)
  BY <1>2
<1>6. f = [i \in 1..Cardinality(S) |-> CHOOSE x \in S : Cardinality(Below(R, S, x)) = i - 1]
  <2> DEFINE a(i) == CHOOSE x \in S : Cardinality({y \in S : Before(y, x)}) = i - 1
             b(i) == CHOOSE x \in S : Cardinality(Below(R, S, x)) = i - 1
  <2>1. f = [i \in 1..Cardinality(S) |-> a(i)] /\ \A i \in 1..Cardinality(S) : a(i) = b(i)
    BY <1>5 DEF KeyRanked
  <2> HIDE DEF a, b
  <2>2. f = [i \in 1..Cardinality(S) |-> b(i)]
    BY <2>1
  <2>. QED BY <2>2 DEF b
<1>7. Lists(f, R, S)
  BY <1>3, <1>6, ListOfRanks
<1>8. Cardinality(S) \in Nat
  BY FS_CardinalityType
<1>9. ASSUME NEW i \in 1..Cardinality(S), NEW j \in 1..Cardinality(S), f[i] = f[j] PROVE i = j
  <2>1. \A x \in S : <<x, x>> \notin R
    BY <1>3, Zenon DEF StrictlyOrders
  <2>2. f[i] \in S
    BY <1>7 DEF Lists
  <2>3. ~(i < j) /\ ~(j < i)
    BY <1>7, <1>9, <2>1, <2>2 DEF Lists
  <2>. QED BY <1>8, <2>3
<1>. QED BY <1>1, <1>7, <1>8, <1>9 DEF Lists

-----------------------------------------------------------------------------
(* The run and its stage *)

StageRoots == Roots \cup {"moves", "history"}

RunPhases ==
  {"scan", "minutes", "cells", "tags", "moves", "langs", "ranking", "history", "suspects", "manifest"}

\* The phases that still find a root's stage as the scans left it.
Unread ==
  [minutes |-> {"minutes"}, cells |-> {"minutes", "cells"}, tags |-> {"minutes", "cells", "tags"},
   moves |-> {"minutes", "cells", "tags", "moves"}, langs |-> {"minutes", "cells", "tags", "moves"},
   history |-> RunPhases \ {"scan", "manifest"}]

-----------------------------------------------------------------------------
(* What the scans count, as weights *)

LEMMA ImageIsFinite ==
  ASSUME NEW f, NEW S, IsFiniteSet(S) PROVE IsFiniteSet({f[x] : x \in S})
<1> DEFINE T == {f[x] : x \in S}
           g == [x \in S |-> f[x]]
<1>1. g \in Surjection(S, T)
  BY DEF Surjection
<1> HIDE DEF g, T
<1>2. IsFiniteSet(T)
  BY <1>1, FS_Surjection
<1>. QED BY <1>2 DEF T

\* The elements of a set there are in a sequence.
LEMMA NumberZero ==
  ASSUME NEW X, NEW s \in Seq(X), NEW T
  PROVE  /\ Weigh(s, Ones(X, T)) \in Nat
         /\ Weigh(s, Ones(X, T)) = 0 <=> \A i \in DOMAIN s : s[i] \notin T
<1> DEFINE g == Ones(X, T)
<1>1. \A x \in X : g[x] \in Nat /\ (g[x] = 0 <=> x \notin T)
  BY DEF Ones
<1>4. \A i \in DOMAIN s : s[i] \in X
  OBVIOUS
<1> HIDE DEF g
<1>2. Weigh(s, g) \in Nat
  BY <1>1, WeighNat
<1>3. Weigh(s, g) = 0 <=> \A i \in DOMAIN s : g[s[i]] = 0
  BY <1>1, WeighZero
<1>. QED BY <1>1, <1>2, <1>3, <1>4 DEF g

-----------------------------------------------------------------------------

\* Users

OfUser(u) == Ones(Versions, {v \in Versions : v.uid = u})

-----------------------------------------------------------------------------

\* Rows of a store

OfKey(root, k) == Ones(Versions, {v \in Versions : k \in KeysOf(root, v)})

KeyLength == [minutes |-> 2, cells |-> 3, tags |-> 3, langs |-> 3]

-----------------------------------------------------------------------------
(* The rows of the history *)

LEMMA WeighOnly ==
  ASSUME NEW X, NEW s \in Seq(X), NEW g, \A x \in X : g[x] \in Int,
         NEW i \in DOMAIN s, \A j \in DOMAIN s \ {i} : g[s[j]] = 0
  PROVE  Weigh(s, g) = g[s[i]]
<1> DEFINE f == [j \in DOMAIN s |-> g[s[j]]]
           D == DOMAIN s
<1>1. IsFiniteSet(D) /\ IsFiniteSet(D \ {i}) /\ i \in D
  BY FS_Interval, FS_Subset
<1>2. \A j \in D : f[j] \in Int
  OBVIOUS
<1>3. \A j \in D \ {i} : f[j] = 0
  OBVIOUS
<1>4. Weigh(s, g) = SumFunctionOnSet(f, D) /\ f[i] = g[s[i]] /\ f[i] \in Int
  BY <1>2 DEF Weigh
<1> HIDE DEF f, D
<1>5. SumFunctionOnSet(f, D) = f[i] + SumFunctionOnSet(f, D \ {i})
  BY <1>1, <1>2, SumRemove
<1>6. SumFunctionOnSet(f, D \ {i}) = 0
  BY <1>1, <1>3, SumZero
<1>. QED BY <1>4, <1>5, <1>6

Counts(X) == [x \in X |-> x.count]

LEMMA CountsInIs ==
  ASSUME NEW X, NEW s \in Seq(X) PROVE CountsIn(s) = Weigh(s, Counts(X))
<1> DEFINE f == [i \in DOMAIN s |-> s[i].count]
           h == [i \in DOMAIN s |-> Counts(X)[s[i]]]
<1>1. \A i \in DOMAIN s : s[i] \in X
  OBVIOUS
<1>2. f = h
  BY <1>1 DEF Counts
<1>3. CountsIn(s) = SumFunctionOnSet(f, DOMAIN f) /\ DOMAIN f = DOMAIN s
  BY DEF CountsIn, SumFunction
<1>4. Weigh(s, Counts(X)) = SumFunctionOnSet(h, DOMAIN s)
  BY DEF Weigh
<1> HIDE DEF f, h
<1>. QED BY <1>2, <1>3, <1>4

BaseOf(rows) ==
  LET of(k) == At(rows, {i \in DOMAIN rows : rows[i].key = k})
  IN  [k \in {rows[i].key : i \in DOMAIN rows} |->
         [count |-> CountsIn(of(k)), flags |-> UNION {of(k)[i].flags : i \in DOMAIN of(k)}]]

OneRowADay(rows) == \A i, j \in DOMAIN rows : rows[i].key = rows[j].key => i = j

-----------------------------------------------------------------------------
(* The stage files of the import *)

LEMMA ConcatAppend ==
  ASSUME NEW X, NEW s \in Seq(X), NEW l \in Seq(X), NEW e \in X
  PROVE  s \o Append(l, e) = Append(s \o l, e) /\ Append(l, e) \in Seq(X)
OBVIOUS

-----------------------------------------------------------------------------
(* The rows the import writes *)

LEMMA PairsAre ==
  \A k \in Keys(2) : k = <<k[1], k[2]>> /\ k[1] \in Int /\ k[2] \in Int
<1> TAKE k \in Keys(2)
<1> DEFINE l == <<k[1], k[2]>>
<1>1. k \in Seq(Int) /\ Len(k) = 2
  BY DEF Keys
<1>2. DOMAIN k = 1..2 /\ \A i \in 1..2 : k[i] \in Int
  BY <1>1, ElementOfSeq, LenProperties
<1>3. k[1] \in Int /\ k[2] \in Int
  BY <1>2
<1>4. l \in Seq(Int) /\ Len(l) = 2 /\ l[1] = k[1] /\ l[2] = k[2]
  BY <1>3
<1> HIDE DEF l
<1>5. \A i \in 1..2 : k[i] = l[i]
  BY <1>4
<1>6. k = l
  BY <1>1, <1>4, <1>5, SeqEqual
<1>. QED BY <1>3, <1>6 DEF l

-----------------------------------------------------------------------------
(* What the tables owe the stream *)

LEMMA OnesAreNumbers == \A T : \A x \in Versions : Ones(Versions, T)[x] \in Nat
BY DEF Ones

-----------------------------------------------------------------------------
(* Products and quotients *)

LEMMA TimesMonotone ==
  ASSUME NEW a \in Nat, NEW b \in Nat, NEW c \in Nat, a <= b PROVE a * c <= b * c /\ a * c \in Nat
<1>1. PICK d \in Nat : b = a + d
  <2>1. b - a \in Nat /\ b = a + (b - a)
    OBVIOUS
  <2>. QED BY <2>1
<1>2. b * c = a * c + d * c
  BY <1>1
<1>3. d * c \in Nat /\ a * c \in Nat
  OBVIOUS
<1>. QED BY <1>2, <1>3

LEMMA TimesLess ==
  ASSUME NEW a \in Nat, NEW b \in Nat, NEW c \in Nat, c # 0, a < b PROVE a * c + c <= b * c
<1>1. (a + 1) * c <= b * c
  BY TimesMonotone
<1>2. (a + 1) * c = a * c + c
  OBVIOUS
<1>. QED BY <1>1, <1>2

LEMMA QuotientIs ==
  ASSUME NEW a \in Nat, NEW d \in Nat \ {0}
  PROVE  a \div d \in Nat /\ (a \div d) * d <= a /\ a < (a \div d) * d + d
<1>1. a = d * (a \div d) + (a % d) /\ a % d \in 0..(d - 1) /\ a \div d \in Int
  OBVIOUS
<1> DEFINE q == a \div d
           r == a % d
<1>2. a = d * q + r /\ r \in 0..(d - 1) /\ q \in Int
  BY <1>1
<1> HIDE DEF q, r
<1>3. d * q = q * d
  BY <1>2
<1>4. q \in Nat
  <2> SUFFICES ASSUME q < 0 PROVE FALSE
    BY <1>2
  <2>1. PICK p \in Nat : q = -p - 1
    <3>1. -q - 1 \in Nat /\ q = -(-q - 1) - 1
      BY <1>2
    <3>. QED BY <3>1
  <2>2. q * d = -(p * d) - d
    BY <2>1
  <2>3. p * d \in Nat
    OBVIOUS
  <2>. QED BY <1>2, <1>3, <2>2, <2>3
<1>5. q * d \in Nat
  BY <1>4
<1>6. q * d <= a /\ a < q * d + d
  BY <1>2, <1>3, <1>5
<1>. QED BY <1>4, <1>6 DEF q

LEMMA QuotientUnique ==
  ASSUME NEW a \in Nat, NEW d \in Nat \ {0}, NEW q \in Nat, q * d <= a, a < q * d + d
  PROVE  a \div d = q
<1> DEFINE p == a \div d
<1>1. p \in Nat /\ p * d <= a /\ a < p * d + d
  BY QuotientIs
<1> HIDE DEF p
<1>2. ~(p < q)
  <2> SUFFICES ASSUME p < q PROVE FALSE
    OBVIOUS
  <2>1. p * d + d <= q * d
    BY <1>1, TimesLess
  <2>. QED BY <1>1, <2>1
<1>3. ~(q < p)
  <2> SUFFICES ASSUME q < p PROVE FALSE
    OBVIOUS
  <2>1. q * d + d <= p * d
    BY <1>1, TimesLess
  <2>. QED BY <1>1, <2>1
<1>. QED BY <1>1, <1>2, <1>3 DEF p

LEMMA QuotientMonotone ==
  ASSUME NEW a \in Nat, NEW b \in Nat, NEW d \in Nat \ {0}, a <= b PROVE a \div d <= b \div d
<1> DEFINE p == a \div d
           q == b \div d
<1>1. p \in Nat /\ p * d <= a /\ q \in Nat /\ b < q * d + d
  BY QuotientIs
<1> HIDE DEF p, q
<1>2. ~(q < p)
  <2> SUFFICES ASSUME q < p PROVE FALSE
    OBVIOUS
  <2>1. q * d + d <= p * d
    BY <1>1, TimesLess
  <2>. QED BY <1>1, <2>1
<1>. QED BY <1>1, <1>2 DEF p, q

LEMMA QuotientExact ==
  ASSUME NEW m \in Nat, NEW d \in Nat \ {0} PROVE (m * d) \div d = m /\ (m * d) \in Nat
<1>1. m * d \in Nat /\ m * d <= m * d /\ m * d < m * d + d
  OBVIOUS
<1>. QED BY <1>1, QuotientUnique

LEMMA LessOfTwo ==
  ASSUME NEW a \in Int, NEW b \in Int PROVE Min({a, b}) = IF a <= b THEN a ELSE b
<1> DEFINE m == IF a <= b THEN a ELSE b
<1>1. m \in {a, b} /\ \A y \in {a, b} : m <= y
  OBVIOUS
<1>2. \A x \in {a, b} : (\A y \in {a, b} : x <= y) => x = m
  OBVIOUS
<1> HIDE DEF m
<1>. QED BY <1>1, <1>2 DEF Min, m

-----------------------------------------------------------------------------
(* Factorials *)

Factorial(p, n) == p = [i \in 0..n |-> IF i = 0 THEN 1 ELSE i * p[i - 1]]

LEMMA FactorialExists == ASSUME NEW n \in Nat PROVE \E p : Factorial(p, n)
<1> DEFINE upTo(p, m) == /\ p = [i \in 0..m |-> p[i]]
                         /\ p[0] = 1
                         /\ \A i \in 0..m : p[i] \in Nat
                         /\ \A i \in 1..m : p[i] = i * p[i - 1]
           Has == {m \in Nat : \E p : upTo(p, m)}
<1>1. 0 \in Has
  <2>1. upTo([i \in 0..0 |-> 1], 0)
    OBVIOUS
  <2>. QED BY <2>1
<1>2. ASSUME NEW m \in Nat, m \in Has PROVE m + 1 \in Has
  <2>1. PICK p : upTo(p, m)
    BY <1>2
  <2>f. (\A i \in 0..m : p[i] \in Nat) /\ p[0] = 1
    BY <2>1
  <2>g. \A i \in 1..m : p[i] = i * p[i - 1]
    BY <2>1, Zenon
  <2>h. p[m] \in Nat
    <3>1. m \in 0..m
      OBVIOUS
    <3>. QED BY <2>f, <3>1
  <2>a. p[m] \in Nat /\ p[0] = 1 /\ (\A i \in 0..m : p[i] \in Nat) /\ \A i \in 1..m : p[i] = i * p[i - 1]
    BY <2>f, <2>g, <2>h
  <2> DEFINE next == (m + 1) * p[m]
             u == [i \in 0..(m + 1) |-> IF i <= m THEN p[i] ELSE next]
  <2>b. next \in Nat
    BY <2>a
  <2> HIDE DEF next
  <2>c. /\ \A i \in 0..m : u[i] = p[i]
        /\ u[m + 1] = next /\ u = [i \in 0..(m + 1) |-> u[i]]
    OBVIOUS
  <2> HIDE DEF u
  <2>d. u[0] = 1 /\ \A i \in 0..(m + 1) : u[i] \in Nat
    <3>1. \A i \in 0..(m + 1) : i \in 0..m \/ i = m + 1
      OBVIOUS
    <3>2. 0 \in 0..m
      OBVIOUS
    <3>. QED BY <2>a, <2>b, <2>c, <3>1, <3>2
  <2>e. \A i \in 1..(m + 1) : u[i] = i * u[i - 1]
    <3> TAKE i \in 1..(m + 1)
    <3>1. CASE i <= m
      <4>1. i \in 1..m /\ i - 1 \in 0..m /\ i \in 0..m
        BY <3>1
      <4>2. u[i] = p[i] /\ u[i - 1] = p[i - 1] /\ p[i] = i * p[i - 1]
        BY <2>a, <2>c, <4>1
      <4>. QED BY <4>2
    <3>2. CASE ~(i <= m)
      <4>1. i = m + 1 /\ (m + 1) - 1 = m /\ m \in 0..m
        BY <3>2
      <4>2. u[m + 1] = next /\ u[m] = p[m]
        BY <2>c, <4>1
      <4>3. u[m + 1] = (m + 1) * u[(m + 1) - 1]
        BY <4>1, <4>2 DEF next
      <4>. QED BY <4>1, <4>3
    <3>. QED BY <3>1, <3>2
  <2>2. upTo(u, m + 1)
    BY <2>c, <2>d, <2>e
  <2> HIDE DEF upTo, u
  <2>. QED BY <2>2
<1>3. Nat \subseteq Has
  <2> HIDE DEF Has
  <2>. QED BY <1>1, <1>2, NaturalsBySteps
<1>4. PICK p : upTo(p, n)
  BY <1>3
<1>5. ASSUME NEW i \in 0..n PROVE p[i] = IF i = 0 THEN 1 ELSE i * p[i - 1]
  <2>1. CASE i = 0 BY <1>4, <2>1
  <2>2. CASE i # 0
    <3>1. i \in 1..n
      BY <2>2
    <3>2. p[i] = i * p[i - 1]
      BY <1>4, <3>1
    <3>. QED BY <2>2, <3>2
  <2>. QED BY <2>1, <2>2
<1>7. p = [i \in 0..n |-> p[i]]
  BY <1>4
<1>6. Factorial(p, n)
  BY <1>5, <1>7 DEF Factorial
<1>. QED BY <1>6

\* A factorial is positive and a multiple of every number up to its own.
LEMMA FactorialIs ==
  ASSUME NEW n \in Nat, NEW p, Factorial(p, n)
  PROVE  /\ p[n] \in Nat \ {0}
         /\ \A d \in 1..n : \E m \in Nat : p[n] = m * d
<1> DEFINE Has == {k \in Nat : k <= n => /\ p[k] \in Nat \ {0}
                                         /\ \A d \in 1..k : \E m \in Nat : p[k] = m * d}
<1>0. \A i \in 0..n : p[i] = IF i = 0 THEN 1 ELSE i * p[i - 1]
  BY DEF Factorial
<1>1. 0 \in Has
  BY <1>0
<1>2. ASSUME NEW k \in Nat, k \in Has PROVE k + 1 \in Has
  <2> SUFFICES ASSUME k + 1 <= n
               PROVE  /\ p[k + 1] \in Nat \ {0}
                      /\ \A d \in 1..(k + 1) : \E m \in Nat : p[k + 1] = m * d
    OBVIOUS
  <2>1. p[k] \in Nat \ {0} /\ \A d \in 1..k : \E m \in Nat : p[k] = m * d
    BY <1>2
  <2>2. p[k + 1] = (k + 1) * p[k]
    BY <1>0
  <2> DEFINE q == p[k]
             r == p[k + 1]
  <2>3. q \in Nat \ {0} /\ r = (k + 1) * q /\ \A d \in 1..k : \E m \in Nat : q = m * d
    BY <2>1, <2>2
  <2> HIDE DEF q, r
  <2>4. k * q \in Nat /\ r = k * q + q
    BY <2>3
  <2>5. r \in Nat \ {0}
    BY <2>3, <2>4
  <2>6. ASSUME NEW d \in 1..(k + 1) PROVE \E m \in Nat : r = m * d
    <3>1. CASE d = k + 1
      BY <2>3, <3>1
    <3>2. CASE d # k + 1
      <4>1. PICK m \in Nat : q = m * d
        <5>1. d \in 1..k
          BY <3>2
        <5>. QED BY <2>3, <5>1
      <4>2. r = ((k + 1) * m) * d /\ (k + 1) * m \in Nat
        BY <2>3, <4>1
      <4>. QED BY <4>2
    <3>. QED BY <3>1, <3>2
  <2>. QED BY <2>5, <2>6 DEF r
<1>3. Nat \subseteq Has
  <2> HIDE DEF Has
  <2>. QED BY <1>1, <1>2, NaturalsBySteps
<1>4. n \in Has
  BY <1>3
<1>. QED BY <1>4

-----------------------------------------------------------------------------
(* The ranking *)

\* The rounded ranking of a sum of points.
Rounded(s, unit) == Min({100, (2 * s + unit) \div (2 * unit)})

LEMMA RoundedIs ==
  ASSUME NEW unit \in Nat \ {0}
  PROVE  /\ \A s \in Nat : Rounded(s, unit) \in 0..100
         /\ \A s, r \in Nat : s <= r => Rounded(s, unit) <= Rounded(r, unit)
         /\ Rounded(0, unit) = 0
         /\ \A c \in Nat : Rounded(c * unit, unit) = Min({100, c})
<1> DEFINE q(s) == (2 * s + unit) \div (2 * unit)
<1>1. \A s \in Nat : 2 * s + unit \in Nat /\ 2 * unit \in Nat \ {0}
  OBVIOUS
<1>2. \A s \in Nat : q(s) \in Nat
  BY <1>1, QuotientIs
<1>3. ASSUME NEW s \in Nat, NEW r \in Nat, s <= r PROVE q(s) <= q(r)
  <2>1. 2 * s + unit <= 2 * r + unit
    BY <1>3
  <2>. QED BY <1>1, <2>1, QuotientMonotone
<1>4. ASSUME NEW c \in Nat PROVE q(c * unit) = c
  <2> DEFINE n == 2 * (c * unit) + unit
             d == 2 * unit
  <2>1. c * unit \in Nat /\ c * d = 2 * (c * unit) /\ n \in Nat /\ d \in Nat \ {0} /\ unit < d
    OBVIOUS
  <2>2. c * d <= n /\ n < c * d + d
    BY <2>1
  <2>3. n \div d = c
    <3> HIDE DEF n, d
    <3>. QED BY <2>1, <2>2, QuotientUnique
  <2>. QED BY <2>3
<1>5. q(0) = 0
  <2>1. 0 * unit = 0
    OBVIOUS
  <2>. QED BY <1>4, <2>1
<1>6. \A s : Rounded(s, unit) = Min({100, q(s)})
  BY DEF Rounded
<1> HIDE DEF q
<1>7. \A n \in Nat : Min({100, n}) = IF 100 <= n THEN 100 ELSE n
  BY LessOfTwo
<1>8. \A s \in Nat : Rounded(s, unit) = IF 100 <= q(s) THEN 100 ELSE q(s)
  BY <1>2, <1>6, <1>7
<1>9. ASSUME NEW s \in Nat PROVE Rounded(s, unit) \in 0..100
  <2>1. q(s) \in Nat /\ Rounded(s, unit) = IF 100 <= q(s) THEN 100 ELSE q(s)
    BY <1>2, <1>8
  <2>. QED BY <2>1
<1>10. ASSUME NEW s \in Nat, NEW r \in Nat, s <= r PROVE Rounded(s, unit) <= Rounded(r, unit)
  <2>1. q(s) <= q(r) /\ q(s) \in Nat /\ q(r) \in Nat
    BY <1>2, <1>3, <1>10
  <2>. QED BY <1>8, <2>1
<1>11. Rounded(0, unit) = 0
  BY <1>5, <1>8
<1>12. \A c \in Nat : Rounded(c * unit, unit) = Min({100, c})
  BY <1>4, <1>6
<1>. QED BY <1>9, <1>10, <1>11, <1>12

-----------------------------------------------------------------------------
(* A store's file gives back what was written *)

\* The blocks of a file of n records.
Blocks(n) == (n + BlockSize - 1) \div BlockSize

CutEnd(b, n) == Min({b * BlockSize, n})

CutOf(keys, b, n) == SubSeq(keys, (b - 1) * BlockSize + 1, CutEnd(b, n))

CutFits(keys, b, n) ==
  /\ (b - 1) * BlockSize \in Nat /\ CutEnd(b, n) \in 1..n
  /\ Len(CutOf(keys, b, n)) = CutEnd(b, n) - (b - 1) * BlockSize
  /\ Len(CutOf(keys, b, n)) \in Nat
  /\ \A j \in 1..Len(CutOf(keys, b, n)) :
       /\ (b - 1) * BlockSize + j \in 1..n
       /\ CutOf(keys, b, n)[j] = keys[(b - 1) * BlockSize + j]

PlaceFits(b, j, i, n) ==
  /\ b \in 1..Blocks(n) /\ (b - 1) * BlockSize + j = i
  /\ j \in 1..(CutEnd(b, n) - (b - 1) * BlockSize)

\* A block starts at a record and ends at one, at most a block's size further.
LEMMA CutIs ==
  ASSUME NEW n \in Nat, NEW X, NEW keys \in [1..n -> X], NEW b \in 1..Blocks(n)
  PROVE  CutFits(keys, b, n)
<1> DEFINE B == BlockSize
           last == Blocks(n)
           from == (b - 1) * B
           to == CutEnd(b, n)
<1>0. B \in Nat \ {0}
  BY BlockSizeIsPositive
<1>1. last \in Nat /\ last * B <= n + B - 1
  <2>1. n + B - 1 \in Nat
    BY <1>0
  <2>. QED BY <1>0, <2>1, QuotientIs DEF Blocks
<1> HIDE DEF B, last
<1>2. b \in Nat /\ b - 1 \in Nat /\ b <= last
  BY <1>1 DEF last
<1>3. from \in Nat /\ from + B = b * B /\ b * B \in Nat
  BY <1>0, <1>2
<1>4. b * B <= last * B
  BY <1>0, <1>1, <1>2, TimesMonotone
<1>5. from <= n - 1
  <2>1. last * B \in Nat
    BY <1>0, <1>1
  <2> DEFINE p == b * B
             q == last * B
  <2>2. from + B = p /\ p <= q /\ q <= n + B - 1 /\ p \in Nat /\ q \in Nat
    BY <1>1, <1>3, <1>4, <2>1
  <2> HIDE DEF p, q, from
  <2>. QED BY <1>0, <1>3, <2>2
<1>6. to = IF b * B <= n THEN b * B ELSE n
  BY <1>3, LessOfTwo DEF CutEnd, B
<1> HIDE DEF from, to
<1>7. to \in 1..n /\ from + 1 <= to
  BY <1>0, <1>3, <1>5, <1>6
<1>8. keys \in Seq(X) /\ Len(keys) = n
  OBVIOUS
<1> DEFINE cut == CutOf(keys, b, n)
<1>9. cut = SubSeq(keys, from + 1, to)
  BY DEF CutOf, from, to, B
<1>10. Len(cut) = to - from /\ \A j \in 1..Len(cut) : cut[j] = keys[from + j]
  <2> HIDE DEF cut
  <2>1. Len(cut) = to - (from + 1) + 1 /\ \A j \in 1..(to - (from + 1) + 1) : cut[j] = keys[(from + 1) + j - 1]
    BY <1>3, <1>7, <1>8, <1>9, SubSeqProperties
  <2>2. to - (from + 1) + 1 = to - from /\ \A j \in Int : (from + 1) + j - 1 = from + j
    BY <1>3, <1>7
  <2>3. Len(cut) = to - from
    BY <2>1, <2>2
  <2>4. ASSUME NEW j \in 1..Len(cut) PROVE cut[j] = keys[from + j]
    <3>1. j \in 1..(to - (from + 1) + 1) /\ j \in Int
      BY <2>2, <2>3
    <3>2. cut[j] = keys[(from + 1) + j - 1] /\ (from + 1) + j - 1 = from + j
      BY <2>1, <2>2, <3>1
    <3>. QED BY <3>2
  <2>. QED BY <2>3, <2>4
<1> HIDE DEF cut
<1>11. Len(cut) \in Nat /\ \A j \in 1..Len(cut) : from + j \in 1..n
  BY <1>3, <1>7, <1>10
<1>. QED BY <1>3, <1>7, <1>10, <1>11 DEF CutFits, from, to, B, cut

\* The block and the place of a record's number.
LEMMA PlaceOfRecord ==
  ASSUME NEW n \in Nat, NEW i \in 1..n
  PROVE  PlaceFits((i - 1) \div BlockSize + 1, ((i - 1) % BlockSize) + 1, i, n)
<1> DEFINE B == BlockSize
           last == Blocks(n)
           q == (i - 1) \div B
           r == (i - 1) % B
<1>0. B \in Nat \ {0} /\ i - 1 \in Nat
  BY BlockSizeIsPositive
<1>1. q \in Nat
  BY <1>0, QuotientIs
<1>2. i - 1 = B * q + r /\ r \in 0..(B - 1)
  BY <1>0
<1>3. last \in Nat /\ n + B - 1 < last * B + B
  <2>1. n + B - 1 \in Nat
    BY <1>0
  <2>. QED BY <1>0, <2>1, QuotientIs DEF Blocks
<1> HIDE DEF B, last, q, r
<1>4. B * q = q * B /\ q * B \in Nat /\ (q + 1) * B = q * B + B /\ last * B \in Nat
  BY <1>0, <1>1, <1>3
<1>5. q + 1 <= last
  <2> SUFFICES ASSUME last < q + 1 PROVE FALSE
    BY <1>1, <1>3
  <2>1. last * B <= q * B
    BY <1>0, <1>1, <1>3, TimesMonotone
  <2> DEFINE x == last * B
             y == q * B
  <2>2. x <= y /\ i - 1 = y + r /\ n + B - 1 < x + B /\ x \in Nat /\ y \in Nat
    BY <1>2, <1>3, <1>4, <2>1
  <2> HIDE DEF x, y
  <2>. QED BY <1>0, <1>2, <2>2
<1>6. q + 1 - 1 = q
  BY <1>1
<1>7. CutEnd(q + 1, n) = IF (q + 1) * B <= n THEN (q + 1) * B ELSE n
  <2>1. (q + 1) * B \in Int
    BY <1>0, <1>1
  <2>. QED BY <2>1, LessOfTwo DEF CutEnd, B
<1> DEFINE y == q * B
           e == CutEnd(q + 1, n)
<1>8. y \in Nat /\ i - 1 = y + r /\ e = IF y + B <= n THEN y + B ELSE n
  BY <1>2, <1>4, <1>7
<1> HIDE DEF y, e
<1>9. r + 1 \in 1..(e - y) /\ y + (r + 1) = i
  BY <1>0, <1>2, <1>8
<1>10. q + 1 \in 1..last /\ r \in Nat
  BY <1>1, <1>2, <1>3, <1>5
<1>11. PlaceFits(q + 1, r + 1, i, n)
  <2>1. ((q + 1) - 1) * BlockSize = y /\ CutEnd(q + 1, n) = e /\ Blocks(n) = last
    <3> DEFINE z == (q + 1) - 1
    <3>1. z = q
      BY <1>1
    <3> HIDE DEF z
    <3>2. z * BlockSize = y
      BY <3>1 DEF y, B
    <3>. QED BY <3>2 DEF e, last, z
  <2> DEFINE x == ((q + 1) - 1) * BlockSize
  <2>2. x = y /\ y + (r + 1) = i /\ r + 1 \in 1..(e - y)
    BY <1>9, <2>1
  <2> HIDE DEF x
  <2>3. q + 1 \in 1..Blocks(n) /\ x + (r + 1) = i /\ r + 1 \in 1..(CutEnd(q + 1, n) - x)
    BY <1>10, <2>1, <2>2
  <2>. QED BY <2>3 DEF PlaceFits, x
<1>. QED BY <1>11 DEF q, r, B

-----------------------------------------------------------------------------

\* The record of a key.
RecordOf(c, k) == [key |-> k, count |-> c[k]]

Lined(c) == [i \in 1..Cardinality(DOMAIN c) |-> RecordOf(c, KeyRanked(DOMAIN c)[i])]

\* The file of the counts c, with its blocks named.
FileOf(c, seq) ==
  [seq |-> seq, size |-> Cardinality(DOMAIN c),
   blocks |-> [b \in 1..Blocks(Cardinality(DOMAIN c)) |->
                 [j \in 1..Len(CutOf(KeyRanked(DOMAIN c), b, Cardinality(DOMAIN c))) |->
                    RecordOf(c, CutOf(KeyRanked(DOMAIN c), b, Cardinality(DOMAIN c))[j])]]]

LEMMA WrittenIs ==
  ASSUME NEW m \in Nat, NEW c, IsFiniteSet(DOMAIN c), DOMAIN c \subseteq Keys(m), NEW seq
  PROVE  /\ Written(c, seq) = FileOf(c, seq)
         /\ KeyListed(KeyRanked(DOMAIN c), DOMAIN c)
<1> DEFINE D == DOMAIN c
           keys == KeyRanked(D)
           n == Cardinality(D)
<1>1. KeyListed(keys, D)
  BY KeysInOrder
<1>2. n \in Nat /\ keys \in [1..n -> D]
  BY <1>1 DEF KeyListed
<1>3. Len(keys) = n
  <2> HIDE DEF keys, n
  <2>1. keys \in Seq(D) /\ DOMAIN keys = 1..n
    BY <1>2
  <2>. QED BY <1>2, <2>1
<1>4. Written(c, seq)
        = [seq |-> seq, size |-> Len(keys),
           blocks |-> [b \in 1..(Len(keys) + BlockSize - 1) \div BlockSize |->
             [j \in 1..Len(SubSeq(keys, (b - 1) * BlockSize + 1, Min({b * BlockSize, Len(keys)}))) |->
                [key |-> SubSeq(keys, (b - 1) * BlockSize + 1, Min({b * BlockSize, Len(keys)}))[j],
                 count |-> c[SubSeq(keys, (b - 1) * BlockSize + 1, Min({b * BlockSize, Len(keys)}))[j]]]]]]
  BY DEF Written, InOrder, KeyRanked
<1> HIDE DEF keys, n
<1>5. Written(c, seq)
        = [seq |-> seq, size |-> n,
           blocks |-> [b \in 1..Blocks(n) |->
             [j \in 1..Len(CutOf(keys, b, n)) |-> RecordOf(c, CutOf(keys, b, n)[j])]]]
  BY <1>3, <1>4 DEF Blocks, CutOf, CutEnd, RecordOf
<1>. QED BY <1>1, <1>5 DEF FileOf, keys, n

\* What is read of a file is its counts' records, in the order of the keys.
LEMMA ReadsBack ==
  ASSUME NEW m \in Nat, NEW c, IsFiniteSet(DOMAIN c), DOMAIN c \subseteq Keys(m),
         \A k \in DOMAIN c : c[k] \in Nat, NEW seq \in Nat
  PROVE  /\ Written(c, seq) \in StoreFiles /\ AppliedSeqOf(Written(c, seq)) = seq
         /\ Written(c, seq) # Absent
         /\ Records(Written(c, seq)) = Lined(c)
<1> DEFINE D == DOMAIN c
           keys == KeyRanked(D)
           n == Cardinality(D)
           file == Written(c, seq)
           block(b) == [j \in 1..Len(CutOf(keys, b, n)) |-> RecordOf(c, CutOf(keys, b, n)[j])]
<1>1. file = FileOf(c, seq) /\ KeyListed(keys, D)
  BY WrittenIs
<1>2. n \in Nat /\ keys \in [1..n -> D]
  BY <1>1 DEF KeyListed
<1>3. file = [seq |-> seq, size |-> n, blocks |-> [b \in 1..Blocks(n) |-> block(b)]]
  BY <1>1 DEF FileOf
<1>4. file.seq = seq /\ file.size = n /\ file.blocks = [b \in 1..Blocks(n) |-> block(b)]
  <2> HIDE DEF file, block, n
  <2>. QED BY <1>3
<1> HIDE DEF keys, n
<1>5. \A k \in D : RecordOf(c, k) \in StoreRecords
  <2> TAKE k \in D
  <2>1. k \in Seq(Int) /\ c[k] \in Nat
    BY DEF Keys
  <2>. QED BY <2>1 DEF RecordOf, StoreRecords
<1>6. \A b \in 1..Blocks(n) :
        /\ (b - 1) * BlockSize \in Nat /\ CutEnd(b, n) \in 1..n
        /\ Len(CutOf(keys, b, n)) = CutEnd(b, n) - (b - 1) * BlockSize
        /\ Len(CutOf(keys, b, n)) \in Nat
        /\ \A j \in 1..Len(CutOf(keys, b, n)) :
             /\ (b - 1) * BlockSize + j \in 1..n
             /\ CutOf(keys, b, n)[j] = keys[(b - 1) * BlockSize + j]
  <2> TAKE b \in 1..Blocks(n)
  <2>1. CutFits(keys, b, n)
    BY <1>2, CutIs
  <2>. QED BY <2>1 DEF CutFits
<1>7. ASSUME NEW b \in 1..Blocks(n) PROVE block(b) \in Seq(StoreRecords)
  <2> DEFINE cut == CutOf(keys, b, n)
  <2>1. Len(cut) \in Nat /\ \A j \in 1..Len(cut) : cut[j] \in D
    BY <1>2, <1>6
  <2>2. block(b) = [j \in 1..Len(cut) |-> RecordOf(c, cut[j])]
    OBVIOUS
  <2> HIDE DEF cut, block
  <2>3. \A j \in 1..Len(cut) : RecordOf(c, cut[j]) \in StoreRecords
    BY <1>5, <2>1
  <2>4. block(b) \in [1..Len(cut) -> StoreRecords]
    BY <2>2, <2>3
  <2>. QED BY <2>1, <2>4
<1>8. Blocks(n) \in Nat
  <2>1. n + BlockSize - 1 \in Nat /\ BlockSize \in Nat \ {0}
    BY <1>2, BlockSizeIsPositive
  <2>. QED BY <2>1, QuotientIs DEF Blocks
<1>9. file.blocks \in Seq(Seq(StoreRecords))
  <2> HIDE DEF block, file
  <2> DEFINE X == Seq(StoreRecords)
             N == Blocks(n)
  <2>1. file.blocks \in [1..N -> X] /\ N \in Nat
    BY <1>4, <1>7, <1>8
  <2> HIDE DEF X, N
  <2>2. file.blocks \in Seq(X)
    BY <2>1
  <2>. QED BY <2>2 DEF X
<1>10. file \in StoreFiles
  <2> DEFINE blocks == [b \in 1..Blocks(n) |-> block(b)]
  <2>1. blocks \in Seq(Seq(StoreRecords))
    BY <1>4, <1>9
  <2> HIDE DEF blocks
  <2>2. file = [seq |-> seq, size |-> n, blocks |-> blocks]
    BY <1>3 DEF blocks
  <2> HIDE DEF file
  <2>. QED BY <1>2, <2>1, <2>2 DEF StoreFiles
<1>11. file # Absent
  BY <1>10, AbsentIsNoStore
<1>12. ASSUME NEW i \in 1..n PROVE RecordAt(file, i - 1) = RecordOf(c, keys[i])
  <2> DEFINE b == (i - 1) \div BlockSize + 1
             j == ((i - 1) % BlockSize) + 1
  <2>1. b \in 1..Blocks(n) /\ (b - 1) * BlockSize + j = i /\ j \in 1..(CutEnd(b, n) - (b - 1) * BlockSize)
    <3>1. PlaceFits(b, j, i, n)
      BY <1>2, PlaceOfRecord
    <3>. QED BY <3>1 DEF PlaceFits
  <2>2. RecordAt(file, i - 1) = file.blocks[b][j]
    BY DEF RecordAt
  <2> HIDE DEF b, j, file
  <2>3. file.blocks[b] = block(b)
    <3> HIDE DEF block
    <3>. QED BY <1>4, <2>1
  <2>4. j \in 1..Len(CutOf(keys, b, n)) /\ CutOf(keys, b, n)[j] = keys[i]
    BY <1>6, <2>1
  <2>. QED BY <2>2, <2>3, <2>4
<1>13. Records(file) = [i \in 1..n |-> RecordAt(file, i - 1)]
  <2> HIDE DEF file
  <2>. QED BY <1>4, <1>11 DEF Records
<1>14. Records(file) = [i \in 1..n |-> RecordOf(c, keys[i])]
  <2> HIDE DEF file
  <2>. QED BY <1>12, <1>13
<1>15. AppliedSeqOf(file) = seq
  <2> HIDE DEF file
  <2>. QED BY <1>4, <1>11 DEF AppliedSeqOf
<1>. QED BY <1>10, <1>11, <1>14, <1>15 DEF Lined, n, keys

\* And so are the contents.
LEMMA ContentsOfWritten ==
  ASSUME NEW m \in Nat, NEW c, IsFiniteSet(DOMAIN c), DOMAIN c \subseteq Keys(m),
         \A k \in DOMAIN c : c[k] \in Nat, NEW seq \in Nat, c = [k \in DOMAIN c |-> c[k]]
  PROVE  Contents(Written(c, seq)) = c
<1> DEFINE D == DOMAIN c
           keys == KeyRanked(D)
           n == Cardinality(D)
           records == Records(Written(c, seq))
           all == {records[i] : i \in DOMAIN records}
<1>1. KeyListed(keys, D) /\ records = Lined(c)
  BY WrittenIs, ReadsBack
<1>2. /\ n \in Nat /\ keys \in [1..n -> D] /\ \A x \in D : \E i \in 1..n : keys[i] = x
      /\ records = [i \in 1..n |-> RecordOf(c, keys[i])]
  BY <1>1 DEF KeyListed, Lined
<1>3. Contents(Written(c, seq))
        = [k \in {records[i].key : i \in DOMAIN records} |-> (CHOOSE r \in all : r.key = k).count]
  BY DEF Contents
<1> HIDE DEF keys, n, records
<1>4. \A k : RecordOf(c, k).key = k /\ RecordOf(c, k).count = c[k]
  BY DEF RecordOf
<1>5. \A r : r \in all <=> \E k \in D : r = RecordOf(c, k)
  BY <1>2
<1>6. \A k : (\E i \in DOMAIN records : records[i].key = k) <=> k \in D
  BY <1>2, <1>4
<1>7. {records[i].key : i \in DOMAIN records} = D
  BY <1>6
<1> HIDE DEF all
<1>8. ASSUME NEW k \in D PROVE (CHOOSE r \in all : r.key = k).count = c[k]
  <2>1. RecordOf(c, k) \in all /\ RecordOf(c, k).key = k
    BY <1>4, <1>5
  <2> DEFINE r == CHOOSE r \in all : r.key = k
  <2>2. r \in all /\ r.key = k
    BY <2>1
  <2> HIDE DEF r
  <2>3. r = RecordOf(c, k)
    BY <1>4, <1>5, <2>2
  <2>. QED BY <1>4, <2>3 DEF r
<1>. QED BY <1>3, <1>7, <1>8

-----------------------------------------------------------------------------
(* The stores are prefixes of the stream *)

StreamRoots == {"minutes", "cells", "tags"}

LEMMA OfKeyIsNumbers ==
  \A r, k : \A x \in Versions : OfKey(r, k)[x] \in Nat /\ OfKey(r, k)[x] \in Int
BY OnesAreNumbers DEF OfKey

-----------------------------------------------------------------------------
(* The far moves *)

FarVersions == {v \in Versions : v.kind = "node" /\ v.action = "modify" /\ v.move > FarMeters}

LEMMA FarMovesAre ==
  ASSUME NEW vs \in Seq(Versions)
  PROVE  /\ FarMoves(vs) \in Seq(Versions)
         /\ \A g : (\A x \in Versions : g[x] \in Int) =>
              Weigh(FarMoves(vs), g) = Weigh(vs, Within(Versions, FarVersions, g))
<1> DEFINE I == {i \in DOMAIN vs : vs[i].kind = "node" /\ vs[i].action = "modify" /\ vs[i].move > FarMeters}
<1>1. FarMoves(vs) = At(vs, I) BY DEF FarMoves
<1>2. \A i \in DOMAIN vs : vs[i] \in Versions OBVIOUS
<1>3. \A i \in DOMAIN vs : i \in I <=> vs[i] \in FarVersions BY <1>2 DEF FarVersions
<1> HIDE DEF I
<1>4. At(vs, I) \in Seq(Versions) BY AtType
<1>5. ASSUME NEW g, \A x \in Versions : g[x] \in Int
      PROVE  Weigh(At(vs, I), g) = Weigh(vs, Within(Versions, FarVersions, g))
  BY <1>3, <1>5, WeighAt
<1> QED BY <1>1, <1>4, <1>5

Alike(X, s, l) == \A v \in X : (\E i \in DOMAIN s : s[i] = v) <=> (\E i \in DOMAIN l : l[i] = v)

\* Sequences that weigh the same by every weight have the same elements.
LEMMA SameElements ==
  ASSUME NEW X, NEW s \in Seq(X), NEW l \in Seq(X), \A v \in X : Weigh(s, Ones(X, {v})) = Weigh(l, Ones(X, {v}))
  PROVE  Alike(X, s, l)
<1> SUFFICES ASSUME NEW v \in X PROVE (\E i \in DOMAIN s : s[i] = v) <=> (\E i \in DOMAIN l : l[i] = v)
  BY DEF Alike
<1>1. Weigh(s, Ones(X, {v})) = 0 <=> \A i \in DOMAIN s : s[i] \notin {v} BY NumberZero
<1>2. Weigh(l, Ones(X, {v})) = 0 <=> \A i \in DOMAIN l : l[i] \notin {v} BY NumberZero
<1>3. Weigh(s, Ones(X, {v})) = Weigh(l, Ones(X, {v})) OBVIOUS
<1> QED BY <1>1, <1>2, <1>3

LEMMA LengthIs ==
  ASSUME NEW X, NEW s \in Seq(X) PROVE Len(s) = Weigh(s, Ones(X, X))
<1>1. Cardinality({i \in DOMAIN s : s[i] \in X}) = Weigh(s, Ones(X, X)) BY NumberIs
<1>2. {i \in DOMAIN s : s[i] \in X} = 1..Len(s) OBVIOUS
<1>3. Len(s) \in Nat /\ Cardinality(1..Len(s)) = Len(s)
  <2>1. Len(s) \in Nat OBVIOUS
  <2>2. \A n \in Nat : Cardinality(1..n) = n BY FS_Interval
  <2> QED BY <2>1, <2>2
<1> QED BY <1>1, <1>2, <1>3

-----------------------------------------------------------------------------
(* The moves of a run *)

\* The greatest of finitely many numbers.
LEMMA MaxIs ==
  ASSUME NEW S, IsFiniteSet(S), S \subseteq Int, S # {}
  PROVE  Max(S) \in S /\ \A y \in S : y <= Max(S)
<1>1. PICK x \in S : \A y \in S : y <= x BY GreatestExists
<1>2. \A y \in S : x >= y BY <1>1
<1>3. Max(S) \in S /\ \A y \in S : Max(S) >= y BY <1>2 DEF Max
<1> QED BY <1>3

-----------------------------------------------------------------------------
(* Series of rows *)

\* The rows of a store whose keys have m numbers.
HourRows(m) == [key : Keys(m), count : Nat \ {0}]

LEMMA RowTypes ==
  ASSUME NEW m \in {2, 3}, NEW r \in HourRows(m)
  PROVE  /\ r.key \in Keys(m) /\ r.key \in Seq(Int) /\ Len(r.key) = m
         /\ MinuteOf(r) \in Int /\ r.key[1] \in Int /\ (m = 3 => r.key[3] \in Int)
         /\ r.count \in Nat \ {0} /\ r.count \in Int
<1>1. r.key \in Keys(m) /\ r.count \in Nat \ {0} BY DEF HourRows
<1>2. r.key \in Seq(Int) /\ Len(r.key) = m BY <1>1 DEF Keys
<1>3. \A i \in 1..m : r.key[i] \in Int BY <1>2
<1>4. r.key[1] \in Int /\ r.key[2] \in Int /\ (m = 3 => r.key[3] \in Int) BY <1>3
<1> QED BY <1>1, <1>2, <1>4 DEF MinuteOf

\* Pairs in R, the earlier first.
Sorted(s, R) == \A i, j \in DOMAIN s : i < j => <<s[i], s[j]>> \in R

\* A part of a sorted sequence is sorted.
LEMMA AtSorted ==
  ASSUME NEW X, NEW s \in Seq(X), NEW R, Sorted(s, R), NEW I PROVE Sorted(At(s, I), R)
<1> DEFINE F == {r \in Seq(X) : Sorted(r, R) => Sorted(At(r, I), R)}
<1>1. <<>> \in F
  <2>1. <<>> \in Seq(X) /\ Sorted(<<>>, R) BY DEF Sorted
  <2> QED BY <2>1, AtEmpty
<1>2. ASSUME NEW r \in F, NEW e \in X PROVE Append(r, e) \in F
  <2> DEFINE a == At(r, I)
             q == Append(r, e)
  <2>1. /\ r \in Seq(X) /\ Len(r) \in Nat /\ DOMAIN r = 1..Len(r) /\ DOMAIN q = 1..(Len(r) + 1)
        /\ q[Len(r) + 1] = e /\ (\A i \in 1..Len(r) : q[i] = r[i]) /\ q \in Seq(X)
    OBVIOUS
  <2> SUFFICES ASSUME Sorted(q, R) PROVE Sorted(At(q, I), R) BY <2>1
  <2>2. Sorted(r, R) /\ \A i \in DOMAIN r : <<r[i], e>> \in R
    <3> HIDE DEF q
    <3>1. \A i \in 1..Len(r) : i \in 1..(Len(r) + 1) /\ i < Len(r) + 1 BY <2>1
    <3> QED BY <2>1, <3>1 DEF Sorted
  <2>3. Sorted(a, R) BY <2>2
  <2>4. a \in Seq(X) BY <2>1, AtType
  <2>5. /\ Len(a) \in Nat /\ DOMAIN a = 1..Len(a)
        /\ DOMAIN Append(a, e) = 1..(Len(a) + 1)
        /\ Append(a, e)[Len(a) + 1] = e /\ \A j \in 1..Len(a) : Append(a, e)[j] = a[j]
    BY <2>4
  <2>6. At(q, I) = (IF Len(r) + 1 \in I THEN Append(a, e) ELSE a) BY <2>1, AtAppend
  <2>7. \A j \in DOMAIN a : <<a[j], e>> \in R
    <3>1. Takes(a, r, I) BY <2>1, AtHas
    <3> HIDE DEF a
    <3> QED BY <2>2, <3>1 DEF Takes
  <2> HIDE DEF a, q
  <2>8. Sorted(Append(a, e), R)
    <3> DEFINE b == Append(a, e)
    <3>0. DOMAIN b = 1..(Len(a) + 1) BY <2>5
    <3> SUFFICES ASSUME NEW i \in 1..(Len(a) + 1), NEW j \in 1..(Len(a) + 1), i < j
                 PROVE  <<b[i], b[j]>> \in R
      BY <3>0 DEF Sorted
    <3>1. i \in 1..Len(a) /\ b[i] = a[i] /\ i \in DOMAIN a BY <2>5
    <3>2. CASE j = Len(a) + 1
      <4>1. b[j] = e BY <2>5, <3>2
      <4>2. <<a[i], e>> \in R BY <2>7, <3>1
      <4> QED BY <3>1, <4>1, <4>2
    <3>3. CASE j \in 1..Len(a)
      <4>1. b[j] = a[j] /\ j \in DOMAIN a BY <2>5, <3>3
      <4> HIDE DEF b
      <4>2. <<a[i], a[j]>> \in R BY <2>3, <3>1, <4>1 DEF Sorted
      <4> QED BY <3>1, <4>1, <4>2
    <3>4. j = Len(a) + 1 \/ j \in 1..Len(a) BY <2>5
    <3> HIDE DEF b
    <3> QED BY <3>2, <3>3, <3>4
  <2> QED BY <2>3, <2>6, <2>8
<1>3. Seq(X) \subseteq F
  <2> HIDE DEF F
  <2> QED BY <1>1, <1>2, SequencesBySteps
<1>4. s \in F BY <1>3
<1> QED BY <1>4

\* One row a minute, in the order of the minutes.
InTime(s) == \A i, j \in DOMAIN s : i < j => MinuteOf(s[i]) < MinuteOf(s[j])

\* A uid's part of the records of a store.
LEMMA SeriesIs ==
  ASSUME NEW m \in {2, 3}, NEW store, Records(store) \in Seq(HourRows(m)), NEW u
  PROVE  /\ SeriesOf(store, u) \in Seq(HourRows(m))
         /\ (m = 2 /\ \A i, j \in DOMAIN Records(store) : i < j => Before(Records(store)[i].key, Records(store)[j].key))
              => InTime(SeriesOf(store, u))
<1> DEFINE records == Records(store)
           I == {i \in DOMAIN records : records[i].key[1] = u}
           series == SeriesOf(store, u)
<1>1. series = At(records, I) BY DEF SeriesOf
<1> HIDE DEF series
<1>2. series \in Seq(HourRows(m)) BY <1>1, AtType
<1>3. ASSUME m = 2, \A i, j \in DOMAIN records : i < j => Before(records[i].key, records[j].key)
      PROVE  InTime(series)
  <2> DEFINE R == {p \in HourRows(2) \X HourRows(2) : Before(p[1].key, p[2].key)}
  <2>1. Sorted(records, R)
    <3>1. \A i \in DOMAIN records : records[i] \in HourRows(2) BY <1>3
    <3> QED BY <1>3, <3>1 DEF Sorted
  <2>2. Sorted(series, R)
    <3> HIDE DEF R, I
    <3> QED BY <1>1, <2>1, AtSorted
  <2>3. \A j \in DOMAIN series : series[j].key[1] = u /\ series[j] \in HourRows(2)
    <3>1. Takes(series, records, I) BY <1>1, AtHas
    <3>2. \A i \in DOMAIN records \cap I : records[i].key[1] = u OBVIOUS
    <3>3. \A j \in DOMAIN series : \E i \in DOMAIN records \cap I : series[j] = records[i] BY <3>1 DEF Takes
    <3> QED BY <1>2, <1>3, <3>2, <3>3
  <2>4. ASSUME NEW i \in DOMAIN series, NEW j \in DOMAIN series, i < j
        PROVE  MinuteOf(series[i]) < MinuteOf(series[j])
    <3> DEFINE k == series[i].key
               l == series[j].key
    <3>1. Before(k, l) BY <2>2, <2>4 DEF Sorted
    <3>2. k[1] = l[1] /\ k \in Keys(2) /\ l \in Keys(2) BY <2>3, RowTypes
    <3>3. Len(k) = 2 /\ k[1] \in Int /\ k[2] \in Int /\ l[2] \in Int
      <4>1. /\ MinuteOf(series[i]) \in Int /\ k[1] \in Int /\ Len(k) = 2
            /\ MinuteOf(series[j]) \in Int
        BY <2>3, RowTypes
      <4> QED BY <4>1 DEF MinuteOf
    <3> HIDE DEF k, l
    <3>4. k[2] < l[2] BY <3>1, <3>2, <3>3 DEF Before
    <3> QED BY <3>4 DEF MinuteOf, k, l
  <2> QED BY <2>4 DEF InTime
<1> QED BY <1>2, <1>3 DEF series

-----------------------------------------------------------------------------
(* The trailing window of filter 2 *)

\* One row more for the window.
Spanning(was, s, i) ==
  [head |-> was.head + Cardinality({j \in was.head..i : Gone(s[j], MinuteOf(s[i]))}),
   window |-> was.window + s[i].count
                - SumFunction([j \in {l \in was.head..i : Gone(s[l], MinuteOf(s[i]))} |-> s[j].count])]

Spans(t, s) ==
  t = [i \in 0..Len(s) |-> IF i = 0 THEN [head |-> 1, window |-> 0] ELSE Spanning(t[i - 1], s, i)]

LEMMA HourSpansIsChosen ==
  ASSUME NEW s PROVE HourSpans(s) = [i \in DOMAIN s |-> (CHOOSE t : Spans(t, s))[i].window]
BY DEF HourSpans, Spans, Spanning

LEMMA SpansExists ==
  ASSUME NEW s, Len(s) \in Nat PROVE \E t : Spans(t, s)
<1> DEFINE none == [head |-> 1, window |-> 0]
           upTo(t, m) == /\ t = [n \in 0..m |-> t[n]]
                         /\ t[0] = none
                         /\ \A n \in 1..m : t[n] = Spanning(t[n - 1], s, n)
           Has == {m \in Nat : \E t : upTo(t, m)}
<1> HIDE DEF none
<1>1. 0 \in Has
  <2>1. upTo([n \in 0..0 |-> none], 0) OBVIOUS
  <2> QED BY <2>1
<1>2. ASSUME NEW m \in Nat, m \in Has PROVE m + 1 \in Has
  <2>1. PICK t : upTo(t, m) BY <1>2
  <2> DEFINE u == [n \in 0..(m + 1) |-> IF n <= m THEN t[n] ELSE Spanning(t[n - 1], s, n)]
  <2>2. upTo(u, m + 1) BY <2>1
  <2> HIDE DEF upTo, u
  <2> QED BY <2>2
<1>3. Nat \subseteq Has
  <2> HIDE DEF Has
  <2> QED BY <1>1, <1>2, NaturalsBySteps
<1>4. PICK t : upTo(t, Len(s)) BY <1>3
<1>5. \A n \in 0..Len(s) : t[n] = (IF n = 0 THEN none ELSE Spanning(t[n - 1], s, n))
  <2>1. t[0] = none /\ \A n \in 1..Len(s) : t[n] = Spanning(t[n - 1], s, n) BY <1>4
  <2>2. \A n \in 0..Len(s) : n = 0 \/ (n # 0 /\ n \in 1..Len(s)) OBVIOUS
  <2> QED BY <2>1, <2>2
<1>6. t = [n \in 0..Len(s) |-> t[n]] BY <1>4
<1>7. Spans(t, s) BY <1>5, <1>6 DEF Spans, none
<1> QED BY <1>7

LEMMA LaterGone ==
  ASSUME NEW a \in Int, NEW b \in Int, NEW m \in Int, a <= b, b + Span <= m PROVE a + Span <= m
BY SpansArePositive

\* A set of an interval's first numbers is counted by its size.
StartsAt(S, a, b) == S \subseteq a..b /\ \A j \in S : \A i \in a..j : i \in S

LEMMA FirstNumbers ==
  ASSUME NEW a \in Int, NEW b \in Int, NEW S, StartsAt(S, a, b)
  PROVE  /\ IsFiniteSet(S) /\ Cardinality(S) \in Nat
         /\ S = a..(a + Cardinality(S) - 1)
<1> USE DEF StartsAt
<1>1. IsFiniteSet(S) BY FS_Interval, FS_Subset
<1>2. Cardinality(S) \in Nat BY <1>1, FS_CardinalityType
<1>3. CASE S = {}
  <2>1. Cardinality(S) = 0 BY <1>3, FS_EmptySet
  <2> QED BY <1>1, <1>2, <1>3, <2>1
<1>4. CASE S # {}
  <2>1. S \subseteq Int OBVIOUS
  <2>2. PICK x \in S : \A y \in S : y <= x BY <1>1, <1>4, <2>1, GreatestExists
  <2>3. x \in Int /\ a <= x BY <2>2
  <2>4. S = a..x
    <3>1. \A y \in S : y \in a..x BY <2>1, <2>2
    <3>2. \A y \in a..x : y \in S BY <2>2
    <3> QED BY <3>1, <3>2
  <2>5. Cardinality(S) = x - a + 1 BY <2>3, <2>4, FS_Interval
  <2>6. a + Cardinality(S) - 1 = x BY <2>3, <2>5
  <2> QED BY <1>1, <1>2, <2>4, <2>6
<1> QED BY <1>3, <1>4

\* The window is the rows from the head on; before the head they are gone.
LEMMA SpansHold ==
  ASSUME NEW s \in Seq(HourRows(2)), InTime(s), NEW t, Spans(t, s),
         NEW c, c = [j \in DOMAIN s |-> s[j].count]
  PROVE  \A i \in 1..Len(s) :
           /\ t[i].head \in 1..i /\ t[i].window = SumFunctionOnSet(c, t[i].head..i)
           /\ \A j \in 1..i : j < t[i].head <=> Gone(s[j], MinuteOf(s[i]))
<1> DEFINE ok(i) == /\ t[i].head \in 1..(i + 1) /\ t[i].window = SumFunctionOnSet(c, t[i].head..i)
                    /\ i # 0 => \A j \in 1..i : j < t[i].head <=> Gone(s[j], MinuteOf(s[i]))
           Has == {i \in Nat : i <= Len(s) => ok(i)}
<1>0. Len(s) \in Nat /\ DOMAIN s = 1..Len(s) OBVIOUS
<1>1. \A j \in 1..Len(s) : MinuteOf(s[j]) \in Int /\ s[j].count \in Int
  <2>1. \A j \in 1..Len(s) : s[j] \in HourRows(2) BY <1>0
  <2> QED BY <2>1, RowTypes
<1>2. ASSUME NEW i \in 1..Len(s), NEW j \in 1..Len(s), i <= j PROVE MinuteOf(s[i]) <= MinuteOf(s[j])
  <2>1. i \in Int /\ j \in Int /\ MinuteOf(s[i]) \in Int /\ MinuteOf(s[j]) \in Int BY <1>0, <1>1
  <2>2. CASE i = j BY <2>1, <2>2
  <2>3. CASE i < j
    <3>1. MinuteOf(s[i]) < MinuteOf(s[j]) BY <1>0, <2>3 DEF InTime
    <3> QED BY <2>1, <3>1
  <2> QED BY <1>2, <2>1, <2>2, <2>3
<1>3. Span \in Nat \ {0} BY SpansArePositive
<1>4. \A j \in 1..Len(s) : c[j] \in Int /\ c[j] = s[j].count BY <1>0, <1>1
<1>5. t[0] = [head |-> 1, window |-> 0] /\ \A i \in 1..Len(s) : t[i] = Spanning(t[i - 1], s, i)
  <2>1. \A i \in 0..Len(s) : t[i] = (IF i = 0 THEN [head |-> 1, window |-> 0] ELSE Spanning(t[i - 1], s, i))
    BY DEF Spans
  <2>2. \A i \in 1..Len(s) : i # 0 /\ i \in 0..Len(s) BY <1>0
  <2>3. 0 \in 0..Len(s) BY <1>0
  <2>4. t[0] = [head |-> 1, window |-> 0] BY <2>1, <2>3
  <2>5. \A i \in 1..Len(s) : t[i] = Spanning(t[i - 1], s, i) BY <2>1, <2>2
  <2> QED BY <2>4, <2>5
<1>6. 0 \in Has
  <2>1. 1..0 = {} OBVIOUS
  <2>2. SumFunctionOnSet(c, 1..0) = 0 BY <2>1, SumEmpty
  <2>3. t[0].head = 1 /\ t[0].window = 0 BY <1>5
  <2> QED BY <2>2, <2>3
<1>7. ASSUME NEW n \in Nat, n \in Has PROVE n + 1 \in Has
  <2> SUFFICES ASSUME n + 1 <= Len(s) PROVE ok(n + 1) OBVIOUS
  <2> DEFINE i == n + 1
             h == t[n].head
             m == MinuteOf(s[i])
             gone == {j \in h..i : Gone(s[j], m)}
             head == h + Cardinality(gone)
             part == [j \in gone |-> s[j].count]
  <2>1. h \in 1..(n + 1) /\ t[n].window = SumFunctionOnSet(c, h..n)
        /\ (n # 0 => \A j \in 1..n : j < h <=> Gone(s[j], MinuteOf(s[n])))
    BY <1>0, <1>7
  <2>2. i \in 1..Len(s) /\ i - 1 = n /\ n \in Nat /\ n + 1 = i BY <1>0
  <2>3. t[i].head = head /\ t[i].window = t[n].window + s[i].count - SumFunction(part)
    <3>1. t[i] = Spanning(t[n], s, i) BY <1>5, <2>2
    <3> QED BY <3>1 DEF Spanning
  <2>4. \A j \in 1..Len(s) : Gone(s[j], m) <=> MinuteOf(s[j]) + Span <= m BY DEF Gone
  <2>5. m \in Int BY <1>1, <2>2
  <2>6. i \notin gone BY <1>3, <2>2, <2>4, <2>5
  <2> HIDE DEF m
  <2>7. \A j \in gone : \A l \in h..j : l \in gone
    <3> TAKE j \in gone
    <3> TAKE l \in h..j
    <3>1. j \in 1..Len(s) /\ l \in 1..Len(s) /\ l <= j /\ l \in h..i BY <1>0, <2>1, <2>2
    <3>2. MinuteOf(s[l]) <= MinuteOf(s[j]) BY <1>2, <3>1
    <3>3. MinuteOf(s[j]) + Span <= m BY <2>4, <3>1
    <3>4. MinuteOf(s[l]) \in Int /\ MinuteOf(s[j]) \in Int BY <1>1, <3>1
    <3>5. MinuteOf(s[l]) + Span <= m BY <1>3, <2>5, <3>2, <3>3, <3>4, LaterGone
    <3> QED BY <2>4, <3>1, <3>5
  <2>8. IsFiniteSet(gone) /\ Cardinality(gone) \in Nat /\ gone = h..(head - 1)
    <3>1. h \in Int /\ i \in Int BY <2>1, <2>2
    <3>2. gone \subseteq h..i OBVIOUS
    <3> HIDE DEF h, i, gone
    <3>3. StartsAt(gone, h, i) BY <2>7, <3>2 DEF StartsAt
    <3> QED BY <3>1, <3>3, FirstNumbers
  <2>9. \A j \in h..i : j \in gone <=> Gone(s[j], m) OBVIOUS
  <2>10. SumFunction(part) = SumFunctionOnSet(c, gone)
    <3>1. \A j \in gone : part[j] \in Int /\ part[j] = c[j]
      <4>1. \A j \in gone : j \in 1..Len(s) BY <1>0, <2>1, <2>2
      <4> QED BY <1>4, <4>1
    <3>2. DOMAIN part = gone OBVIOUS
    <3> HIDE DEF part, gone
    <3>4. IsFiniteSet(gone) BY <2>8
    <3> DEFINE d == c
    <3>5. \A j \in gone : part[j] \in Int /\ part[j] = d[j] BY <3>1
    <3> HIDE DEF d
    <3>6. SumFunctionOnSet(part, gone) = SumFunctionOnSet(d, gone) BY <3>4, <3>5, SumSame
    <3>3. SumFunctionOnSet(part, gone) = SumFunctionOnSet(c, gone) BY <3>6 DEF d
    <3> QED BY <3>2, <3>3 DEF SumFunction
  <2> HIDE DEF gone, head, h, i, part
  <2>11. head \in 1..i
    <3>1. head \in Nat /\ head >= 1 BY <2>1, <2>8 DEF head
    <3>2. head <= i
      <4>1. i \in h..i BY <2>1, <2>2
      <4> QED BY <2>1, <2>2, <2>6, <2>8, <3>1, <4>1
    <3> QED BY <2>2, <3>1, <3>2
  <2>12. \A j \in 1..i : j < head <=> Gone(s[j], m)
    <3> TAKE j \in 1..i
    <3>1. CASE j < h
      <4>1. h <= head BY <2>1, <2>8 DEF head
      <4>2. n # 0 /\ j \in 1..n BY <2>1, <2>2, <3>1
      <4>3. Gone(s[j], MinuteOf(s[n])) BY <2>1, <3>1, <4>2
      <4>4. n \in 1..Len(s) /\ j \in 1..Len(s) /\ n <= i BY <1>0, <2>2, <4>2
      <4>5. MinuteOf(s[n]) <= m BY <1>2, <2>2, <4>4 DEF m
      <4>6. MinuteOf(s[j]) + Span <= MinuteOf(s[n]) BY <4>3 DEF Gone
      <4>9. MinuteOf(s[j]) \in Int /\ MinuteOf(s[n]) \in Int BY <1>1, <4>4
      <4>7. MinuteOf(s[j]) + Span <= m
        <5>1. \A a, b \in Int : a + Span <= b /\ b <= m => a + Span <= m BY <1>3, <2>5
        <5> QED BY <4>5, <4>6, <4>9, <5>1
      <4>8. j < head BY <2>1, <2>11, <3>1, <4>1
      <4> QED BY <2>4, <4>4, <4>7, <4>8
    <3>2. CASE ~(j < h)
      <4>1. j \in h..i BY <2>1, <2>2, <3>2
      <4>2. j \in gone <=> j < head BY <2>1, <2>2, <2>8, <2>11, <4>1
      <4> QED BY <2>9, <4>1, <4>2
    <3> QED BY <3>1, <3>2
  <2>13. t[i].window = SumFunctionOnSet(c, head..i)
    <3>1. (h..n) \cup {i} = h..i /\ i \notin h..n /\ h..n \subseteq 1..Len(s) BY <1>0, <2>1, <2>2
    <3>2. IsFiniteSet(h..n) /\ IsFiniteSet(head..i)
      <4>1. h \in Int /\ n \in Int /\ head \in Int /\ i \in Int BY <2>1, <2>2, <2>11
      <4> QED BY <4>1, FS_Interval
    <3>3. c[i] \in Int /\ \A j \in h..n : c[j] \in Int BY <1>4, <2>2, <3>1
    <3>4. SumFunctionOnSet(c, (h..n) \cup {i}) = SumFunctionOnSet(c, h..n) + c[i]
      BY <3>1, <3>2, <3>3, SumAdd
    <3>5. SumFunctionOnSet(c, h..i) = SumFunctionOnSet(c, h..n) + c[i] BY <3>1, <3>4
    <3>6. gone \cap (head..i) = {} /\ gone \cup (head..i) = h..i
      <4>1. h \in Int /\ i \in Int /\ head \in Int /\ h <= head /\ head <= i
        BY <2>1, <2>2, <2>8, <2>11 DEF head
      <4>2. gone = h..(head - 1) BY <2>8
      <4> QED BY <4>1, <4>2
    <3>7. \A j \in gone \cup (head..i) : c[j] \in Int BY <1>0, <1>4, <2>1, <2>2, <3>6
    <3>8. SumFunctionOnSet(c, gone \cup (head..i)) = SumFunctionOnSet(c, gone) + SumFunctionOnSet(c, head..i)
      BY <2>8, <3>2, <3>6, <3>7, SumUnion
    <3>9. SumFunctionOnSet(c, h..i) = SumFunctionOnSet(c, gone) + SumFunctionOnSet(c, head..i)
      BY <3>6, <3>8
    <3>10. SumFunctionOnSet(c, gone) \in Int /\ SumFunctionOnSet(c, head..i) \in Int
      BY <2>8, <3>2, <3>7, SumInInt
    <3>11. SumFunctionOnSet(c, h..n) \in Int BY <3>2, <3>3, SumInInt
    <3>12. s[i].count = c[i] BY <1>4, <2>2
    <3> DEFINE x == SumFunctionOnSet(c, h..n)
               y == SumFunctionOnSet(c, gone)
               z == SumFunctionOnSet(c, head..i)
               e == c[i]
    <3>13. t[i].window = x + e - y BY <2>1, <2>3, <2>10, <3>12
    <3>14. x + e = y + z /\ x \in Int /\ y \in Int /\ z \in Int /\ e \in Int
      BY <3>3, <3>5, <3>9, <3>10, <3>11
    <3> HIDE DEF x, y, z, e
    <3>15. t[i].window = z BY <3>13, <3>14
    <3> QED BY <3>15 DEF z
  <2>14. t[i].head \in 1..(i + 1) BY <2>2, <2>3, <2>11
  <2>15. ok(i) BY <2>3, <2>12, <2>13, <2>14 DEF m
  <2> QED BY <2>15 DEF i
<1>8. Nat \subseteq Has
  <2> HIDE DEF Has
  <2> QED BY <1>6, <1>7, NaturalsBySteps
<1>9. ASSUME NEW i \in 1..Len(s)
      PROVE  /\ t[i].head \in 1..i /\ t[i].window = SumFunctionOnSet(c, t[i].head..i)
             /\ \A j \in 1..i : j < t[i].head <=> Gone(s[j], MinuteOf(s[i]))
  <2>1. i \in Nat /\ i <= Len(s) /\ i # 0 BY <1>0
  <2>2. i \in Has BY <1>8, <2>1
  <2>3. ok(i) BY <2>1, <2>2
  <2>4. ~Gone(s[i], MinuteOf(s[i])) BY <1>1, <1>3 DEF Gone
  <2>5. t[i].head \in 1..i BY <2>1, <2>3, <2>4
  <2> QED BY <2>1, <2>3, <2>5
<1> QED BY <1>9

\* The rows of the minute's hour.
HourOfRows(m, minute) == {r \in HourRows(m) : MinuteOf(r) > minute - Span /\ MinuteOf(r) <= minute}

LEMMA CountsAreNumbers ==
  ASSUME NEW m \in {2, 3} PROVE \A r \in HourRows(m) : Counts(HourRows(m))[r] \in Nat \ {0} /\ Counts(HourRows(m))[r] \in Int
BY RowTypes DEF Counts

-----------------------------------------------------------------------------
(* The sliding windows of filters 4 and 5 *)

\* The queue q holds what s has of T, by every weight.
Holds(q, s, X, T) ==
  /\ q \in Seq(X)
  /\ \A g : (\A x \in X : g[x] \in Int) => Weigh(q, g) = Weigh(s, Within(X, T, g))

LEMMA WithinInt ==
  ASSUME NEW X, NEW T, NEW g, \A x \in X : g[x] \in Int PROVE \A x \in X : Within(X, T, g)[x] \in Int
BY DEF Within

LEMMA HoldsNothing ==
  ASSUME NEW X, NEW s \in Seq(X) PROVE Holds(<<>>, s, X, {})
<1>1. ASSUME NEW g, \A x \in X : g[x] \in Int PROVE Weigh(<<>>, g) = Weigh(s, Within(X, {}, g))
  <2> DEFINE w == Within(X, {}, g)
  <2>1. \A x \in X : w[x] = 0 BY DEF Within
  <2> HIDE DEF w
  <2>2. \A x \in X : w[x] \in Nat BY <2>1
  <2>3. \A i \in DOMAIN s : w[s[i]] = 0 BY <2>1
  <2>4. Weigh(s, w) = 0 BY <2>2, <2>3, WeighZero
  <2> QED BY <2>4, WeighEmpty DEF w
<1> QED BY <1>1 DEF Holds

\* Rows N are added at the end, then all but the rows K leave.
Slides(X, T, N, K, U) ==
  \A x \in X : /\ x \in U <=> (x \in K /\ (x \in T \/ x \in N))
               /\ ~(x \in T /\ x \in N)

\* The positions I are those of T's elements.
Marks(I, s, T) == \A i \in DOMAIN s : i \in I <=> s[i] \in T

Joins(all, s, l) == all = s \o l

LEMMA WeighMarked ==
  ASSUME NEW X, NEW s \in Seq(X), NEW g, \A x \in X : g[x] \in Int, NEW I, NEW T, Marks(I, s, T)
  PROVE  Weigh(At(s, I), g) = Weigh(s, Within(X, T, g))
BY WeighAt DEF Marks

\* What stays is what was and what came, without what left.
Balance(X, q, now, kept, gone) ==
  \A g : (\A x \in X : g[x] \in Int) =>
    /\ Weigh(q, g) \in Int /\ Weigh(now, g) \in Int /\ Weigh(gone, g) \in Int
    /\ Weigh(kept, g) = Weigh(q, g) + Weigh(now, g) - Weigh(gone, g)

LEMMA HoldsSlid ==
  ASSUME NEW X, NEW s \in Seq(X), NEW q, NEW T, Holds(q, s, X, T), NEW N, NEW K, NEW U, Slides(X, T, N, K, U),
         NEW I, Marks(I, s, N), NEW all, Joins(all, q, At(s, I)),
         NEW J, Marks(J, all, K), NEW L, Marks(L, all, X \ K)
  PROVE  /\ Holds(At(all, J), s, X, U)
         /\ At(s, I) \in Seq(X) /\ all \in Seq(X) /\ At(all, L) \in Seq(X)
         /\ Balance(X, q, At(s, I), At(all, J), At(all, L))
<1> DEFINE now == At(s, I)
           kept == At(all, J)
           gone == At(all, L)
<1>1. now \in Seq(X) BY AtType
<1>2. q \in Seq(X) BY DEF Holds
<1> HIDE DEF now
<1>3. all = q \o now BY DEF now, Joins
<1>4. all \in Seq(X) BY <1>1, <1>2, <1>3
<1>5. kept \in Seq(X) BY <1>4, AtType
<1>6. gone \in Seq(X) BY <1>4, AtType
<1> HIDE DEF kept, gone
<1>7. ASSUME NEW g, \A x \in X : g[x] \in Int
      PROVE  /\ Weigh(q, g) = Weigh(s, Within(X, T, g)) /\ Weigh(now, g) = Weigh(s, Within(X, N, g))
             /\ Weigh(all, g) = Weigh(q, g) + Weigh(now, g)
             /\ Weigh(kept, g) = Weigh(all, Within(X, K, g))
             /\ Weigh(gone, g) = Weigh(all, Within(X, X \ K, g))
             /\ Weigh(q, g) \in Int /\ Weigh(now, g) \in Int /\ Weigh(gone, g) \in Int
  <2>1. Weigh(q, g) = Weigh(s, Within(X, T, g)) BY <1>7 DEF Holds
  <2>2. Weigh(At(s, I), g) = Weigh(s, Within(X, N, g)) BY <1>7, WeighMarked
  <2>3. Weigh(q \o now, g) = Weigh(q, g) + Weigh(now, g) BY <1>1, <1>2, <1>7, WeighConcat
  <2>4. Weigh(At(all, J), g) = Weigh(all, Within(X, K, g)) BY <1>4, <1>7, WeighMarked
  <2> DEFINE C == X \ K
  <2>5. Marks(L, all, C) OBVIOUS
  <2> HIDE DEF C
  <2>6. Weigh(At(all, L), g) = Weigh(all, Within(X, C, g)) BY <1>4, <1>7, <2>5, WeighMarked
  <2>7. Weigh(q, g) \in Int BY <1>2, <1>7, WeighInt
  <2>8. Weigh(now, g) \in Int BY <1>1, <1>7, WeighInt
  <2>9. Weigh(gone, g) \in Int BY <1>6, <1>7, WeighInt
  <2> QED BY <1>3, <2>1, <2>2, <2>3, <2>4, <2>6, <2>7, <2>8, <2>9 DEF now, kept, gone, C
<1>8. ASSUME NEW g, \A x \in X : g[x] \in Int PROVE Weigh(kept, g) = Weigh(s, Within(X, U, g))
  <2> DEFINE a == Within(X, K, g)
             b == Within(X, T, a)
             c == Within(X, N, a)
             d == Within(X, U, g)
  <2>1. \A x \in X : a[x] \in Int BY <1>8, WithinInt
  <2>2. Weigh(kept, g) = Weigh(all, a) BY <1>7, <1>8
  <2>3. \A x \in X : b[x] \in Int BY <2>1, WithinInt
  <2>4. \A x \in X : c[x] \in Int BY <2>1, WithinInt
  <2>5. \A x \in X : d[x] = b[x] + c[x] BY <1>8 DEF Within, Slides
  <2> HIDE DEF a, d
  <2>6. Weigh(all, a) = Weigh(s, b) + Weigh(s, c) BY <1>7, <2>1
  <2> HIDE DEF b, c
  <2>7. \A x \in X : b[x] \in Int /\ c[x] \in Int /\ d[x] = b[x] + c[x] BY <2>3, <2>4, <2>5
  <2>8. Weigh(s, d) = Weigh(s, b) + Weigh(s, c) BY <2>7, WeighPlus
  <2> QED BY <2>2, <2>6, <2>8 DEF d
<1>9. ASSUME NEW g, \A x \in X : g[x] \in Int
      PROVE  Weigh(kept, g) = Weigh(q, g) + Weigh(now, g) - Weigh(gone, g)
  <2> DEFINE a == Within(X, K, g)
             b == Within(X, X \ K, g)
  <2>1. Weigh(kept, g) = Weigh(all, a) /\ Weigh(gone, g) = Weigh(all, b) /\ Weigh(gone, g) \in Int
        /\ Weigh(all, g) = Weigh(q, g) + Weigh(now, g) /\ Weigh(q, g) \in Int /\ Weigh(now, g) \in Int
    BY <1>7, <1>9
  <2>2. \A x \in X : a[x] \in Int BY <1>9, WithinInt
  <2>3. \A x \in X : b[x] \in Int BY <1>9, WithinInt
  <2>4. \A x \in X : g[x] = a[x] + b[x] BY <1>9 DEF Within
  <2> HIDE DEF a, b
  <2>5. \A x \in X : a[x] \in Int /\ b[x] \in Int /\ g[x] = a[x] + b[x] BY <2>2, <2>3, <2>4
  <2>6. Weigh(all, g) = Weigh(all, a) + Weigh(all, b) BY <1>4, <2>5, WeighPlus
  <2>7. Weigh(all, a) \in Int /\ Weigh(all, b) \in Int
    <3>1. Weigh(all, a) \in Int BY <1>4, <2>2, WeighInt
    <3>2. Weigh(all, b) \in Int BY <1>4, <2>3, WeighInt
    <3> QED BY <3>1, <3>2
  <2> QED BY <2>1, <2>6, <2>7
<1>10. Holds(kept, s, X, U) BY <1>5, <1>8 DEF Holds
<1>11. Balance(X, q, now, kept, gone) BY <1>7, <1>9 DEF Balance
<1> QED BY <1>1, <1>4, <1>6, <1>10, <1>11 DEF now, kept, gone

NowOf(s, minute) == At(s, {i \in DOMAIN s : MinuteOf(s[i]) = minute})

KeptOf(s, minute) == At(s, {i \in DOMAIN s : ~Gone(s[i], minute)})

GoneOf(s, minute) == At(s, {i \in DOMAIN s : Gone(s[i], minute)})

ThirdOf(s, k) == CountsIn(At(s, {i \in DOMAIN s : s[i].key[3] = k}))

LeftOf(w, all, now, minute, k) == CountOf(w.counts, k) + ThirdOf(now, k) - ThirdOf(GoneOf(all, minute), k)

ThirdKeys(w, all) == DOMAIN w.counts \cup {all[i].key[3] : i \in DOMAIN all}

\* The counts after the minute.
CountsLeft(w, all, now, minute) ==
  [k \in {l \in ThirdKeys(w, all) : LeftOf(w, all, now, minute, l) > 0} |-> LeftOf(w, all, now, minute, k)]

LEMMA SlidIs ==
  ASSUME NEW w, NEW minute, NEW objects, NEW rows
  PROVE  Slid(w, minute, objects, rows) =
           [objects |-> KeptOf(w.objects \o NowOf(objects, minute), minute),
            total |-> w.total + CountsIn(NowOf(objects, minute))
                        - CountsIn(GoneOf(w.objects \o NowOf(objects, minute), minute)),
            rows |-> KeptOf(w.rows \o NowOf(rows, minute), minute),
            counts |-> CountsLeft(w, w.rows \o NowOf(rows, minute), NowOf(rows, minute), minute)]
BY DEF Slid, NowOf, KeptOf, GoneOf, ThirdOf, LeftOf, ThirdKeys, CountsLeft

\* The rows of X of the minute's hour.
HourIn(X, minute) == {r \in X : MinuteOf(r) > minute - Span /\ MinuteOf(r) <= minute}

OfThird(X, k) == Within(X, {r \in X : r.key[3] = k}, Counts(X))

LEMMA ThirdIs ==
  ASSUME NEW X \in SUBSET HourRows(3), NEW s \in Seq(X), NEW k
  PROVE  /\ ThirdOf(s, k) = Weigh(s, OfThird(X, k))
         /\ Weigh(s, OfThird(X, k)) \in Nat
         /\ Weigh(s, OfThird(X, k)) # 0 <=> \E i \in DOMAIN s : s[i].key[3] = k
<1> DEFINE I == {i \in DOMAIN s : s[i].key[3] = k}
           T == {r \in X : r.key[3] = k}
           g == Counts(X)
<1>1. \A r \in X : g[r] \in Nat \ {0} /\ g[r] \in Int /\ g[r] \in Nat
  <2>1. \A r \in X : r.count \in Nat \ {0}  BY DEF HourRows
  <2> QED BY <2>1 DEF Counts
<1>2. Marks(I, s, T)
  <2>1. \A i \in DOMAIN s : s[i] \in X OBVIOUS
  <2> QED BY <2>1 DEF Marks
<1>3. \A i \in DOMAIN s : s[i] \in T <=> s[i].key[3] = k
  <2>1. \A i \in DOMAIN s : s[i] \in X OBVIOUS
  <2> QED BY <2>1
<1>4. OfThird(X, k) = Within(X, T, g) BY DEF OfThird
<1>5. ThirdOf(s, k) = CountsIn(At(s, I)) BY DEF ThirdOf
<1> DEFINE w == Within(X, T, g)
<1> HIDE DEF I, T, g
<1>6. At(s, I) \in Seq(X) BY AtType
<1>7. CountsIn(At(s, I)) = Weigh(At(s, I), g) BY <1>6, CountsInIs DEF g
<1>8. Weigh(At(s, I), g) = Weigh(s, w) BY <1>1, <1>2, WeighMarked
<1>9. \A x \in X : w[x] \in Nat /\ (w[x] = 0 <=> x \notin T) BY <1>1 DEF Within
<1> HIDE DEF w
<1>10. Weigh(s, w) \in Nat BY <1>9, WeighNat
<1>11. Weigh(s, w) = 0 <=> \A i \in DOMAIN s : w[s[i]] = 0 BY <1>9, WeighZero
<1>12. \A i \in DOMAIN s : s[i] \in X OBVIOUS
<1>13. Weigh(s, w) # 0 <=> \E i \in DOMAIN s : s[i].key[3] = k BY <1>3, <1>9, <1>11, <1>12
<1> QED BY <1>4, <1>5, <1>7, <1>8, <1>10, <1>13 DEF w

\* The window that has, of the objects and the rows, those of TO and TR.
WindowHolds(w, objects, XO, TO, rows, XR, TR) ==
  /\ Holds(w.objects, objects, XO, TO) /\ Holds(w.rows, rows, XR, TR)
  /\ w.total = Weigh(w.objects, Counts(XO))
  /\ \A k : /\ k \in DOMAIN w.counts <=> Weigh(w.rows, OfThird(XR, k)) # 0
            /\ k \in DOMAIN w.counts => w.counts[k] = Weigh(w.rows, OfThird(XR, k))
            /\ CountOf(w.counts, k) = Weigh(w.rows, OfThird(XR, k))

\* From the rows T the window comes to those of the minute's hour.
Comes(X, T, minute) ==
  Slides(X, T, {r \in X : MinuteOf(r) = minute}, {r \in X : ~Gone(r, minute)}, HourIn(X, minute))

Among(t, s) == \A j \in DOMAIN t : \E i \in DOMAIN s : t[j] = s[i]

\* What a minute does to one of the queues.
LEMMA QueueSlides ==
  ASSUME NEW X, NEW s \in Seq(X), NEW q, NEW T, Holds(q, s, X, T), NEW minute, Comes(X, T, minute),
         NEW now, now = NowOf(s, minute), NEW all, all = q \o now
  PROVE  /\ Holds(KeptOf(all, minute), s, X, HourIn(X, minute))
         /\ now \in Seq(X) /\ all \in Seq(X) /\ GoneOf(all, minute) \in Seq(X) /\ KeptOf(all, minute) \in Seq(X)
         /\ Balance(X, q, now, KeptOf(all, minute), GoneOf(all, minute))
         /\ Among(KeptOf(all, minute), all)
<1> DEFINE I == {i \in DOMAIN s : MinuteOf(s[i]) = minute}
           J == {i \in DOMAIN all : ~Gone(all[i], minute)}
           L == {i \in DOMAIN all : Gone(all[i], minute)}
           N == {r \in X : MinuteOf(r) = minute}
           K == {r \in X : ~Gone(r, minute)}
           C == X \ K
           U == HourIn(X, minute)
<1>1. now = At(s, I) /\ KeptOf(all, minute) = At(all, J) /\ GoneOf(all, minute) = At(all, L)
  BY DEF NowOf, KeptOf, GoneOf
<1>2. now \in Seq(X) BY <1>1, AtType
<1>3. all \in Seq(X) BY <1>2 DEF Holds
<1>4. Marks(I, s, N)
  <2>1. \A i \in DOMAIN s : s[i] \in X OBVIOUS
  <2> QED BY <2>1 DEF Marks
<1>5. \A i \in DOMAIN all : all[i] \in X BY <1>3
<1>6. Marks(J, all, K) BY <1>5 DEF Marks
<1>7. Marks(L, all, C) BY <1>5 DEF Marks
<1>8. Slides(X, T, N, K, U) BY DEF Comes
<1>9. Joins(all, q, At(s, I)) BY <1>1 DEF Joins
<1> HIDE DEF I, J, L, N, K, U
<1>10. /\ Holds(At(all, J), s, X, U)
       /\ At(s, I) \in Seq(X) /\ all \in Seq(X) /\ At(all, L) \in Seq(X)
       /\ Balance(X, q, At(s, I), At(all, J), At(all, L))
  BY <1>4, <1>6, <1>7, <1>8, <1>9, HoldsSlid
<1>11. At(all, J) \in Seq(X) BY <1>10 DEF Holds
<1>12. Among(At(all, J), all)
  <2> DEFINE t == At(all, J)
  <2>1. Takes(t, all, J) BY <1>3, AtHas
  <2> HIDE DEF t
  <2>2. Among(t, all) BY <2>1 DEF Takes, Among
  <2> QED BY <2>2 DEF t
<1>13. Balance(X, q, now, KeptOf(all, minute), GoneOf(all, minute)) BY <1>1, <1>10
<1> QED BY <1>1, <1>2, <1>3, <1>10, <1>11, <1>12, <1>13 DEF U

LEMMA CountsInt ==
  ASSUME NEW m \in {2, 3}, NEW X \in SUBSET HourRows(m)
  PROVE  \A r \in X : Counts(X)[r] \in Int /\ Counts(X)[r] \in Nat /\ Counts(X)[r] # 0
<1>1. \A r \in X : r.count \in Nat \ {0} BY DEF HourRows
<1> QED BY <1>1 DEF Counts

LEMMA OfThirdInt ==
  ASSUME NEW X \in SUBSET HourRows(3), NEW k PROVE \A r \in X : OfThird(X, k)[r] \in Int
<1>1. \A r \in X : Counts(X)[r] \in Int BY CountsInt
<1> QED BY <1>1, WithinInt DEF OfThird

\* A window slides from one minute's hour to the next one's.
LEMMA SlidHolds ==
  ASSUME NEW XO \in SUBSET HourRows(2), NEW XR \in SUBSET HourRows(3),
         NEW objects \in Seq(XO), NEW rows \in Seq(XR), NEW w, NEW TO, NEW TR,
         WindowHolds(w, objects, XO, TO, rows, XR, TR),
         NEW minute, Comes(XO, TO, minute), Comes(XR, TR, minute)
  PROVE  WindowHolds(Slid(w, minute, objects, rows), objects, XO, HourIn(XO, minute), rows, XR, HourIn(XR, minute))
<1> DEFINE nowO == NowOf(objects, minute)
           nowR == NowOf(rows, minute)
           queue == w.objects \o nowO
           all == w.rows \o nowR
           keptO == KeptOf(queue, minute)
           goneO == GoneOf(queue, minute)
           keptR == KeptOf(all, minute)
           goneR == GoneOf(all, minute)
           next == Slid(w, minute, objects, rows)
           counts == CountsLeft(w, all, nowR, minute)
           left(k) == LeftOf(w, all, nowR, minute, k)
           co == Counts(XO)
<1>1. next = [objects |-> keptO, total |-> w.total + CountsIn(nowO) - CountsIn(goneO),
              rows |-> keptR, counts |-> counts]
  BY SlidIs
<1>2. /\ Holds(w.objects, objects, XO, TO) /\ Holds(w.rows, rows, XR, TR)
      /\ w.total = Weigh(w.objects, co)
      /\ \A k : /\ k \in DOMAIN w.counts <=> Weigh(w.rows, OfThird(XR, k)) # 0
                /\ k \in DOMAIN w.counts => w.counts[k] = Weigh(w.rows, OfThird(XR, k))
                /\ CountOf(w.counts, k) = Weigh(w.rows, OfThird(XR, k))
  BY DEF WindowHolds
<1>3. /\ Holds(keptO, objects, XO, HourIn(XO, minute))
      /\ nowO \in Seq(XO) /\ queue \in Seq(XO) /\ goneO \in Seq(XO)
      /\ Balance(XO, w.objects, nowO, keptO, goneO)
  <2> DEFINE q == w.objects
  <2>1. Holds(q, objects, XO, TO) BY <1>2
  <2> HIDE DEF nowO, q
  <2>2. nowO = NowOf(objects, minute) /\ queue = q \o nowO BY DEF nowO, q
  <2> HIDE DEF queue
  <2>3. /\ Holds(KeptOf(queue, minute), objects, XO, HourIn(XO, minute))
        /\ nowO \in Seq(XO) /\ queue \in Seq(XO) /\ GoneOf(queue, minute) \in Seq(XO)
        /\ Balance(XO, q, nowO, KeptOf(queue, minute), GoneOf(queue, minute))
    BY <2>1, <2>2, QueueSlides
  <2> QED BY <2>3 DEF q
<1>4. /\ Holds(keptR, rows, XR, HourIn(XR, minute))
      /\ nowR \in Seq(XR) /\ all \in Seq(XR) /\ goneR \in Seq(XR) /\ keptR \in Seq(XR)
      /\ Balance(XR, w.rows, nowR, keptR, goneR)
      /\ Among(keptR, all)
  <2> DEFINE q == w.rows
  <2>1. Holds(q, rows, XR, TR) BY <1>2
  <2> HIDE DEF nowR, q
  <2>2. nowR = NowOf(rows, minute) /\ all = q \o nowR BY DEF nowR, q
  <2> HIDE DEF all
  <2>3. /\ Holds(KeptOf(all, minute), rows, XR, HourIn(XR, minute))
        /\ nowR \in Seq(XR) /\ all \in Seq(XR) /\ GoneOf(all, minute) \in Seq(XR) /\ KeptOf(all, minute) \in Seq(XR)
        /\ Balance(XR, q, nowR, KeptOf(all, minute), GoneOf(all, minute))
        /\ Among(KeptOf(all, minute), all)
    BY <2>1, <2>2, QueueSlides
  <2> QED BY <2>3 DEF q
<1>5. w.total + CountsIn(nowO) - CountsIn(goneO) = Weigh(keptO, co)
  <2>1. CountsIn(nowO) = Weigh(nowO, co) BY <1>3, CountsInIs
  <2>2. CountsIn(goneO) = Weigh(goneO, co) BY <1>3, CountsInIs
  <2>3. \A x \in XO : co[x] \in Int BY CountsInt
  <2> DEFINE q == w.objects
  <2> HIDE DEF nowO, goneO, keptO, co, q
  <2>4. /\ Weigh(q, co) \in Int /\ Weigh(nowO, co) \in Int /\ Weigh(goneO, co) \in Int
        /\ Weigh(keptO, co) = Weigh(q, co) + Weigh(nowO, co) - Weigh(goneO, co)
    BY <1>3, <2>3 DEF Balance, q
  <2>5. w.total = Weigh(q, co) BY <1>2 DEF q
  <2> QED BY <2>1, <2>2, <2>4, <2>5
<1>6. \A k : left(k) = Weigh(keptR, OfThird(XR, k)) /\ Weigh(keptR, OfThird(XR, k)) \in Nat
  <2> TAKE k
  <2> DEFINE g == OfThird(XR, k)
             q == w.rows
  <2>9. nowR \in Seq(XR) /\ goneR \in Seq(XR) /\ keptR \in Seq(XR) BY <1>4
  <2>1. ThirdOf(nowR, k) = Weigh(nowR, g)
    <3> HIDE DEF nowR
    <3> QED BY <2>9, ThirdIs
  <2>2. ThirdOf(goneR, k) = Weigh(goneR, g)
    <3> HIDE DEF goneR
    <3> QED BY <2>9, ThirdIs
  <2>3. Weigh(keptR, g) \in Nat
    <3> HIDE DEF keptR
    <3> QED BY <2>9, ThirdIs
  <2>4. \A x \in XR : g[x] \in Int BY OfThirdInt
  <2>5. CountOf(w.counts, k) = Weigh(q, g) BY <1>2
  <2>6. left(k) = CountOf(w.counts, k) + ThirdOf(nowR, k) - ThirdOf(goneR, k) BY DEF LeftOf
  <2> HIDE DEF nowR, goneR, keptR, g, q, left
  <2>7. /\ Weigh(q, g) \in Int /\ Weigh(nowR, g) \in Int /\ Weigh(goneR, g) \in Int
        /\ Weigh(keptR, g) = Weigh(q, g) + Weigh(nowR, g) - Weigh(goneR, g)
    BY <1>4, <2>4 DEF Balance, q
  <2>8. left(k) = Weigh(keptR, g) BY <2>1, <2>2, <2>5, <2>6, <2>7
  <2> QED BY <2>3, <2>8 DEF g
<1>7. \A k : Weigh(keptR, OfThird(XR, k)) # 0 => k \in ThirdKeys(w, all)
  <2> TAKE k
  <2>4. keptR \in Seq(XR) BY <1>4
  <2> HIDE DEF keptR, all
  <2>1. Weigh(keptR, OfThird(XR, k)) # 0 <=> \E i \in DOMAIN keptR : keptR[i].key[3] = k BY <2>4, ThirdIs
  <2>2. (\E i \in DOMAIN all : all[i].key[3] = k) => k \in ThirdKeys(w, all) BY DEF ThirdKeys
  <2>3. (\E i \in DOMAIN keptR : keptR[i].key[3] = k) => \E i \in DOMAIN all : all[i].key[3] = k BY <1>4 DEF Among
  <2> QED BY <2>1, <2>2, <2>3
<1>8. counts = [k \in {l \in ThirdKeys(w, all) : left(l) > 0} |-> left(k)] BY DEF CountsLeft
<1> HIDE DEF left, keptR, all, nowR, goneR, counts, keptO, goneO, nowO, queue, co, next
<1>9. \A k : k \in DOMAIN counts <=> Weigh(keptR, OfThird(XR, k)) # 0
  <2> TAKE k
  <2>1. k \in DOMAIN counts <=> k \in ThirdKeys(w, all) /\ left(k) > 0 BY <1>8
  <2>2. left(k) > 0 <=> Weigh(keptR, OfThird(XR, k)) # 0 BY <1>6
  <2> QED BY <2>1, <2>2, <1>7
<1>10. \A k : k \in DOMAIN counts => counts[k] = Weigh(keptR, OfThird(XR, k)) BY <1>6, <1>8
<1>11. \A k : CountOf(counts, k) = Weigh(keptR, OfThird(XR, k)) BY <1>9, <1>10 DEF CountOf
<1>12. next.objects = keptO /\ next.total = w.total + CountsIn(nowO) - CountsIn(goneO)
       /\ next.rows = keptR /\ next.counts = counts
  BY <1>1
<1>13. WindowHolds(next, objects, XO, HourIn(XO, minute), rows, XR, HourIn(XR, minute))
  BY <1>3, <1>4, <1>5, <1>9, <1>10, <1>11, <1>12 DEF WindowHolds, co
<1> QED BY <1>13 DEF next

LEMMA WindowHoldsNothing ==
  ASSUME NEW XO \in SUBSET HourRows(2), NEW XR \in SUBSET HourRows(3), NEW objects \in Seq(XO), NEW rows \in Seq(XR)
  PROVE  WindowHolds(EmptyWindow, objects, XO, {}, rows, XR, {})
<1> DEFINE e == EmptyWindow
<1>1. e.objects = <<>> /\ e.total = 0 /\ e.rows = <<>> /\ e.counts = NoRows BY DEF EmptyWindow
<1>2. DOMAIN NoRows = {} BY DEF NoRows
<1> HIDE DEF e
<1>3. Holds(e.objects, objects, XO, {}) /\ Holds(e.rows, rows, XR, {}) BY <1>1, HoldsNothing
<1>4. e.total = Weigh(e.objects, Counts(XO)) BY <1>1, WeighEmpty
<1>5. \A k : Weigh(e.rows, OfThird(XR, k)) = 0 /\ k \notin DOMAIN e.counts /\ CountOf(e.counts, k) = 0
  BY <1>1, <1>2, WeighEmpty DEF CountOf
<1>6. WindowHolds(e, objects, XO, {}, rows, XR, {}) BY <1>3, <1>4, <1>5 DEF WindowHolds
<1> QED BY <1>6 DEF e

\* What the windows slide through.
Sliding(t, order, objects, rows) ==
  t = [i \in 0..Len(order) |-> IF i = 0 THEN EmptyWindow ELSE Slid(t[i - 1], order[i], objects, rows)]

MinutesOf(objects, rows) ==
  {MinuteOf(objects[i]) : i \in DOMAIN objects} \cup {MinuteOf(rows[i]) : i \in DOMAIN rows}

WindowAt(order, t, i) == [minute |-> order[i], total |-> t[i].total, counts |-> t[i].counts]

LEMMA WindowsIsChosen ==
  ASSUME NEW objects, NEW rows, NEW order, order = Ranked(MinutesOf(objects, rows))
  PROVE  Windows(objects, rows) =
           [i \in DOMAIN order |-> WindowAt(order, CHOOSE t : Sliding(t, order, objects, rows), i)]
BY DEF Windows, InOrder, Ranked, MinutesOf, Sliding, WindowAt

LEMMA SlidingExists ==
  ASSUME NEW order, NEW objects, NEW rows, Len(order) \in Nat PROVE \E t : Sliding(t, order, objects, rows)
<1> DEFINE none == EmptyWindow
           next(w, n) == Slid(w, order[n], objects, rows)
           upTo(t, m) == /\ t = [n \in 0..m |-> t[n]]
                         /\ t[0] = none
                         /\ \A n \in 1..m : t[n] = next(t[n - 1], n)
           Has == {m \in Nat : \E t : upTo(t, m)}
<1> HIDE DEF none, next
<1>1. 0 \in Has
  <2>1. upTo([n \in 0..0 |-> none], 0) OBVIOUS
  <2> QED BY <2>1
<1>2. ASSUME NEW m \in Nat, m \in Has PROVE m + 1 \in Has
  <2>1. PICK t : upTo(t, m) BY <1>2
  <2> DEFINE u == [n \in 0..(m + 1) |-> IF n <= m THEN t[n] ELSE next(t[n - 1], n)]
  <2>2. upTo(u, m + 1) BY <2>1
  <2> HIDE DEF upTo, u
  <2> QED BY <2>2
<1>3. Nat \subseteq Has
  <2> HIDE DEF Has
  <2> QED BY <1>1, <1>2, NaturalsBySteps
<1>4. PICK t : upTo(t, Len(order)) BY <1>3
<1>5. \A n \in 0..Len(order) : t[n] = (IF n = 0 THEN none ELSE next(t[n - 1], n))
  <2>1. t[0] = none /\ \A n \in 1..Len(order) : t[n] = next(t[n - 1], n) BY <1>4
  <2>2. \A n \in 0..Len(order) : n = 0 \/ (n # 0 /\ n \in 1..Len(order)) OBVIOUS
  <2> QED BY <2>1, <2>2
<1>6. t = [n \in 0..Len(order) |-> t[n]] BY <1>4
<1>7. Sliding(t, order, objects, rows) BY <1>5, <1>6 DEF Sliding, none, next
<1> QED BY <1>7

\* The rows at the minutes M.
RowsAt(m, M) == {r \in HourRows(m) : MinuteOf(r) \in M}

NoneBetween(M, a, b) == \A x \in M : x < b => x <= a

LEMMA ComesFirst ==
  ASSUME NEW m \in {2, 3}, NEW M \in SUBSET Int, NEW b \in M, \A x \in M : x >= b
  PROVE  Comes(RowsAt(m, M), {}, b)
<1> DEFINE X == RowsAt(m, M)
<1> SUFFICES ASSUME NEW r \in X
             PROVE  r \in HourIn(X, b) <=> (~Gone(r, b) /\ MinuteOf(r) = b)
  BY DEF Comes, Slides
<1>1. MinuteOf(r) \in Int /\ MinuteOf(r) >= b BY DEF RowsAt
<1>2. r \in HourIn(X, b) <=> MinuteOf(r) > b - Span /\ MinuteOf(r) <= b BY DEF HourIn
<1> DEFINE a == MinuteOf(r)
<1>3. Gone(r, b) <=> a + Span <= b BY DEF Gone
<1> HIDE DEF a, X
<1> QED BY <1>1, <1>2, <1>3, SpansArePositive DEF a

LEMMA ComesNext ==
  ASSUME NEW m \in {2, 3}, NEW M \in SUBSET Int, NEW p \in M, NEW b \in M, p < b, NoneBetween(M, p, b)
  PROVE  Comes(RowsAt(m, M), HourIn(RowsAt(m, M), p), b)
<1> DEFINE X == RowsAt(m, M)
<1> SUFFICES ASSUME NEW r \in X
             PROVE  /\ r \in HourIn(X, b) <=> (~Gone(r, b) /\ (r \in HourIn(X, p) \/ MinuteOf(r) = b))
                    /\ ~(r \in HourIn(X, p) /\ MinuteOf(r) = b)
  BY DEF Comes, Slides
<1> DEFINE a == MinuteOf(r)
<1>1. a \in Int /\ a \in M BY DEF RowsAt
<1>2. r \in HourIn(X, b) <=> a > b - Span /\ a <= b BY DEF HourIn
<1>3. r \in HourIn(X, p) <=> a > p - Span /\ a <= p BY DEF HourIn
<1>4. Gone(r, b) <=> a + Span <= b BY DEF Gone
<1>5. a < b => a <= p BY <1>1 DEF NoneBetween
<1> HIDE DEF a, X
<1>6. p \in Int /\ b \in Int OBVIOUS
<1> QED BY <1>1, <1>2, <1>3, <1>4, <1>5, <1>6, SpansArePositive DEF a

\* The minutes of two series are numbers, and finitely many.
LEMMA MinutesAre ==
  ASSUME NEW objects \in Seq(HourRows(2)), NEW rows \in Seq(HourRows(3)), NEW M, M = MinutesOf(objects, rows)
  PROVE  /\ IsFiniteSet(M) /\ M \in SUBSET Int
         /\ objects \in Seq(RowsAt(2, M)) /\ rows \in Seq(RowsAt(3, M))
<1> DEFINE f == [i \in DOMAIN objects |-> MinuteOf(objects[i])]
           h == [i \in DOMAIN rows |-> MinuteOf(rows[i])]
           F == {f[i] : i \in DOMAIN objects}
           H == {h[i] : i \in DOMAIN rows}
<1>1. Len(objects) \in Nat /\ DOMAIN objects = 1..Len(objects) /\ Len(rows) \in Nat /\ DOMAIN rows = 1..Len(rows)
  OBVIOUS
<1>2. IsFiniteSet(DOMAIN objects) /\ IsFiniteSet(DOMAIN rows) BY <1>1, FS_Interval
<1>3. M = F \cup H BY DEF MinutesOf
<1>4. \A i \in DOMAIN objects : objects[i] \in HourRows(2) /\ MinuteOf(objects[i]) \in Int BY RowTypes
<1>5. \A i \in DOMAIN rows : rows[i] \in HourRows(3) /\ MinuteOf(rows[i]) \in Int BY RowTypes
<1>6. \A i \in DOMAIN objects : MinuteOf(objects[i]) \in M BY <1>3
<1>7. \A i \in DOMAIN rows : MinuteOf(rows[i]) \in M BY <1>3
<1>8. F \subseteq Int /\ H \subseteq Int BY <1>4, <1>5
<1>9. IsFiniteSet(F) /\ IsFiniteSet(H)
  <2> HIDE DEF f, h
  <2> QED BY <1>2, ImageIsFinite
<1> HIDE DEF F, H
<1>10. IsFiniteSet(M) BY <1>3, <1>9, FS_Union
<1>11. objects \in Seq(RowsAt(2, M))
  <2> DEFINE X == RowsAt(2, M)
  <2>1. \A i \in DOMAIN objects : objects[i] \in X BY <1>4, <1>6 DEF RowsAt
  <2>2. objects = [i \in 1..Len(objects) |-> objects[i]] OBVIOUS
  <2> HIDE DEF X
  <2>3. objects \in [1..Len(objects) -> X] BY <1>1, <2>1, <2>2
  <2>4. objects \in Seq(X) BY <1>1, <2>3
  <2> QED BY <2>4 DEF X
<1>12. rows \in Seq(RowsAt(3, M))
  <2> DEFINE X == RowsAt(3, M)
  <2>1. \A i \in DOMAIN rows : rows[i] \in X BY <1>5, <1>7 DEF RowsAt
  <2>2. rows = [i \in 1..Len(rows) |-> rows[i]] OBVIOUS
  <2> HIDE DEF X
  <2>3. rows \in [1..Len(rows) -> X] BY <1>1, <2>1, <2>2
  <2>4. rows \in Seq(X) BY <1>1, <2>3
  <2> QED BY <2>4 DEF X
<1> QED BY <1>3, <1>8, <1>10, <1>11, <1>12

\* Each minute's window holds the rows of its hour.
LEMMA WindowsHold ==
  ASSUME NEW objects \in Seq(HourRows(2)), NEW rows \in Seq(HourRows(3)),
         NEW M, M = MinutesOf(objects, rows), NEW order, order = Ranked(M),
         NEW t, Sliding(t, order, objects, rows),
         NEW XO, XO = RowsAt(2, M), NEW XR, XR = RowsAt(3, M)
  PROVE  \A i \in DOMAIN order :
           /\ order[i] \in M
           /\ WindowHolds(t[i], objects, XO, HourIn(XO, order[i]), rows, XR, HourIn(XR, order[i]))
<1> DEFINE n == Cardinality(M)
<1>1. IsFiniteSet(M) /\ M \in SUBSET Int /\ objects \in Seq(XO) /\ rows \in Seq(XR) BY MinutesAre
<1>2. Ascends(order, M) BY <1>1, NumbersInOrder
<1>3. /\ n \in Nat /\ DOMAIN order = 1..n /\ Len(order) = n /\ \A i \in 1..n : order[i] \in M
      /\ \A i, j \in 1..n : i < j => order[i] < order[j]
      /\ \A x \in M : \E i \in 1..n : order[i] = x
  <2>1. order \in [1..n -> M] /\ n \in Nat BY <1>2 DEF Ascends
  <2>2. order \in Seq(M) /\ Len(order) = n
    <3> HIDE DEF n
    <3> QED BY <2>1
  <2> QED BY <1>2, <2>1, <2>2 DEF Ascends
<1> HIDE DEF n
<1>4. t[0] = EmptyWindow /\ \A i \in 1..n : t[i] = Slid(t[i - 1], order[i], objects, rows)
  <2> HIDE DEF EmptyWindow
  <2>1. \A i \in 0..n : t[i] = (IF i = 0 THEN EmptyWindow ELSE Slid(t[i - 1], order[i], objects, rows))
    BY <1>3 DEF Sliding
  <2> QED BY <1>3, <2>1
<1>5. XO \in SUBSET HourRows(2) /\ XR \in SUBSET HourRows(3) BY DEF RowsAt
<1> DEFINE holds(i) == WindowHolds(t[i], objects, XO, HourIn(XO, order[i]), rows, XR, HourIn(XR, order[i]))
           Has == {i \in Nat : i \in 1..n => holds(i)}
<1>6. ASSUME NEW i \in Nat, i \in Has PROVE i + 1 \in Has
  <2> SUFFICES ASSUME i + 1 \in 1..n PROVE holds(i + 1) OBVIOUS
  <2> DEFINE b == order[i + 1]
             w == t[i]
  <2>1. b \in M /\ t[i + 1] = Slid(w, b, objects, rows)
    <3>1. (i + 1) - 1 = i OBVIOUS
    <3> QED BY <1>3, <1>4, <3>1
  <2>2. \A x \in M : x < b => \E j \in 1..n : order[j] = x /\ j <= i
    <3> TAKE x \in M
    <3>1. PICK j \in 1..n : order[j] = x BY <1>3
    <3>2. j = i + 1 \/ j <= i \/ i + 1 < j OBVIOUS
    <3>3. i + 1 < j => b < x BY <1>3, <3>1
    <3>4. x \in Int /\ b \in Int BY <1>1, <2>1
    <3> QED BY <3>1, <3>2, <3>3, <3>4
  <2>3. CASE i = 0
    <3>1. \A x \in M : x >= b
      <4> TAKE x \in M
      <4>1. x \in Int /\ b \in Int BY <1>1, <2>1
      <4> QED BY <2>2, <2>3, <4>1
    <3>2. Comes(XO, {}, b) /\ Comes(XR, {}, b) BY <1>1, <2>1, <3>1, ComesFirst
    <3>3. w = EmptyWindow BY <1>4, <2>3
    <3> HIDE DEF w, b
    <3>4. WindowHolds(w, objects, XO, {}, rows, XR, {}) BY <1>1, <1>5, <3>3, WindowHoldsNothing
    <3>5. WindowHolds(Slid(w, b, objects, rows), objects, XO, HourIn(XO, b), rows, XR, HourIn(XR, b))
      BY <1>1, <1>5, <3>2, <3>4, SlidHolds
    <3> QED BY <2>1, <3>5 DEF b
  <2>4. CASE i # 0
    <3> DEFINE p == order[i]
    <3>1. i \in 1..n /\ i < i + 1 BY <1>3, <2>4
    <3>2. p \in M /\ p < b BY <1>3, <3>1
    <3>3. NoneBetween(M, p, b)
      <4> SUFFICES ASSUME NEW x \in M, x < b PROVE x <= p BY DEF NoneBetween
      <4>1. PICK j \in 1..n : order[j] = x /\ j <= i BY <2>2
      <4>2. j = i \/ j < i BY <1>3, <4>1
      <4>3. j < i => x < p BY <1>3, <3>1, <4>1
      <4>4. x \in Int /\ p \in Int BY <1>1, <3>2
      <4> QED BY <4>1, <4>2, <4>3, <4>4
    <3>4. WindowHolds(w, objects, XO, HourIn(XO, p), rows, XR, HourIn(XR, p)) BY <1>6, <3>1
    <3> HIDE DEF w, b, p
    <3>5. Comes(XO, HourIn(XO, p), b) /\ Comes(XR, HourIn(XR, p), b) BY <1>1, <2>1, <3>2, <3>3, ComesNext
    <3>6. WindowHolds(Slid(w, b, objects, rows), objects, XO, HourIn(XO, b), rows, XR, HourIn(XR, b))
      BY <1>1, <1>5, <3>4, <3>5, SlidHolds
    <3> QED BY <2>1, <3>6 DEF b
  <2> QED BY <2>3, <2>4
<1>7. 0 \in Has OBVIOUS
<1>8. Nat \subseteq Has
  <2> HIDE DEF Has
  <2> QED BY <1>6, <1>7, NaturalsBySteps
<1>9. \A i \in 1..n : holds(i) BY <1>8
<1> QED BY <1>3, <1>9

-----------------------------------------------------------------------------
(* The hours of the stream: edits, and edits with a cell or a tag *)

\* The sequence t has the elements of s that are in T, as often.
Parted(t, X, s, T) ==
  /\ t \in Seq(X) /\ Len(t) = Weigh(s, Ones(X, T))
  /\ \A v \in X : (\E j \in DOMAIN t : t[j] = v) <=> (v \in T /\ \E i \in DOMAIN s : s[i] = v)
  /\ \A S : Cardinality({j \in DOMAIN t : t[j] \in S}) = Weigh(s, Ones(X, T \cap S))

LEMMA AtParts ==
  ASSUME NEW X, NEW s \in Seq(X), NEW I, NEW T, Marks(I, s, T)
  PROVE  Parted(At(s, I), X, s, T)
<1> DEFINE t == At(s, I)
<1>1. t \in Seq(X) BY AtType
<1>2. Takes(t, s, I) BY AtHas
<1>3. \A S : \A x \in X : Ones(X, S)[x] \in Int BY DEF Ones
<1>4. \A S : Weigh(t, Ones(X, S)) = Weigh(s, Within(X, T, Ones(X, S))) BY <1>3, WeighMarked
<1> HIDE DEF t
<1>5. ASSUME NEW S PROVE Cardinality({j \in DOMAIN t : t[j] \in S}) = Weigh(s, Ones(X, T \cap S))
  <2>1. Within(X, T, Ones(X, S)) = Ones(X, T \cap S) BY DEF Within, Ones
  <2>2. Cardinality({j \in DOMAIN t : t[j] \in S}) = Weigh(t, Ones(X, S)) BY <1>1, NumberIs
  <2> QED BY <2>1, <2>2, <1>4
<1>6. Len(t) = Weigh(s, Ones(X, T))
  <2>1. Within(X, T, Ones(X, X)) = Ones(X, T) BY DEF Within, Ones
  <2>2. Len(t) = Weigh(t, Ones(X, X)) BY <1>1, LengthIs
  <2> QED BY <2>1, <2>2, <1>4
<1>7. ASSUME NEW v \in X PROVE (\E j \in DOMAIN t : t[j] = v) <=> (v \in T /\ \E i \in DOMAIN s : s[i] = v)
  <2>1. ASSUME NEW j \in DOMAIN t, t[j] = v PROVE v \in T /\ \E i \in DOMAIN s : s[i] = v
    <3>1. PICK i \in DOMAIN s \cap I : t[j] = s[i] BY <1>2 DEF Takes
    <3> QED BY <2>1, <3>1 DEF Marks
  <2>2. ASSUME NEW i \in DOMAIN s, s[i] = v, v \in T PROVE \E j \in DOMAIN t : t[j] = v
    <3>1. i \in DOMAIN s \cap I BY <2>2 DEF Marks
    <3>2. PICK j \in DOMAIN t : t[j] = s[i] BY <1>2, <3>1 DEF Takes
    <3> QED BY <2>2, <3>2
  <2> QED BY <2>1, <2>2
<1>8. Parted(t, X, s, T) BY <1>1, <1>5, <1>6, <1>7 DEF Parted
<1> QED BY <1>8 DEF t

\* The edits, those of a uid's hour, and those of them with a key of a store.
EditVersions == {v \in Versions : v.action # "create"}

HourVersions(u, m) == {v \in EditVersions : v.uid = u /\ v.minute > m - Span /\ v.minute <= m}

PartVersions(root, u, m, t) == {v \in HourVersions(u, m) : <<v.uid, v.minute, t>> \in KeysOf(root, v)}

OfHour(u, m) == Ones(Versions, HourVersions(u, m))

OfPart(root, u, m, t) == Ones(Versions, PartVersions(root, u, m, t))

AreEdits(edits, vs) == edits = At(vs, {i \in DOMAIN vs : vs[i].action # "create"})

LEMMA EditsAre ==
  ASSUME NEW vs \in Seq(Versions), NEW edits, AreEdits(edits, vs)
  PROVE  Parted(edits, Versions, vs, EditVersions)
<1> DEFINE I == {i \in DOMAIN vs : vs[i].action # "create"}
<1>1. \A i \in DOMAIN vs : vs[i] \in Versions OBVIOUS
<1>2. Marks(I, vs, EditVersions) BY <1>1 DEF Marks, EditVersions
<1> HIDE DEF I
<1>3. Parted(At(vs, I), Versions, vs, EditVersions) BY <1>2, AtParts
<1> QED BY <1>3 DEF I, AreEdits

\* A part of a part.
LEMMA PartedTwice ==
  ASSUME NEW X, NEW s \in Seq(X), NEW t, NEW T, Parted(t, X, s, T), NEW w, NEW U, Parted(w, X, t, U),
         \A g : (\A x \in X : g[x] \in Int) => Weigh(t, g) = Weigh(s, Within(X, T, g))
  PROVE  Parted(w, X, s, T \cap U)
<1>1. w \in Seq(X) BY DEF Parted
<1>2. \A S : \A x \in X : Ones(X, S)[x] \in Int BY DEF Ones
<1>3. \A S : Weigh(t, Ones(X, S)) = Weigh(s, Ones(X, T \cap S))
  <2> TAKE S
  <2>1. Within(X, T, Ones(X, S)) = Ones(X, T \cap S) BY DEF Within, Ones
  <2> QED BY <2>1, <1>2
<1>4. Len(w) = Weigh(s, Ones(X, T \cap U)) BY <1>3 DEF Parted
<1>5. \A v \in X : (\E j \in DOMAIN w : w[j] = v) <=> (v \in T \cap U /\ \E i \in DOMAIN s : s[i] = v)
  BY DEF Parted
<1>6. ASSUME NEW S PROVE Cardinality({j \in DOMAIN w : w[j] \in S}) = Weigh(s, Ones(X, (T \cap U) \cap S))
  <2>1. Cardinality({j \in DOMAIN w : w[j] \in S}) = Weigh(t, Ones(X, U \cap S)) BY DEF Parted
  <2>2. T \cap (U \cap S) = (T \cap U) \cap S OBVIOUS
  <2> QED BY <2>1, <2>2, <1>3
<1> QED BY <1>1, <1>4, <1>5, <1>6 DEF Parted

\* An edit of the uid at the minute, how many are of its hour, how many of them
\* have a cell or a tag, and which.
HasEdit(vs, u, m) == Weigh(vs, OfKey("minutes", <<u, m>>)) # 0

HourCount(vs, u, m) == Weigh(vs, OfHour(u, m))

PartCount(vs, root, u, m, t) == Weigh(vs, OfPart(root, u, m, t))

Parts(vs, root, u, m) == {t \in Int : PartCount(vs, root, u, m, t) # 0}

LEMMA NumbersOfHour ==
  ASSUME NEW vs \in Seq(Versions)
  PROVE  \A u, m : /\ HourCount(vs, u, m) \in Nat
                   /\ \A root, t : PartCount(vs, root, u, m, t) \in Nat
                   /\ \A root, t : PartCount(vs, root, u, m, t) # 0
                                     <=> \E i \in DOMAIN vs : vs[i] \in PartVersions(root, u, m, t)
BY NumberZero DEF HourCount, PartCount, OfHour, OfPart

LEMMA HasEditIs ==
  ASSUME NEW vs \in Seq(Versions), NEW u, NEW m
  PROVE  HasEdit(vs, u, m) <=> \E i \in DOMAIN vs : vs[i] \in EditVersions /\ vs[i].uid = u /\ vs[i].minute = m
<1> DEFINE T == {v \in Versions : <<u, m>> \in KeysOf("minutes", v)}
<1>1. Weigh(vs, Ones(Versions, T)) = 0 <=> \A i \in DOMAIN vs : vs[i] \notin T BY NumberZero
<1>2. \A v \in Versions : v \in T <=> v \in EditVersions /\ v.uid = u /\ v.minute = m
  BY DEF KeysOf, MinuteKeys, EditVersions
<1>3. \A i \in DOMAIN vs : vs[i] \in Versions OBVIOUS
<1>4. HasEdit(vs, u, m) <=> Weigh(vs, Ones(Versions, T)) # 0 BY DEF HasEdit, OfKey
<1> HIDE DEF T
<1> QED BY <1>1, <1>2, <1>3, <1>4

LEMMA PartVersionsAre ==
  ASSUME NEW u, NEW m, NEW t, NEW v \in Versions
  PROVE  /\ v \in PartVersions("cells", u, m, t) <=> v \in HourVersions(u, m) /\ v.kind # "relation" /\ t \in v.cells
         /\ v \in PartVersions("tags", u, m, t) <=> v \in HourVersions(u, m) /\ t \in v.tags
<1> DEFINE three(c) == <<v.uid, v.minute, c>>
<1>1. \A c : three(t) = three(c) => t = c OBVIOUS
<1>2. three(t) \in KeysOf("cells", v) <=> v.action # "create" /\ v.kind # "relation" /\ t \in v.cells
  BY <1>1 DEF KeysOf, CellKeys
<1>3. three(t) \in KeysOf("tags", v) <=> v.action # "create" /\ t \in v.tags
  BY <1>1 DEF KeysOf, TagKeys
<1> QED BY <1>2, <1>3 DEF PartVersions, HourVersions, EditVersions

\* An hour's length, its cells and how many have a tag.
CellsOf(hour) == UNION {IF v.kind = "relation" THEN {} ELSE v.cells : v \in Range(hour)}

TagsOf(hour) == UNION {v.tags : v \in Range(hour)}

With(hour, t) == Cardinality({i \in DOMAIN hour : t \in hour[i].tags})

HourHolds(hour, vs, u, m) ==
  /\ hour \in Seq(Versions) /\ Len(hour) = HourCount(vs, u, m)
  /\ CellsOf(hour) = Parts(vs, "cells", u, m) /\ TagsOf(hour) = Parts(vs, "tags", u, m)
  /\ \A t : With(hour, t) = PartCount(vs, "tags", u, m, t)

\* The days by the weights of the stream's prefixes.
IsEditDay(vs, k) ==
  \E u, m : k = <<u, Day(m)>> /\ HasEdit(vs, u, m) /\ HourCount(vs, u, m) > HourEdits

IsWide(n) == n >= SpreadCells /\ n * CellArea >= SpreadArea

IsSpreadDay(vs, k) ==
  \E u, m : /\ k = <<u, Day(m)>> /\ HasEdit(vs, u, m)
            /\ HourCount(vs, u, m) >= SpreadEdits /\ IsWide(Cardinality(Parts(vs, "cells", u, m)))

Covers(vs, ws, u, m) ==
  /\ HourCount(vs, u, m) >= CoverEdits
  /\ \E t \in Parts(ws, "tags", u, m) : PartCount(ws, "tags", u, m, t) * 10 > HourCount(vs, u, m) * CoverTenths

IsCoverDay(vs, ws, k) ==
  \E u, m : k = <<u, Day(m)>> /\ (HasEdit(vs, u, m) \/ HasEdit(ws, u, m)) /\ Covers(vs, ws, u, m)

\* The edits of a prefix, and their uids and minutes.
EditsHold(edits, vs) ==
  /\ edits \in Seq(Versions)
  /\ \A v \in Range(edits) : v \in Versions /\ HasEdit(vs, v.uid, v.minute)
  /\ \A u, m : HasEdit(vs, u, m) => \E v \in Range(edits) : v.uid = u /\ v.minute = m

LEMMA EditsHave ==
  ASSUME NEW vs \in Seq(Versions), NEW edits, AreEdits(edits, vs)
  PROVE  EditsHold(edits, vs)
<1>1. Parted(edits, Versions, vs, EditVersions) BY EditsAre
<1>2. /\ edits \in Seq(Versions)
      /\ \A v \in Versions : (\E j \in DOMAIN edits : edits[j] = v) <=> (v \in EditVersions /\ \E i \in DOMAIN vs : vs[i] = v)
  BY <1>1 DEF Parted
<1>3. \A j \in DOMAIN edits : edits[j] \in Versions BY <1>2
<1>4. \A v : v \in Range(edits) <=> \E j \in DOMAIN edits : edits[j] = v BY DEF Range
<1>5. ASSUME NEW v \in Range(edits) PROVE v \in Versions /\ HasEdit(vs, v.uid, v.minute)
  <2>1. PICK j \in DOMAIN edits : edits[j] = v BY <1>4, <1>5
  <2>2. v \in Versions BY <1>3, <2>1
  <2>3. v \in EditVersions /\ \E i \in DOMAIN vs : vs[i] = v BY <1>2, <2>1, <2>2
  <2> QED BY <2>2, <2>3, HasEditIs
<1>6. ASSUME NEW u, NEW m, HasEdit(vs, u, m) PROVE \E v \in Range(edits) : v.uid = u /\ v.minute = m
  <2>1. PICK i \in DOMAIN vs : vs[i] \in EditVersions /\ vs[i].uid = u /\ vs[i].minute = m BY <1>6, HasEditIs
  <2>2. vs[i] \in Versions OBVIOUS
  <2>3. \E j \in DOMAIN edits : edits[j] = vs[i] BY <1>2, <2>1, <2>2
  <2>4. vs[i] \in Range(edits) BY <1>4, <2>3
  <2> QED BY <2>1, <2>4
<1> QED BY <1>2, <1>5, <1>6 DEF EditsHold

-----------------------------------------------------------------------------
(* What the stores hold of an hour *)

\* A version has one of the keys T at most.
OneAtMost(root, T) == \A v \in Versions : \A k, l \in T : k \in KeysOf(root, v) /\ l \in KeysOf(root, v) => k = l

Keyed(root, T) == {v \in Versions : \E k \in T : k \in KeysOf(root, v)}

LEMMA OnesAt ==
  ASSUME NEW X, NEW T, NEW x \in X PROVE Ones(X, T)[x] = IF x \in T THEN 1 ELSE 0
BY DEF Ones

\* The counts of finitely many keys are those of the versions with one of them.
LEMMA KeysWeigh ==
  ASSUME NEW vs \in Seq(Versions), NEW root, NEW K, IsFiniteSet(K), OneAtMost(root, K),
         NEW f, \A k \in K : f[k] = Weigh(vs, OfKey(root, k))
  PROVE  SumFunctionOnSet(f, K) = Weigh(vs, Ones(Versions, Keyed(root, K)))
<1> DEFINE w(S) == Weigh(vs, Ones(Versions, Keyed(root, S)))
           F == {S \in SUBSET K : SumFunctionOnSet(f, S) = w(S)}
<1>1. {} \in F
  <2>1. Keyed(root, {}) = {} BY DEF Keyed
  <2>2. w({}) = 0 BY <2>1, NumberZero
  <2> HIDE DEF w
  <2> QED BY <2>2, SumEmpty
<1>2. ASSUME NEW S \in F, NEW x \in K \ S PROVE S \cup {x} \in F
  <2>1. S \in SUBSET K /\ SumFunctionOnSet(f, S) = w(S) OBVIOUS
  <2>2. IsFiniteSet(S) BY <2>1, FS_Subset
  <2>3. \A k \in K : f[k] \in Int
    <3> TAKE k \in K
    <3> DEFINE R == {v \in Versions : k \in KeysOf(root, v)}
    <3>1. Weigh(vs, Ones(Versions, R)) \in Nat BY NumberZero
    <3>2. OfKey(root, k) = Ones(Versions, R) BY DEF OfKey
    <3>3. f[k] = Weigh(vs, OfKey(root, k)) OBVIOUS
    <3> HIDE DEF R
    <3> QED BY <3>1, <3>2, <3>3
  <2>4. SumFunctionOnSet(f, S \cup {x}) = SumFunctionOnSet(f, S) + f[x]
    <3>1. \A k \in S : f[k] \in Int BY <2>1, <2>3
    <3>2. x \notin S /\ f[x] \in Int BY <2>3
    <3> QED BY <2>2, <3>1, <3>2, SumAdd
  <2>5. w(S \cup {x}) = w(S) + f[x]
    <3> DEFINE g == Ones(Versions, Keyed(root, S))
               h == OfKey(root, x)
               sum == Ones(Versions, Keyed(root, S \cup {x}))
    <3>1. \A v \in Versions : v \in Keyed(root, S \cup {x}) <=> v \in Keyed(root, S) \/ x \in KeysOf(root, v)
      BY DEF Keyed
    <3>2. \A v \in Versions : ~(v \in Keyed(root, S) /\ x \in KeysOf(root, v))
      <4> TAKE v \in Versions
      <4> SUFFICES ASSUME v \in Keyed(root, S), x \in KeysOf(root, v) PROVE FALSE OBVIOUS
      <4>1. PICK k \in S : k \in KeysOf(root, v) BY DEF Keyed
      <4>2. k \in K /\ x \in K /\ k # x BY <2>1
      <4> QED BY <4>1, <4>2 DEF OneAtMost
    <3>3. \A v \in Versions : g[v] \in Int /\ h[v] \in Int /\ sum[v] = g[v] + h[v]
      <4> TAKE v \in Versions
      <4>1. g[v] = IF v \in Keyed(root, S) THEN 1 ELSE 0 BY OnesAt
      <4>2. sum[v] = IF v \in Keyed(root, S \cup {x}) THEN 1 ELSE 0 BY OnesAt
      <4>3. h[v] = IF x \in KeysOf(root, v) THEN 1 ELSE 0
        <5>1. v \in {l \in Versions : x \in KeysOf(root, l)} <=> x \in KeysOf(root, v) OBVIOUS
        <5> QED BY <5>1, OnesAt DEF OfKey
      <4> HIDE DEF g, h, sum
      <4>4. v \in Keyed(root, S \cup {x}) <=> v \in Keyed(root, S) \/ x \in KeysOf(root, v) BY <3>1
      <4>5. ~(v \in Keyed(root, S) /\ x \in KeysOf(root, v)) BY <3>2
      <4> QED BY <4>1, <4>2, <4>3, <4>4, <4>5
    <3>4. f[x] = Weigh(vs, h) OBVIOUS
    <3> HIDE DEF g, h, sum
    <3>5. Weigh(vs, sum) = Weigh(vs, g) + Weigh(vs, h) BY <3>3, WeighPlus
    <3> QED BY <3>4, <3>5 DEF g, sum
  <2>6. S \cup {x} \in SUBSET K BY <2>1
  <2> HIDE DEF w
  <2> QED BY <2>1, <2>4, <2>5, <2>6
<1>3. K \in F
  <2> HIDE DEF F
  <2>1. \A S \in F : S \subseteq K => \A x \in K \ S : S \cup {x} \in F BY <1>2
  <2> QED BY <1>1, <2>1, SetsBySteps
<1> QED BY <1>3

\* The records in their order weigh what their counts do.
LEMMA LinedWeighs ==
  ASSUME NEW m \in Nat, NEW c, IsFiniteSet(DOMAIN c), DOMAIN c \subseteq Keys(m),
         NEW g, \A k \in DOMAIN c : g[RecordOf(c, k)] \in Int
  PROVE  Weigh(Lined(c), g) = SumFunctionOnSet([k \in DOMAIN c |-> g[RecordOf(c, k)]], DOMAIN c)
<1> DEFINE n == Cardinality(DOMAIN c)
           keys == KeyRanked(DOMAIN c)
           f == [i \in DOMAIN Lined(c) |-> g[Lined(c)[i]]]
           h == [k \in DOMAIN c |-> g[RecordOf(c, k)]]
           S == 1..n
<1>1. KeyListed(keys, DOMAIN c) BY KeysInOrder
<1>2. n \in Nat /\ Renames(keys, S, DOMAIN c) BY <1>1 DEF KeyListed, Renames
<1>3. DOMAIN Lined(c) = S /\ \A i \in S : Lined(c)[i] = RecordOf(c, keys[i]) BY DEF Lined
<1>4. \A i \in S : keys[i] \in DOMAIN c BY <1>2 DEF Renames
<1> HIDE DEF keys
<1>5. \A i \in S : f[i] \in Int /\ f[i] = h[keys[i]] BY <1>3, <1>4
<1>6. IsFiniteSet(S) BY <1>2, FS_Interval
<1> HIDE DEF n, f, h, S
<1>7. SumFunctionOnSet(f, S) = SumFunctionOnSet(h, DOMAIN c) BY <1>2, <1>5, <1>6, SumRenamed
<1> QED BY <1>3, <1>7 DEF Weigh, f, h

CountsOf(X, T) == Within(X, {x \in X : x.key \in T}, Counts(X))

\* The keys of an hour of a uid, and those of them with a third number.
HourKeys(n, u, m) == {k \in Keys(n) : k[1] = u /\ k[2] > m - Span /\ k[2] <= m}

PartKeys(u, m, t) == {k \in HourKeys(3, u, m) : k[3] = t}

\* A row of the uid's hour.
InHourOf(x, u, m) == x.key[1] = u /\ MinuteOf(x) > m - Span /\ MinuteOf(x) <= m

HourOnly(X, u, m, g) == [x \in X |-> IF InHourOf(x, u, m) THEN g[x] ELSE 0]

-----------------------------------------------------------------------------
(* The keys of the stores are edits of the stream *)

\* A key's uid edited in its minute.
LEMMA KeyIsAnEdit ==
  ASSUME NEW r \in StreamRoots, NEW vs \in Seq(Versions), NEW k, Weigh(vs, OfKey(r, k)) # 0
  PROVE  HasEdit(vs, k[1], k[2])
<1> DEFINE T == {v \in Versions : k \in KeysOf(r, v)}
<1>1. PICK i \in DOMAIN vs : vs[i] \in T BY NumberZero DEF OfKey
<1>2. vs[i] \in Versions /\ k \in KeysOf(r, vs[i]) BY <1>1
<1>3. vs[i].action # "create" /\ k[1] = vs[i].uid /\ k[2] = vs[i].minute
  <2>1. CASE r = "minutes" BY <1>2, <2>1 DEF KeysOf, MinuteKeys
  <2>2. CASE r = "cells" BY <1>2, <2>2 DEF KeysOf, CellKeys
  <2>3. CASE r = "tags" BY <1>2, <2>3 DEF KeysOf, TagKeys
  <2> QED BY <2>1, <2>2, <2>3 DEF StreamRoots
<1>4. vs[i] \in EditVersions BY <1>2, <1>3 DEF EditVersions
<1> HIDE DEF T
<1> QED BY <1>3, <1>4, HasEditIs

-----------------------------------------------------------------------------
(* The days that the stores flag *)

\* There is a window for each minute of the series.
LEMMA WindowMinutes ==
  ASSUME NEW objects \in Seq(HourRows(2)), NEW rows \in Seq(HourRows(3)), NEW w, w = Windows(objects, rows)
  PROVE  /\ \A i \in DOMAIN w : w[i].minute \in MinutesOf(objects, rows)
         /\ \A x \in MinutesOf(objects, rows) : \E i \in DOMAIN w : w[i].minute = x
<1> DEFINE M == MinutesOf(objects, rows)
           order == Ranked(M)
           n == Cardinality(M)
           t == CHOOSE u : Sliding(u, order, objects, rows)
<1>1. IsFiniteSet(M) /\ M \in SUBSET Int BY MinutesAre
<1>2. Ascends(order, M) BY <1>1, NumbersInOrder
<1>3. /\ order \in [1..n -> M]
      /\ \A x \in M : \E i \in 1..n : order[i] = x
  BY <1>2 DEF Ascends
<1>4. w = [i \in DOMAIN order |-> WindowAt(order, t, i)] BY WindowsIsChosen
<1>5. \A i : WindowAt(order, t, i).minute = order[i] BY DEF WindowAt
<1> HIDE DEF order, t, n, M
<1>6. DOMAIN w = 1..n /\ \A i \in 1..n : w[i].minute = order[i] BY <1>3, <1>4, <1>5
<1>7. \A i \in DOMAIN w : w[i].minute \in M BY <1>3, <1>6
<1>8. \A x \in M : \E i \in DOMAIN w : w[i].minute = x BY <1>3, <1>6
<1> QED BY <1>7, <1>8 DEF M

\* What a window says of the edits vs and of the changed cells or tags ws.
WindowSays(w, vs, ws, root, u) ==
  /\ w.total = HourCount(vs, u, w.minute) /\ DOMAIN w.counts = Parts(ws, root, u, w.minute)
  /\ \A t \in DOMAIN w.counts : w.counts[t] = PartCount(ws, root, u, w.minute, t)
  /\ HasEdit(vs, u, w.minute) \/ HasEdit(ws, u, w.minute)

\* Filter 4.
SpreadAt(vs, ws, u, m) == HourCount(vs, u, m) >= SpreadEdits /\ IsWide(Cardinality(Parts(ws, "cells", u, m)))

-----------------------------------------------------------------------------
(* More batches, more of everything *)

\* A sequence holds as much of everything as another: the edits of every hour,
\* and the cells or tags of every hour.
HoursGrow(vs, ws) ==
  \A u, m : /\ HasEdit(vs, u, m) => HasEdit(ws, u, m)
            /\ HourCount(vs, u, m) <= HourCount(ws, u, m)

PartsGrow(root, vs, ws) ==
  \A u, m, t : PartCount(vs, root, u, m, t) <= PartCount(ws, root, u, m, t)

\* The weights are numbers, and only what is counted weighs.
LEMMA HourWeights ==
  /\ \A u, m : \A x \in Versions :
       /\ OfKey("minutes", <<u, m>>)[x] \in Nat /\ OfHour(u, m)[x] \in Nat
       /\ OfKey("minutes", <<u, m>>)[x] # 0 => KeysOf("minutes", x) # {}
       /\ OfHour(u, m)[x] # 0 => KeysOf("minutes", x) # {}
  /\ \A root, u, m, t : \A x \in Versions :
       /\ OfPart(root, u, m, t)[x] \in Nat
       /\ OfPart(root, u, m, t)[x] # 0 => KeysOf(root, x) # {}
<1>1. ASSUME NEW u, NEW m, NEW x \in Versions
      PROVE  /\ OfKey("minutes", <<u, m>>)[x] \in Nat /\ OfHour(u, m)[x] \in Nat
             /\ OfKey("minutes", <<u, m>>)[x] # 0 => KeysOf("minutes", x) # {}
             /\ OfHour(u, m)[x] # 0 => KeysOf("minutes", x) # {}
  <2>1. OfKey("minutes", <<u, m>>)[x] = IF x \in {v \in Versions : <<u, m>> \in KeysOf("minutes", v)} THEN 1 ELSE 0
    BY OnesAt DEF OfKey
  <2>2. OfHour(u, m)[x] = IF x \in HourVersions(u, m) THEN 1 ELSE 0
    BY OnesAt DEF OfHour
  <2>3. x \in HourVersions(u, m) => x.action # "create"
    BY DEF HourVersions, EditVersions
  <2>4. x.action # "create" => KeysOf("minutes", x) # {}
    BY DEF KeysOf, MinuteKeys
  <2> QED
    BY <2>1, <2>2, <2>3, <2>4
<1>2. ASSUME NEW root, NEW u, NEW m, NEW t, NEW x \in Versions
      PROVE  /\ OfPart(root, u, m, t)[x] \in Nat
             /\ OfPart(root, u, m, t)[x] # 0 => KeysOf(root, x) # {}
  <2>1. OfPart(root, u, m, t)[x] = IF x \in PartVersions(root, u, m, t) THEN 1 ELSE 0
    BY OnesAt DEF OfPart
  <2>2. x \in PartVersions(root, u, m, t) => KeysOf(root, x) # {}
    BY DEF PartVersions
  <2> QED
    BY <2>1, <2>2
<1> QED
  BY <1>1, <1>2

LEMMA EditDayGrows ==
  ASSUME NEW vs \in Seq(Versions), NEW ws \in Seq(Versions), HoursGrow(vs, ws), NEW k
  PROVE  IsEditDay(vs, k) => IsEditDay(ws, k)
<1> SUFFICES ASSUME IsEditDay(vs, k) PROVE IsEditDay(ws, k)
  OBVIOUS
<1>1. PICK u, m : k = <<u, Day(m)>> /\ HasEdit(vs, u, m) /\ HourCount(vs, u, m) > HourEdits
  BY DEF IsEditDay
<1>2. HasEdit(ws, u, m) /\ HourCount(vs, u, m) <= HourCount(ws, u, m)
  BY <1>1 DEF HoursGrow
<1>3. HourCount(vs, u, m) \in Nat /\ HourCount(ws, u, m) \in Nat /\ HourEdits \in Nat
  BY NumbersOfHour, ThresholdsAreNumbers
<1>4. HourCount(ws, u, m) > HourEdits
  BY <1>1, <1>2, <1>3
<1> QED
  BY <1>1, <1>2, <1>4 DEF IsEditDay

\* Sequences that hold as much of everything as each other cover the same days.
LEMMA CoverSame ==
  ASSUME NEW vs \in Seq(Versions), NEW ws \in Seq(Versions), HoursGrow(vs, ws), HoursGrow(ws, vs),
         NEW xs \in Seq(Versions), NEW ys \in Seq(Versions), PartsGrow("tags", xs, ys), PartsGrow("tags", ys, xs),
         NEW u, NEW m
  PROVE  /\ Covers(vs, xs, u, m) <=> Covers(ws, ys, u, m)
         /\ HasEdit(vs, u, m) <=> HasEdit(ws, u, m)
<1>1. HourCount(vs, u, m) \in Nat /\ HourCount(ws, u, m) \in Nat
  BY NumbersOfHour
<1>2. HourCount(vs, u, m) = HourCount(ws, u, m) /\ (HasEdit(vs, u, m) <=> HasEdit(ws, u, m))
  BY <1>1 DEF HoursGrow
<1>3. \A t : PartCount(xs, "tags", u, m, t) \in Nat /\ PartCount(ys, "tags", u, m, t) \in Nat
  BY NumbersOfHour
<1>4. \A t : PartCount(xs, "tags", u, m, t) <= PartCount(ys, "tags", u, m, t)
  BY DEF PartsGrow
<1>5. \A t : PartCount(ys, "tags", u, m, t) <= PartCount(xs, "tags", u, m, t)
  BY DEF PartsGrow
<1>6. \A t : PartCount(xs, "tags", u, m, t) = PartCount(ys, "tags", u, m, t)
  BY <1>3, <1>4, <1>5
<1> QED
  BY <1>2, <1>6 DEF Covers, Parts

=============================================================================
