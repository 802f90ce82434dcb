--------------------------- MODULE DataInduction ---------------------------
(***************************************************************************)
(* Induction over the naturals as a property of sets: a set that has 0 and,*)
(* with every number, the next one has them all. With it recursive         *)
(* functions can be unfolded and finite sets be put in order.              *)
(***************************************************************************)
EXTENDS Integers, FiniteSets, FiniteSetTheorems, WellFoundedInduction, TLAPS

\* A set with 0 and the successor of its every number holds the naturals.
LEMMA NaturalsBySteps ==
  ASSUME NEW S, 0 \in S, \A n \in S : n \in Nat => n + 1 \in S PROVE Nat \subseteq S
<1> DEFINE R == OpToRel(<, Nat)
<1>1. IsWellFoundedOn(R, Nat)
  BY NatLessThanWellFounded
<1>2. \A x, y \in Nat : <<y, x>> \in R <=> y < x
  BY DEF OpToRel
<1> HIDE DEF R
<1>3. SUFFICES ASSUME Nat \ S # {} PROVE FALSE
  OBVIOUS
<1>4. PICK n \in Nat \ S : \A m \in Nat \ S : <<m, n>> \notin R
  BY <1>1, <1>3, WFMin
<1>5. n # 0 /\ n - 1 \in Nat /\ <<n - 1, n>> \in R
  BY <1>2
<1>6. n - 1 \in S
  BY <1>4, <1>5
<1>7. (n - 1) + 1 \in S
  BY <1>5, <1>6
<1>. QED BY <1>4, <1>7

\* A finite set of integers that is not empty has a greatest one.
LEMMA GreatestExists ==
  ASSUME NEW S, IsFiniteSet(S), S \subseteq Int, S # {}
  PROVE  \E x \in S : \A y \in S : y <= x
<1> DEFINE Has == {n \in Nat : \A T \in SUBSET S :
                     T # {} /\ Cardinality(T) = n => \E x \in T : \A y \in T : y <= x}
<1>1. \A T \in SUBSET S : IsFiniteSet(T) /\ Cardinality(T) \in Nat
  BY FS_Subset, FS_CardinalityType
<1>2. 0 \in Has
  BY <1>1, FS_EmptySet
<1>3. ASSUME NEW n \in Has PROVE n + 1 \in Has
  <2> SUFFICES ASSUME NEW T \in SUBSET S, T # {}, Cardinality(T) = n + 1
               PROVE  \E x \in T : \A y \in T : y <= x
    OBVIOUS
  <2>1. PICK z \in T : TRUE
    OBVIOUS
  <2>2. Cardinality(T \ {z}) = n
    BY <1>1, <2>1, FS_RemoveElement
  <2>3. CASE T \ {z} = {}
    BY <2>3
  <2>4. CASE T \ {z} # {}
    <3>1. PICK x \in T \ {z} : \A y \in T \ {z} : y <= x
      BY <2>2, <2>4
    <3>2. CASE z <= x
      BY <3>1, <3>2
    <3>3. CASE ~(z <= x)
      BY <3>1, <3>3
    <3>. QED BY <3>2, <3>3
  <2>. QED BY <2>3, <2>4
<1>4. Nat \subseteq Has
  <2> HIDE DEF Has
  <2>. QED BY <1>2, <1>3, NaturalsBySteps
<1>5. Cardinality(S) \in Has
  BY <1>1, <1>4
<1>. QED BY <1>5
=============================================================================
