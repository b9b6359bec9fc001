---------------------------- MODULE DataLemmas ----------------------------
(***************************************************************************)
(* Facts about numbers and finite sets that the proofs of several          *)
(* components use.                                                         *)
(***************************************************************************)
EXTENDS Integers, Sequences, FiniteSets,
        FiniteSetTheorems, SequenceTheorems, WellFoundedInduction, TLAPS

\* Every set of natural numbers that is not empty has a least element: an
\* induction is the search for the least counterexample.
LEMMA LeastNat ==
    ASSUME NEW T, T \subseteq Nat, T # {}
    PROVE  \E x \in T : \A y \in T : x <= y
<1> DEFINE R == {ss \in Nat \X Nat : ss[1] < ss[2]}
<1>1. IsWellFoundedOn(OpToRel(<, Nat), Nat)
  BY NatLessThanWellFounded
<1>2. IsWellFoundedOn(R, Nat)
  BY <1>1, Zenon DEF OpToRel
<1> HIDE DEF R
<1>3. \E x \in T : \A y \in T : ~(<<y, x>> \in R)
  BY <1>2, WFMin
<1>4. ASSUME NEW x \in Nat, NEW y \in Nat, y < x PROVE <<y, x>> \in R
  <2>1. <<y, x>> \in Nat \X Nat /\ <<y, x>>[1] = y /\ <<y, x>>[2] = x
    BY <1>4
  <2> QED BY <1>4, <2>1 DEF R
<1>5. PICK x \in T : \A y \in T : ~(<<y, x>> \in R)
  BY <1>3
<1>6. \A y \in T : ~(y < x)
  BY <1>4, <1>5
<1> QED BY <1>6

\* How many elements of a set of numbers are below one.
Rank(K, i) == Cardinality({j \in K : j < i})

\* The elements of a finite set of numbers, counted from the least: there is
\* one of every rank below the size of the set.
LEMMA RankExists ==
    ASSUME NEW K, IsFiniteSet(K), K \subseteq Nat, NEW k \in Nat, k < Cardinality(K)
    PROVE  \E i \in K : Rank(K, i) = k
<1> USE DEF Rank
<1> DEFINE Ranked(n) == \E i \in K : Cardinality({j \in K : j < i}) = n
           Bad == {n \in Nat : n < Cardinality(K) /\ ~Ranked(n)}
<1> SUFFICES ASSUME Bad # {} PROVE FALSE
  OBVIOUS
<1>1. PICK n \in Bad : \A m \in Bad : n <= m
  BY LeastNat
<1>2. n \in Nat /\ n < Cardinality(K) /\ Cardinality(K) \in Nat /\ ~Ranked(n)
  BY FS_CardinalityType
<1>3. n # 0
  <2> SUFFICES ASSUME n = 0 PROVE FALSE
    OBVIOUS
  <2>1. K # {}
    BY <1>2, FS_EmptySet
  <2>2. PICK i \in K : \A j \in K : i <= j
    BY <2>1, LeastNat
  <2>3. {j \in K : j < i} = {}
    <3>1. \A j \in K : ~(j < i)
      BY <2>2
    <3> QED BY <3>1
  <2>4. Cardinality({j \in K : j < i}) = 0
    BY <2>3, FS_EmptySet
  <2> QED BY <1>2, <2>4
<1>4. n - 1 \in Nat /\ ~(n <= n - 1) /\ n - 1 < Cardinality(K)
  BY <1>2, <1>3
<1>5. Ranked(n - 1)
  <2> SUFFICES ASSUME ~Ranked(n - 1) PROVE FALSE
    OBVIOUS
  <2>1. n - 1 \in Bad
    BY <1>4
  <2> HIDE DEF Bad
  <2> QED BY <1>1, <1>4, <2>1
<1>6. PICK i \in K : Cardinality({j \in K : j < i}) = n - 1
  BY <1>5
<1>7. PICK B : B = {j \in K : j < i}
  OBVIOUS
<1>8. IsFiniteSet(B) /\ Cardinality(B) = n - 1
  <2>1. B \in SUBSET K
    BY <1>7
  <2> QED BY <1>6, <1>7, <2>1, FS_Subset
<1>9. Cardinality(B \cup {i}) = n
  <2>1. i \notin B
    BY <1>7
  <2>2. (n - 1) + 1 = n
    BY <1>2
  <2> QED BY <1>8, <2>1, <2>2, FS_AddElement
<1>10. PICK A : A = {j \in K : j > i}
  OBVIOUS
<1>11. A # {}
  <2> SUFFICES ASSUME A = {} PROVE FALSE
    OBVIOUS
  <2>1. \A j \in K : j < i \/ j = i \/ j > i
    OBVIOUS
  <2>2. K = B \cup {i}
    BY <1>7, <1>10, <2>1
  <2> QED BY <1>2, <1>9, <2>2
<1>12. PICK m \in A : \A j \in A : m <= j
  <2>1. A \subseteq Nat
    BY <1>10
  <2> QED BY <1>11, <2>1, LeastNat
<1>13. {j \in K : j < m} = B \cup {i}
  <2>1. m \in Int /\ i \in Int /\ i < m
    BY <1>10, <1>12
  <2>2. \A j \in K : j < m <=> j < i \/ j = i
    <3> SUFFICES ASSUME NEW j \in K PROVE j < m <=> j < i \/ j = i
      OBVIOUS
    <3>1. j \in Int /\ (j > i => m <= j)
      BY <1>10, <1>12
    <3> QED BY <2>1, <3>1
  <2> QED BY <1>7, <2>2
<1>14. m \in K /\ Cardinality({j \in K : j < m}) = n
  BY <1>9, <1>10, <1>13
<1> QED BY <1>2, <1>14

\* A finite set of numbers that is not empty has a greatest element.
LEMMA GreatestNat ==
    ASSUME NEW K, IsFiniteSet(K), K \subseteq Nat, K # {}
    PROVE  \E m \in K : \A j \in K : j <= m
<1>1. PICK c \in Nat : c = Cardinality(K) /\ c # 0
  BY FS_CardinalityType, FS_EmptySet
<1>2. c - 1 \in Nat /\ c - 1 < Cardinality(K)
  BY <1>1
<1>3. PICK m \in K : Rank(K, m) = c - 1
  BY <1>2, RankExists
<1>4. PICK B : B = {j \in K : j < m} /\ Cardinality(B) = c - 1
  BY <1>3 DEF Rank
<1>5. IsFiniteSet(K \ {m}) /\ Cardinality(K \ {m}) = c - 1 /\ B \subseteq K \ {m}
  BY <1>1, <1>4, FS_RemoveElement
<1>6. B = K \ {m}
  BY <1>4, <1>5, FS_Subset
<1>7. \A j \in K : j = m \/ j < m
  BY <1>4, <1>6
<1> QED BY <1>7

\* Only the greatest element has all the others below it.
LEMMA TopRank ==
    ASSUME NEW K, IsFiniteSet(K), K \subseteq Nat, NEW m \in K, \A j \in K : j <= m,
           NEW i \in K
    PROVE  Rank(K, i) = Cardinality(K) - 1 <=> i = m
<1> USE DEF Rank
<1>1. Cardinality(K) \in Nat
  BY FS_CardinalityType
<1>2. IsFiniteSet(K \ {i}) /\ Cardinality(K \ {i}) = Cardinality(K) - 1
  BY FS_RemoveElement
<1>3. CASE i = m
  <2>0. \A j \in K : j < i <=> j # i
    BY <1>3
  <2>1. {j \in K : j < i} = K \ {i}
    BY <2>0
  <2> QED BY <1>2, <1>3, <2>1
<1>4. CASE i # m
  <2>1. PICK B : B = {j \in K : j < i}
    OBVIOUS
  <2>2. B \in SUBSET (K \ {i}) /\ m \notin B /\ m \in K \ {i}
    BY <1>4, <2>1
  <2>3. Cardinality(B) # Cardinality(K \ {i})
    <3>1. B # K \ {i}
      BY <2>2
    <3> QED BY <1>2, <2>2, <3>1, FS_Subset
  <2> QED BY <1>2, <1>4, <2>1, <2>3
<1> QED BY <1>3, <1>4

\* How many elements of S come before e in the order R, a set of pairs.
Before(S, R, e) == Cardinality({d \in S : <<d, e>> \in R})

\* A finite set that is totally ordered has an element at every place: what
\* sorting it relies on.
LEMMA PlaceExists ==
    ASSUME NEW S, IsFiniteSet(S), NEW R,
           \A x \in S : <<x, x>> \notin R,
           \A x, y \in S : x = y \/ <<x, y>> \in R \/ <<y, x>> \in R,
           \A x, y, z \in S : <<x, y>> \in R /\ <<y, z>> \in R => <<x, z>> \in R,
           NEW k \in Nat, k < Cardinality(S)
    PROVE  \E e \in S : Before(S, R, e) = k
<1> DEFINE Below(e) == {d \in S : <<d, e>> \in R}
           T == 0..(Cardinality(S) - 1)
<1>1. Cardinality(S) \in Nat
  BY FS_CardinalityType
<1>2. ASSUME NEW e \in S
      PROVE  IsFiniteSet(Below(e)) /\ Before(S, R, e) \in T
  <2>1. PICK B : B = Below(e)
    OBVIOUS
  <2>2. B \in SUBSET S /\ B # S
    BY <2>1
  <2>3. IsFiniteSet(B) /\ Cardinality(B) \in Nat /\ Cardinality(B) < Cardinality(S)
    <3>1. IsFiniteSet(B) /\ Cardinality(B) <= Cardinality(S) /\ Cardinality(B) # Cardinality(S)
      BY <2>2, FS_Subset
    <3>2. Cardinality(B) \in Nat
      BY <3>1, FS_CardinalityType
    <3> QED BY <1>1, <3>1, <3>2
  <2>4. Cardinality(B) \in T
    BY <1>1, <2>3
  <2> QED BY <2>1, <2>3, <2>4 DEF Before
<1>3. ASSUME NEW x \in S, NEW y \in S, <<x, y>> \in R
      PROVE  Before(S, R, x) # Before(S, R, y)
  <2>1. Below(x) \subseteq Below(y)
    BY <1>3
  <2>2. x \in Below(y) /\ x \notin Below(x)
    BY <1>3
  <2>3. PICK A, B : A = Below(x) /\ B = Below(y)
    OBVIOUS
  <2>4. IsFiniteSet(B) /\ A \in SUBSET B /\ A # B
    BY <1>2, <2>1, <2>2, <2>3
  <2>5. Cardinality(A) # Cardinality(B)
    BY <2>4, FS_Subset
  <2> QED BY <2>3, <2>5 DEF Before
<1> DEFINE f == [e \in S |-> Before(S, R, e)]
<1>4. f \in Injection(S, T)
  <2>1. \A e \in S : Before(S, R, e) \in T
    BY <1>2
  <2>2. f \in [S -> T]
    BY <2>1
  <2>3. \A x, y \in S : f[x] = f[y] => x = y
    BY <1>3
  <2> HIDE DEF f, T
  <2>4. DOMAIN f = S
    BY <2>2
  <2> QED BY <2>2, <2>3, <2>4 DEF Injection, IsInjective
<1>5. IsFiniteSet(T) /\ Cardinality(T) = Cardinality(S)
  <2>1. 0 \in Int /\ Cardinality(S) - 1 \in Int
    BY <1>1
  <2>2. IsFiniteSet(T) /\ Cardinality(T) = IF 0 > Cardinality(S) - 1 THEN 0 ELSE (Cardinality(S) - 1) - 0 + 1
    BY <2>1, FS_Interval
  <2> QED BY <1>1, <2>2
<1>6. f \in Surjection(S, T)
  <2> HIDE DEF f, T
  <2> QED BY <1>4, <1>5, FS_Injection
<1>7. k \in T
  BY <1>1
<1>8. PICK e \in S : f[e] = k
  <2> HIDE DEF f, T
  <2> QED BY <1>6, <1>7 DEF Surjection
<1> QED BY <1>8

=============================================================================
