----------------------------- MODULE RankedProofs -----------------------------
(***************************************************************************)
(* Lemmas about Ranked: a finite set of numbers has an element of every    *)
(* rank up to its size, and one of each.                                   *)
(***************************************************************************)
EXTENDS Ranked, FiniteSetTheorems, TLAPS

(* A greater element has a greater rank. *)
LEMMA RankGrows ==
  ASSUME NEW S \in SUBSET Nat, IsFiniteSet(S), NEW m \in S, NEW n \in S, m < n
  PROVE  Rank(S, m) < Rank(S, n)
<1> DEFINE A == {x \in S : x <= m}  B == {x \in S : x <= n}
<1>0. \A x \in S : x \in Nat OBVIOUS
<1>1. A \in SUBSET B /\ A # B /\ B \in SUBSET S
  <2>1. \A x \in S : x <= m => x <= n BY <1>0
  <2>2. n \in B /\ n \notin A BY <1>0
  <2> QED BY <2>1, <2>2
<1>2. IsFiniteSet(B) BY <1>1, FS_Subset
<1>3. IsFiniteSet(A) BY <1>1, <1>2, FS_Subset
<1>4. Cardinality(A) <= Cardinality(B) /\ Cardinality(A) # Cardinality(B)
  BY <1>1, <1>2, FS_Subset
<1>5. Cardinality(A) \in Nat /\ Cardinality(B) \in Nat
  BY <1>2, <1>3, FS_CardinalityType
<1> QED BY <1>4, <1>5 DEF Rank

(* Ranks go from one to the size of the set. *)
LEMMA RankBounded ==
  ASSUME NEW S \in SUBSET Nat, IsFiniteSet(S), NEW n \in S
  PROVE  Rank(S, n) \in 1..Cardinality(S)
<1> DEFINE A == {x \in S : x <= n}
<1>0. n <= n OBVIOUS
<1>1. A \in SUBSET S /\ n \in A BY <1>0
<1>2. IsFiniteSet(A) /\ Cardinality(A) <= Cardinality(S) BY <1>1, FS_Subset
<1>3. Cardinality(A) # 0 BY <1>1, <1>2, FS_EmptySet
<1>4. Cardinality(A) \in Nat /\ Cardinality(S) \in Nat BY <1>2, FS_CardinalityType
<1> QED BY <1>2, <1>3, <1>4 DEF Rank

(* The element of a rank is there, and it is the only one of that rank. *)
LEMMA NthFound ==
  ASSUME NEW S \in SUBSET Nat, IsFiniteSet(S), NEW k \in 1..Cardinality(S)
  PROVE  Nth(S, k) \in S /\ Rank(S, Nth(S, k)) = k
<1> DEFINE r == [n \in S |-> Rank(S, n)]
           I == 1..Cardinality(S)
<1>1. Cardinality(S) \in Nat BY FS_CardinalityType
<1>2. r \in [S -> I] BY RankBounded
<1>3. \A m, n \in S : r[m] = r[n] => m = n
  <2> SUFFICES ASSUME NEW m \in S, NEW n \in S, r[m] = r[n], m # n PROVE FALSE
    OBVIOUS
  <2>1. m < n \/ n < m OBVIOUS
  <2>2. Rank(S, m) \in Nat /\ Rank(S, n) \in Nat /\ Rank(S, m) = Rank(S, n)
    BY RankBounded
  <2> QED BY <2>1, <2>2, RankGrows
<1>4. r \in Injection(S, I) BY <1>2, <1>3 DEF Injection, IsInjective
<1>5. IsFiniteSet(I) /\ Cardinality(I) = Cardinality(S)
  BY <1>1, FS_Interval
<1>6. r \in Surjection(S, I) BY <1>4, <1>5, FS_Injection
<1>7. \E n \in S : Rank(S, n) = k BY <1>6 DEF Surjection
<1> QED BY <1>7 DEF Nth

(* An element is the one at its rank. *)
LEMMA NthOfRank ==
  ASSUME NEW S \in SUBSET Nat, IsFiniteSet(S), NEW n \in S
  PROVE  Nth(S, Rank(S, n)) = n
<1> DEFINE m == Nth(S, Rank(S, n))
<1>1. m \in S /\ Rank(S, m) = Rank(S, n) BY RankBounded, NthFound
<1> HIDE DEF m
<1>2. Rank(S, n) \in Nat BY RankBounded
<1>3. ~(m < n) BY <1>1, <1>2, RankGrows
<1>4. ~(n < m) BY <1>1, <1>2, RankGrows
<1>5. m \in Nat /\ n \in Nat BY <1>1
<1>6. m = n BY <1>3, <1>4, <1>5
<1> QED BY <1>6 DEF m

(* A greater element than all comes last, and moves no other. *)
LEMMA NthAdded ==
  ASSUME NEW S \in SUBSET Nat, IsFiniteSet(S), NEW n \in Nat, \A m \in S : m < n
  PROVE  /\ Cardinality(S \cup {n}) = Cardinality(S) + 1
         /\ Nth(S \cup {n}, Cardinality(S) + 1) = n
         /\ \A k \in 1..Cardinality(S) : Nth(S \cup {n}, k) = Nth(S, k)
<1> DEFINE T == S \cup {n}
<1>1. T \in SUBSET Nat /\ n \in T /\ n \notin S
  <2>1. ~(n < n) OBVIOUS
  <2> QED BY <2>1
<1>2. IsFiniteSet(T) /\ Cardinality(T) = Cardinality(S) + 1 BY <1>1, FS_AddElement
<1>3. Rank(T, n) = Cardinality(T)
  <2>1. \A m \in T : m <= n OBVIOUS
  <2>2. {m \in T : m <= n} = T BY <2>1
  <2> QED BY <2>2 DEF Rank
<1>4. \A m \in S : Rank(T, m) = Rank(S, m)
  <2> SUFFICES ASSUME NEW m \in S PROVE Rank(T, m) = Rank(S, m) OBVIOUS
  <2>1. ~(n <= m) OBVIOUS
  <2>2. {x \in T : x <= m} = {x \in S : x <= m} BY <2>1
  <2> QED BY <2>2 DEF Rank
<1> HIDE DEF T
<1>5. Nth(T, Rank(T, n)) = n BY <1>1, <1>2, NthOfRank
<1>6. ASSUME NEW k \in 1..Cardinality(S) PROVE Nth(T, k) = Nth(S, k)
  <2>1. Nth(S, k) \in S /\ Rank(S, Nth(S, k)) = k BY NthFound
  <2>2. Rank(T, Nth(S, k)) = k /\ Nth(S, k) \in T BY <1>4, <2>1 DEF T
  <2>3. Nth(T, Rank(T, Nth(S, k))) = Nth(S, k) BY <1>1, <1>2, <2>2, NthOfRank
  <2> QED BY <2>2, <2>3
<1>7. Nth(T, Cardinality(S) + 1) = n BY <1>2, <1>3, <1>5
<1> QED BY <1>2, <1>6, <1>7 DEF T
=============================================================================
