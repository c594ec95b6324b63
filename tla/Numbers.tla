-------------------------------- MODULE Numbers ---------------------------------
(***************************************************************************)
(* Facts about natural numbers that the proofs share: a set of them has a  *)
(* least one, which is what every induction here rests on, and elements    *)
(* with different keys have ranks without gaps, by which the modules say   *)
(* what a sorted sequence is.                                              *)
(***************************************************************************)
EXTENDS Naturals, FiniteSetTheorems, WellFoundedInduction, TLAPS

\* Every set of natural numbers has a least one.
LEMMA LeastNat ==
  ASSUME NEW T \in SUBSET Nat, T # {}
  PROVE  \E n \in T : \A m \in T : n <= m
<1>1. PICK t \in T : TRUE
  OBVIOUS
<1> DEFINE Down == {0..m : m \in {n \in T : n <= t}}
<1>2. Down \subseteq SUBSET (0..t) /\ Down # {}
  <2>1. 0..t \in Down
    BY <1>1
  <2>2. \A m \in {n \in T : n <= t} : 0..m \subseteq 0..t
    BY <1>1
  <2> QED
    BY <2>1, <2>2
<1>3. IsWellFoundedOn(StrictSubsetOrdering(0..t), SUBSET (0..t))
  <2>1. IsFiniteSet(0..t)
    BY <1>1, FS_Interval
  <2>2. FiniteSubsetsOf(0..t) = SUBSET (0..t)
    BY <2>1, FS_FiniteSubsetsOfFinite
  <2> QED
    BY <2>2, FS_StrictSubsetOrderingWellFounded
<1>4. PICK X \in Down : \A Y \in Down : ~(<<Y, X>> \in StrictSubsetOrdering(0..t))
  <2> HIDE DEF Down
  <2> QED
    BY <1>2, <1>3, WFMin, Zenon
<1>5. PICK n \in T : n <= t /\ X = 0..n
  BY <1>4
<1>6. ASSUME NEW m \in T, m < n PROVE FALSE
  <2>1. 0..m \in Down
    BY <1>1, <1>5, <1>6
  <2>2. 0..m \subseteq 0..n /\ 0..m # 0..n
    BY <1>6
  <2>3. <<0..m, 0..n>> \in StrictSubsetOrdering(0..t)
    BY <1>2, <1>4, <1>5, <2>1, <2>2 DEF StrictSubsetOrdering
  <2> QED
    BY <1>4, <1>5, <2>1, <2>3
<1> QED
  BY <1>5, <1>6

\* The elements of S whose key is smaller than that of i.
Lower(K, S, i) == {j \in S : K[j] < K[i]}

LEMMA LowerFinite ==
  ASSUME NEW S, IsFiniteSet(S), NEW K, NEW i
  PROVE  IsFiniteSet(Lower(K, S, i)) /\ Cardinality(Lower(K, S, i)) \in Nat
<1>1. Lower(K, S, i) \subseteq S
  BY DEF Lower
<1> QED
  BY <1>1, FS_Subset, FS_CardinalityType

\* A greater key has a greater rank.
LEMMA RankGrows ==
  ASSUME NEW S, IsFiniteSet(S), NEW K \in [S -> Nat], NEW i \in S, NEW j \in S, K[i] < K[j]
  PROVE  Cardinality(Lower(K, S, i)) < Cardinality(Lower(K, S, j))
<1> DEFINE A == Lower(K, S, i)
           B == Lower(K, S, j)
<1>1. IsFiniteSet(A) /\ IsFiniteSet(B) /\ Cardinality(A) \in Nat /\ Cardinality(B) \in Nat
  BY LowerFinite
<1>2. i \notin A /\ A \cup {i} \subseteq B
  BY DEF Lower
<1> HIDE DEF A, B
<1>3. Cardinality(A \cup {i}) = Cardinality(A) + 1
  BY <1>1, <1>2, FS_AddElement
<1>4. Cardinality(A \cup {i}) <= Cardinality(B)
  BY <1>1, <1>2, FS_Subset
<1>5. Cardinality(A) < Cardinality(B)
  BY <1>1, <1>3, <1>4
<1> QED
  BY <1>5 DEF A, B

\* With different keys, every rank below the number of elements is taken.
LEMMA RankTaken ==
  ASSUME NEW S, IsFiniteSet(S), NEW K \in [S -> Nat],
         \A i, j \in S : K[i] = K[j] => i = j,
         NEW k \in Nat, k < Cardinality(S)
  PROVE  \E i \in S : Cardinality(Lower(K, S, i)) = k
<1> DEFINE Rank(i) == Cardinality(Lower(K, S, i))
           Gaps == {n \in Nat : n < Cardinality(S) /\ \A i \in S : Rank(i) # n}
<1>1. Cardinality(S) \in Nat /\ \A i \in S : Rank(i) \in Nat /\ IsFiniteSet(Lower(K, S, i))
  BY FS_CardinalityType, LowerFinite
<1>2. SUFFICES ASSUME Gaps # {} PROVE FALSE
  OBVIOUS
<1>3. PICK n \in Gaps : \A m \in Gaps : n <= m
  <2> HIDE DEF Gaps
  <2>1. Gaps \in SUBSET Nat
    BY DEF Gaps
  <2> QED
    BY <1>2, <2>1, LeastNat
<1>4. n \in Nat /\ n < Cardinality(S) /\ \A i \in S : Rank(i) # n
  BY <1>3
<1> DEFINE U == {i \in S : Rank(i) >= n}
<1>5. ASSUME NEW V \in SUBSET S, V # {} PROVE \E u \in V : \A v \in V : K[u] <= K[v]
  <2>1. {K[v] : v \in V} \in SUBSET Nat /\ {K[v] : v \in V} # {}
    BY <1>5
  <2>2. PICK x \in {K[v] : v \in V} : \A y \in {K[v] : v \in V} : x <= y
    BY <2>1, LeastNat
  <2> QED
    BY <2>2
<1>6. ASSUME NEW u \in U, \A v \in U : K[u] <= K[v], Rank(u) <= n PROVE FALSE
  BY <1>1, <1>4, <1>6
<1>7. CASE n = 0
  <2>1. S # {}
    BY <1>4, <1>7, FS_EmptySet
  <2>2. U = S
    BY <1>1, <1>7
  <2>3. PICK u \in U : \A v \in U : K[u] <= K[v]
    <3> HIDE DEF U
    <3> QED
      BY <1>5, <2>1, <2>2
  <2>4. Lower(K, S, u) = {}
    <3>1. \A v \in S : K[u] <= K[v] /\ K[v] \in Nat /\ K[u] \in Nat
      BY <2>2, <2>3
    <3> QED
      BY ONLY <3>1 DEF Lower
  <2>5. Rank(u) = 0
    BY <2>4, FS_EmptySet
  <2> QED
    BY <1>1, <1>4, <1>7, <2>3, <2>5
<1>8. CASE n # 0
  <2>1. n - 1 \in Nat /\ n - 1 \notin Gaps /\ n - 1 < Cardinality(S)
    BY <1>1, <1>3, <1>4, <1>8
  <2>2. PICK t \in S : Rank(t) = n - 1
    BY <2>1
  <2> DEFINE L == Lower(K, S, t) \cup {t}
  <2>3. IsFiniteSet(L) /\ Cardinality(L) = n /\ L \subseteq S
    <3>1. t \notin Lower(K, S, t) /\ Lower(K, S, t) \subseteq S /\ IsFiniteSet(Lower(K, S, t))
      BY <1>1 DEF Lower
    <3>2. IsFiniteSet(L) /\ Cardinality(L) = Rank(t) + 1
      BY <3>1, FS_AddElement
    <3> QED
      BY <1>4, <2>2, <3>1, <3>2
  <2>4. PICK s \in S : s \notin L
    <3>1. L # S
      BY <1>1, <1>4, <2>3
    <3> QED
      BY <2>3, <3>1
  <2>5. K[t] < K[s]
    BY <2>4 DEF Lower
  <2>6. Rank(t) < Rank(s)
    BY <2>5, RankGrows
  <2>7. s \in U
    BY <1>1, <1>4, <2>2, <2>6
  <2>8. PICK u \in U : \A v \in U : K[u] <= K[v]
    <3>1. U \in SUBSET S /\ U # {}
      BY <2>7
    <3> HIDE DEF U
    <3> QED
      BY <1>5, <3>1
  <2>9. Lower(K, S, u) \subseteq L
    <3> SUFFICES ASSUME NEW j \in Lower(K, S, u) PROVE j \in L
      OBVIOUS
    <3>1. j \in S /\ K[j] < K[u]
      BY DEF Lower
    <3>2. j \notin U
      BY <2>8, <3>1
    <3>3. Rank(j) < n
      BY <1>1, <1>4, <3>1, <3>2
    <3>4. ~(K[t] < K[j])
      <4>1. ASSUME K[t] < K[j] PROVE FALSE
        <5>1. Rank(t) < Rank(j)
          BY <3>1, <4>1, RankGrows
        <5> QED
          BY <1>1, <1>4, <2>2, <3>1, <3>3, <5>1
      <4> QED
        BY <4>1
    <3> QED
      BY <3>1, <3>4 DEF Lower
  <2>10. Rank(u) <= n
    BY <1>1, <2>3, <2>9, FS_Subset
  <2> QED
    BY <1>1, <1>4, <2>8, <2>10
<1> QED
  BY <1>7, <1>8

\* The elements of a finite set of natural numbers in increasing order.
LEMMA Sorted ==
  ASSUME NEW D \in SUBSET Nat, IsFiniteSet(D)
  PROVE  LET n   == Cardinality(D)
             nth == [k \in 1..n |-> CHOOSE i \in D : Cardinality({j \in D : j < i}) = k - 1]
         IN  /\ n \in Nat /\ nth \in [1..n -> D]
             /\ \A i \in D : \E k \in 1..n : nth[k] = i
             /\ \A k \in 1..n : \A j \in 1..(k - 1) : nth[j] < nth[k]
<1> DEFINE K == [i \in D |-> i]
           n == Cardinality(D)
           rank(i) == Cardinality(Lower(K, D, i))
           nth(k) == CHOOSE i \in D : Cardinality({j \in D : j < i}) = k - 1
           order == [k \in 1..n |-> nth(k)]
<1>1. IsFiniteSet(D) /\ D \subseteq Nat /\ n \in Nat
  BY FS_CardinalityType
<1>2. K \in [D -> Nat] /\ \A i, j \in D : K[i] = K[j] => i = j
  BY <1>1
<1>3. \A i \in D : Lower(K, D, i) = {j \in D : j < i}
  BY DEF Lower
<1> HIDE DEF K, n
<1>5. ASSUME NEW k \in 1..n PROVE nth(k) \in D /\ rank(nth(k)) = k - 1
  <2>1. k - 1 \in Nat /\ k - 1 < Cardinality(D)
    BY <1>1 DEF n
  <2>2. \E i \in D : Cardinality(Lower(K, D, i)) = k - 1
    BY <1>1, <1>2, <2>1, RankTaken
  <2>3. \E i \in D : Cardinality({j \in D : j < i}) = k - 1
    BY <1>3, <2>2
  <2>4. nth(k) \in D /\ Cardinality({j \in D : j < nth(k)}) = k - 1
    BY <2>3
  <2> QED
    BY <1>3, <2>4
<1>6. \A i \in D : rank(i) \in Nat
  BY <1>1, LowerFinite
<1>7. ASSUME NEW i \in D, NEW j \in D, i < j PROVE rank(i) < rank(j)
  <2>1. K[i] < K[j]
    BY <1>7 DEF K
  <2> QED
    BY <1>1, <1>2, <2>1, RankGrows
<1> HIDE DEF nth
<1>8. ASSUME NEW i \in D PROVE \E k \in 1..n : nth(k) = i
  <2>1. rank(i) < n
    <3>1. i \notin Lower(K, D, i) /\ Lower(K, D, i) \in SUBSET D /\ IsFiniteSet(Lower(K, D, i))
      <4>1. ~(K[i] < K[i])
        BY <1>1 DEF K
      <4> QED
        BY <1>1, <4>1, LowerFinite DEF Lower
    <3>2. rank(i) <= n /\ (n = rank(i) => D = Lower(K, D, i))
      BY <1>1, <3>1, FS_Subset DEF n
    <3> QED
      BY <1>1, <1>6, <3>1, <3>2
  <2>2. rank(i) + 1 \in 1..n /\ (rank(i) + 1) - 1 = rank(i)
    BY <1>1, <1>6, <2>1
  <2> DEFINE k == rank(i) + 1
  <2>3. nth(k) \in D /\ rank(nth(k)) = rank(i)
    BY <1>5, <2>2
  <2>4. ~(nth(k) < i) /\ ~(i < nth(k))
    <3>1. rank(i) \in Nat /\ ~(rank(i) < rank(i))
      BY <1>6
    <3> HIDE DEF k, rank
    <3> QED
      BY <1>7, <2>3, <3>1
  <2> HIDE DEF k, rank
  <2>5. nth(k) = i
    <3>1. nth(k) \in Nat /\ i \in Nat
      BY <1>1, <2>3
    <3> QED
      BY ONLY <2>4, <3>1
  <2> QED
    BY <2>2, <2>5 DEF k
<1>9. ASSUME NEW k \in 1..n, NEW j \in 1..(k - 1) PROVE nth(j) < nth(k)
  <2>1. j \in 1..n /\ j - 1 < k - 1
    BY <1>1
  <2>2. nth(j) \in D /\ nth(k) \in D /\ rank(nth(j)) = j - 1 /\ rank(nth(k)) = k - 1
    BY <1>5, <2>1
  <2>3. ~(rank(nth(k)) < rank(nth(j))) /\ nth(j) # nth(k)
    BY <1>1, <2>1, <2>2
  <2> HIDE DEF rank
  <2>4. ~(nth(k) < nth(j))
    BY <1>7, <2>2, <2>3
  <2>5. nth(j) \in Nat /\ nth(k) \in Nat /\ nth(j) # nth(k)
    BY <1>1, <2>2, <2>3
  <2> QED
    BY ONLY <2>4, <2>5
<1>10. order \in [1..n -> D] /\ \A k \in 1..n : order[k] = nth(k)
  BY <1>5
<1>11. n \in Nat /\ (\A i \in D : \E k \in 1..n : order[k] = i)
         /\ (\A k \in 1..n : \A j \in 1..(k - 1) : order[j] < order[k])
  BY <1>1, <1>8, <1>9, <1>10
<1> QED
  BY <1>10, <1>11 DEF n, nth
=================================================================================
