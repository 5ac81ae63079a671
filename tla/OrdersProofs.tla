---------------------------- MODULE OrdersProofs ----------------------------
(***************************************************************************)
(* Lemmas about the elements of a finite set in an order.  An element has  *)
(* as many before it as its rank says, and ranks differ, so that they are  *)
(* 0 to n - 1: there is a sequence by rank, it is in order, and no other   *)
(* is.                                                                     *)
(***************************************************************************)
EXTENDS Orders, FiniteSetTheorems, FunctionTheorems, TLAPS

\* Every set of numbers has a least one: what induction needs, of a set.
LEMMA LeastNumber ==
    ASSUME NEW T \in SUBSET Nat, T # {}
    PROVE  \E n \in T : \A m \in T : n <= m
<1> DEFINE less == OpToRel(<, Nat)
<1>1. IsWellFoundedOn(less, Nat)
  BY NatLessThanWellFounded
<1>2. \A a, b \in Nat : <<a, b>> \in less <=> a < b
  BY DEF OpToRel
<1> HIDE DEF less
<1>3. PICK n \in T : \A m \in T : <<m, n>> \notin less
  BY <1>1, WFMin
<1>4. \A m \in T : n \in Nat /\ m \in Nat /\ ~(m < n)
  BY <1>2, <1>3
<1> QED
  BY <1>4

\* Induction over the numbers of a set.
LEMMA Induction ==
    ASSUME NEW T, 0 \in T, \A n \in Nat : n \in T => n + 1 \in T
    PROVE  Nat \subseteq T
<1> SUFFICES ASSUME Nat \ T # {}
             PROVE  FALSE
  OBVIOUS
<1>1. PICK n \in Nat \ T : \A m \in Nat \ T : n <= m
  BY LeastNumber
<1>2. n # 0
  OBVIOUS
<1>3. n - 1 \in Nat /\ ~(n <= n - 1)
  BY <1>2
<1>4. n - 1 \in T
  BY <1>1, <1>3
<1> QED
  BY <1>3, <1>4

LEMMA RanksDiffer ==
    ASSUME NEW S, IsFiniteSet(S), NEW before, IsStrictOrder(before, S),
           NEW a \in S, NEW b \in S, <<a, b>> \in before
    PROVE  Rank(a, S, before) < Rank(b, S, before)
<1> DEFINE A == Ahead(a, S, before)
           B == Ahead(b, S, before)
<1>1. A \in SUBSET B /\ a \in B /\ a \notin A
  BY DEF Ahead, IsStrictOrder
<1>2. B \in SUBSET S
  BY DEF Ahead
<1> HIDE DEF A, B
<1>3. IsFiniteSet(B)
  BY <1>2, FS_Subset
<1>4. /\ IsFiniteSet(A) /\ Cardinality(A) <= Cardinality(B)
      /\ Cardinality(B) = Cardinality(A) => B = A
  BY <1>1, <1>3, FS_Subset
<1>5. Cardinality(A) \in Nat /\ Cardinality(B) \in Nat
  BY <1>3, <1>4, FS_CardinalityType
<1>6. Cardinality(A) < Cardinality(B)
  BY <1>1, <1>4, <1>5
<1> QED
  BY <1>6 DEF A, B, Rank

LEMMA RankIsBounded ==
    ASSUME NEW S, IsFiniteSet(S), NEW before, IsStrictOrder(before, S), NEW a \in S
    PROVE  Rank(a, S, before) \in 0..(Cardinality(S) - 1)
<1> DEFINE A == Ahead(a, S, before)
<1>1. A \in SUBSET S /\ a \notin A
  BY DEF Ahead, IsStrictOrder
<1>2. /\ IsFiniteSet(A) /\ Cardinality(A) <= Cardinality(S)
      /\ Cardinality(S) = Cardinality(A) => S = A
  BY <1>1, FS_Subset
<1>3. Cardinality(A) \in Nat /\ Cardinality(S) \in Nat
  BY <1>2, FS_CardinalityType
<1>4. Cardinality(A) \in 0..(Cardinality(S) - 1)
  BY <1>1, <1>2, <1>3
<1> QED
  BY <1>4 DEF Rank

\* Each rank below the number of elements is that of an element.
LEMMA RanksAreAll ==
    ASSUME NEW S, IsFiniteSet(S), NEW before, IsStrictOrder(before, S),
           NEW k \in 0..(Cardinality(S) - 1)
    PROVE  \E a \in S : Rank(a, S, before) = k
<1> DEFINE n == Cardinality(S)
           rank == [a \in S |-> Rank(a, S, before)]
<1>1. n \in Nat
  BY FS_CardinalityType
<1>2. rank \in [S -> 0..(n - 1)]
  BY RankIsBounded
<1>3. \A a, b \in S : rank[a] = rank[b] => a = b
  <2> SUFFICES ASSUME NEW a \in S, NEW b \in S, a # b
               PROVE  rank[a] # rank[b]
    OBVIOUS
  <2>1. CASE <<a, b>> \in before
    <3>1. Rank(a, S, before) < Rank(b, S, before)
      BY <2>1, RanksDiffer
    <3> QED
      BY <1>1, <1>2, <3>1
  <2>2. CASE <<b, a>> \in before
    <3>1. Rank(b, S, before) < Rank(a, S, before)
      BY <2>2, RanksDiffer
    <3> QED
      BY <1>1, <1>2, <3>1
  <2> QED
    BY <2>1, <2>2 DEF IsStrictOrder
<1>4. rank \in Injection(S, 0..(n - 1))
  <2> HIDE DEF rank
  <2> QED
    BY <1>2, <1>3, Fun_IsInj
<1>5. IsFiniteSet(0..(n - 1)) /\ Cardinality(0..(n - 1)) = n
  <2>1. \A m \in Int : IsFiniteSet(0..m) /\ Cardinality(0..m) = IF 0 > m THEN 0 ELSE m - 0 + 1
    BY FS_Interval
  <2> QED
    BY <1>1, <2>1
<1>6. rank \in Surjection(S, 0..(n - 1))
  <2> HIDE DEF rank
  <2> QED
    BY <1>4, <1>5, FS_Injection
<1>7. \A i \in 0..(n - 1) : \E a \in S : rank[a] = i
  <2> HIDE DEF rank
  <2> QED
    BY <1>6 DEF Surjection
<1> QED
  BY <1>7

\* A sequence of the elements of S in which nothing stands behind what it comes
\* before: it has every element, and each where its rank says.
IsInOrder(seq, S, before) ==
    /\ seq \in [1..Cardinality(S) -> S]
    /\ \A i, j \in 1..Cardinality(S) : i < j => <<seq[i], seq[j]>> \in before

LEMMA PlaceIsRank ==
    ASSUME NEW S, IsFiniteSet(S), NEW before, IsStrictOrder(before, S),
           NEW seq, IsInOrder(seq, S, before)
    PROVE  /\ \A a \in S : \E i \in 1..Cardinality(S) : seq[i] = a
           /\ \A i \in 1..Cardinality(S) : Rank(seq[i], S, before) = i - 1
<1> DEFINE n == Cardinality(S)
<1>1. n \in Nat
  BY FS_CardinalityType
<1>2. seq \in [1..n -> S] /\ \A i, j \in 1..n : i < j => <<seq[i], seq[j]>> \in before
  BY DEF IsInOrder
<1>3. \A i, j \in 1..n : i # j => seq[i] # seq[j]
  <2> SUFFICES ASSUME NEW i \in 1..n, NEW j \in 1..n, i < j
               PROVE  seq[i] # seq[j]
    BY <1>1
  <2> QED
    BY <1>2 DEF IsStrictOrder
<1>4. IsFiniteSet(1..n) /\ Cardinality(1..n) = n
  <2>1. \A m \in Int : IsFiniteSet(1..m) /\ Cardinality(1..m) = IF 1 > m THEN 0 ELSE m - 1 + 1
    BY FS_Interval
  <2> QED
    BY <1>1, <2>1
<1>5. seq \in Injection(1..n, S)
  BY <1>2, <1>3, Fun_IsInj
<1>6. seq \in Surjection(1..n, S)
  BY <1>4, <1>5, FS_Injection
<1>7. \A a \in S : \E i \in 1..n : seq[i] = a
  BY <1>6 DEF Surjection
<1>8. ASSUME NEW i \in 1..n
      PROVE  Rank(seq[i], S, before) = i - 1
  <2> DEFINE first == [j \in 1..(i - 1) |-> seq[j]]
             A == Ahead(seq[i], S, before)
  <2>1. \A j \in 1..n : seq[j] \in A <=> j < i
    <3> SUFFICES ASSUME NEW j \in 1..n
                 PROVE  <<seq[j], seq[i]>> \in before <=> j < i
      BY <1>2 DEF Ahead
    <3>1. j < i => <<seq[j], seq[i]>> \in before
      BY <1>2
    <3>2. j > i => <<seq[i], seq[j]>> \in before
      BY <1>2
    <3>3. seq[i] \in S /\ seq[j] \in S
      BY <1>2
    <3>4. CASE j = i
      BY <3>3, <3>4 DEF IsStrictOrder
    <3>5. CASE j > i
      <4>1. \A a, b \in S : <<a, b>> \in before => <<b, a>> \notin before
        BY DEF IsStrictOrder
      <4>2. <<seq[j], seq[i]>> \notin before
        BY <3>2, <3>3, <3>5, <4>1
      <4>3. i \in Int /\ j \in Int /\ ~(j < i)
        BY <1>1, <3>5
      <4> QED
        BY <4>2, <4>3
    <3>6. CASE j < i
      BY <3>1, <3>6
    <3> QED
      BY <1>1, <3>4, <3>5, <3>6
  <2>2. first \in [1..(i - 1) -> A]
    BY <1>1, <2>1
  <2>3. \A j, k \in 1..(i - 1) : first[j] = first[k] => j = k
    BY <1>1, <1>3
  <2>4. \A a \in A : \E j \in 1..(i - 1) : first[j] = a
    <3> SUFFICES ASSUME NEW a \in A
                 PROVE  \E j \in 1..(i - 1) : seq[j] = a
      OBVIOUS
    <3>1. PICK j \in 1..n : seq[j] = a
      BY <1>7 DEF Ahead
    <3>2. j \in 1..(i - 1)
      BY <1>1, <2>1, <3>1
    <3> QED
      BY <3>1, <3>2
  <2>5. ExistsBijection(1..(i - 1), A)
    <3> HIDE DEF first, A
    <3>1. first \in Injection(1..(i - 1), A)
      BY <2>2, <2>3, Fun_IsInj
    <3>2. first \in Surjection(1..(i - 1), A)
      BY <2>2, <2>4, Fun_IsSurj
    <3> QED
      BY <3>1, <3>2 DEF ExistsBijection, Bijection
  <2>6. i - 1 \in Nat
    BY <1>1
  <2>7. Cardinality(A) = i - 1
    <3> HIDE DEF A
    <3> QED
      BY <2>5, <2>6, FS_CountingElements
  <2> QED
    BY <2>7 DEF Rank
<1> QED
  BY <1>7, <1>8

\* There is such a sequence: InOrder is one.
LEMMA InOrderIsInOrder ==
    ASSUME NEW S, IsFiniteSet(S), NEW before, IsStrictOrder(before, S)
    PROVE  IsInOrder(InOrder(S, before), S, before)
<1> DEFINE n == Cardinality(S)
           byRank == [i \in 1..n |-> CHOOSE a \in S : Rank(a, S, before) = i - 1]
           Fits(seq) == \A i, j \in DOMAIN seq :
                          i < j => seq[i] # seq[j] /\ <<seq[j], seq[i]>> \notin before
<1>1. n \in Nat
  BY FS_CardinalityType
<1>2. \A i \in 1..n : byRank[i] \in S /\ Rank(byRank[i], S, before) = i - 1
  <2> SUFFICES ASSUME NEW i \in 1..n
               PROVE  byRank[i] \in S /\ Rank(byRank[i], S, before) = i - 1
    OBVIOUS
  <2>1. i - 1 \in 0..(n - 1)
    BY <1>1
  <2>2. \E a \in S : Rank(a, S, before) = i - 1
    BY <2>1, RanksAreAll
  <2> QED
    BY <2>2
<1>3. byRank \in [1..n -> S]
  BY <1>2
<1>4. Fits(byRank)
  <2> SUFFICES ASSUME NEW i \in 1..n, NEW j \in 1..n, i < j
               PROVE  byRank[i] # byRank[j] /\ <<byRank[j], byRank[i]>> \notin before
    BY <1>3
  <2> HIDE DEF byRank
  <2>1. /\ byRank[i] \in S /\ byRank[j] \in S
        /\ Rank(byRank[i], S, before) = i - 1 /\ Rank(byRank[j], S, before) = j - 1
    BY <1>2
  <2>2. i \in Int /\ j \in Int /\ i - 1 # j - 1 /\ ~(j - 1 < i - 1)
    BY <1>1
  <2>3. <<byRank[j], byRank[i]>> \in before => j - 1 < i - 1
    BY <2>1, RanksDiffer
  <2> QED
    BY <2>1, <2>2, <2>3
<1>5. \E seq \in [1..n -> S] : Fits(seq)
  BY <1>3, <1>4
<1>6. InOrder(S, before) \in [1..n -> S] /\ Fits(InOrder(S, before))
  BY <1>5 DEF InOrder
<1> HIDE DEF Fits, byRank
<1>7. ASSUME NEW i \in 1..n, NEW j \in 1..n, i < j
      PROVE  <<InOrder(S, before)[i], InOrder(S, before)[j]>> \in before
  <2> DEFINE seq == InOrder(S, before)
  <2>1. seq[i] \in S /\ seq[j] \in S /\ seq[i] # seq[j] /\ <<seq[j], seq[i]>> \notin before
    BY <1>6, <1>7 DEF Fits
  <2> HIDE DEF seq
  <2>2. <<seq[i], seq[j]>> \in before
    BY <2>1 DEF IsStrictOrder
  <2> QED
    BY <2>2 DEF seq
<1> QED
  BY <1>6, <1>7 DEF IsInOrder

\* It is the only one.
LEMMA InOrderIsUnique ==
    ASSUME NEW S, IsFiniteSet(S), NEW before, IsStrictOrder(before, S),
           NEW seq, IsInOrder(seq, S, before)
    PROVE  seq = InOrder(S, before)
<1> DEFINE n == Cardinality(S)
           other == InOrder(S, before)
<1>1. IsInOrder(other, S, before)
  BY InOrderIsInOrder
<1> HIDE DEF other
<1>2. seq \in [1..n -> S] /\ other \in [1..n -> S]
  BY <1>1 DEF IsInOrder
<1>3. ASSUME NEW i \in 1..n
      PROVE  seq[i] = other[i]
  <2>1. Rank(seq[i], S, before) = Rank(other[i], S, before)
    BY <1>1, PlaceIsRank
  <2>2. seq[i] \in S /\ other[i] \in S
    BY <1>2
  <2>3. /\ Rank(seq[i], S, before) \in 0..(n - 1) /\ n \in Nat
        /\ <<seq[i], other[i]>> \in before =>
             Rank(seq[i], S, before) < Rank(other[i], S, before)
        /\ <<other[i], seq[i]>> \in before =>
             Rank(other[i], S, before) < Rank(seq[i], S, before)
    BY <2>2, RanksDiffer, RankIsBounded, FS_CardinalityType
  <2>4. \A r \in 0..(n - 1) : n \in Nat => ~(r < r)
    OBVIOUS
  <2> QED
    BY <2>1, <2>2, <2>3, <2>4 DEF IsStrictOrder
<1>4. seq = [i \in 1..n |-> seq[i]] /\ other = [i \in 1..n |-> other[i]]
  BY <1>2
<1>5. seq = other
  <2> HIDE DEF n
  <2> QED
    BY <1>3, <1>4
<1> QED
  BY <1>5 DEF other

\* What InOrder returns: every element once, in order.
LEMMA InOrderProperties ==
    ASSUME NEW S, IsFiniteSet(S), NEW before, IsStrictOrder(before, S)
    PROVE  /\ Cardinality(S) \in Nat
           /\ InOrder(S, before) \in [1..Cardinality(S) -> S]
           /\ \A i, j \in 1..Cardinality(S) :
                /\ <<InOrder(S, before)[i], InOrder(S, before)[j]>> \in before <=> i < j
                /\ InOrder(S, before)[i] = InOrder(S, before)[j] => i = j
           /\ \A a \in S : \E i \in 1..Cardinality(S) : InOrder(S, before)[i] = a
<1> DEFINE n == Cardinality(S)
           seq == InOrder(S, before)
<1>1. IsInOrder(seq, S, before) /\ n \in Nat
  BY InOrderIsInOrder, FS_CardinalityType
<1> HIDE DEF seq
<1>2. seq \in [1..n -> S] /\ \A a \in S : \E i \in 1..n : seq[i] = a
  BY <1>1, PlaceIsRank DEF IsInOrder
<1>3. ASSUME NEW i \in 1..n, NEW j \in 1..n
      PROVE  /\ <<seq[i], seq[j]>> \in before <=> i < j
             /\ seq[i] = seq[j] => i = j
  <2>1. seq[i] \in S /\ seq[j] \in S
    BY <1>2
  <2>2. Rank(seq[i], S, before) = i - 1 /\ Rank(seq[j], S, before) = j - 1
    BY <1>1, PlaceIsRank
  <2>3. <<seq[i], seq[j]>> \in before => i - 1 < j - 1
    BY <2>1, <2>2, RanksDiffer
  <2>4. i < j => <<seq[i], seq[j]>> \in before
    BY <1>1 DEF IsInOrder
  <2>5. i \in Int /\ j \in Int
    BY <1>1
  <2> QED
    BY <2>2, <2>3, <2>4, <2>5
<1> QED
  BY <1>1, <1>2, <1>3 DEF seq

LEMMA SubsetOrder ==
    ASSUME NEW S, NEW before, IsStrictOrder(before, S), NEW T \in SUBSET S
    PROVE  IsStrictOrder(before, T)
BY DEF IsStrictOrder

\* The elements of rank below k, in order, are the first k.
LEMMA FirstInOrder ==
    ASSUME NEW S, IsFiniteSet(S), NEW before, IsStrictOrder(before, S),
           NEW k \in 0..Cardinality(S)
    PROVE  InOrder({a \in S : Rank(a, S, before) < k}, before)
             = [i \in 1..k |-> InOrder(S, before)[i]]
<1> DEFINE n == Cardinality(S)
           seq == InOrder(S, before)
           T == {a \in S : Rank(a, S, before) < k}
           first == [i \in 1..k |-> seq[i]]
<1>1. /\ n \in Nat /\ seq \in [1..n -> S]
      /\ \A i, j \in 1..n : /\ <<seq[i], seq[j]>> \in before <=> i < j
                            /\ seq[i] = seq[j] => i = j
      /\ \A a \in S : \E i \in 1..n : seq[i] = a
  BY InOrderProperties
<1>2. \A i \in 1..n : Rank(seq[i], S, before) = i - 1
  BY InOrderIsInOrder, PlaceIsRank
<1> HIDE DEF seq
<1>3. \A i \in 1..n : seq[i] \in T <=> i <= k
  BY <1>1, <1>2
<1>4. IsFiniteSet(T) /\ IsStrictOrder(before, T)
  <2>1. T \in SUBSET S
    OBVIOUS
  <2> QED
    BY <2>1, FS_Subset, SubsetOrder
<1>5. first \in [1..k -> T] /\ k \in Nat
  BY <1>1, <1>3
<1>6. \A i, j \in 1..k : first[i] = first[j] => i = j
  <2>1. \A i \in 1..k : i \in 1..n
    BY <1>1
  <2> QED
    BY <1>1, <2>1
<1>7. \A a \in T : \E i \in 1..k : first[i] = a
  <2> SUFFICES ASSUME NEW a \in T
               PROVE  \E i \in 1..k : seq[i] = a
    OBVIOUS
  <2>1. PICK i \in 1..n : seq[i] = a
    BY <1>1
  <2>2. i \in 1..k
    BY <1>1, <1>3, <2>1
  <2> QED
    BY <2>1, <2>2
<1>8. Cardinality(T) = k
  <2> HIDE DEF first, T
  <2>1. first \in Injection(1..k, T) /\ first \in Surjection(1..k, T)
    BY <1>5, <1>6, <1>7, Fun_IsInj, Fun_IsSurj
  <2>2. ExistsBijection(1..k, T)
    BY <2>1 DEF ExistsBijection, Bijection
  <2> QED
    BY <1>5, <2>2, FS_CountingElements
<1>9. IsInOrder(first, T, before)
  <2>1. \A i, j \in 1..k : i < j => <<first[i], first[j]>> \in before
    BY <1>1
  <2> HIDE DEF T, first
  <2> QED
    BY <1>5, <1>8, <2>1 DEF IsInOrder
<1>10. first = InOrder(T, before)
  <2> HIDE DEF T, first
  <2> QED
    BY <1>4, <1>9, InOrderIsUnique
<1> QED
  BY <1>10 DEF seq

LEMMA NumbersAreOrdered == ASSUME NEW S \in SUBSET Int PROVE IsStrictOrder(Less(S), S)
BY DEF IsStrictOrder, Less

\* The same for numbers, whatever larger set they are taken from.
LEMMA AscendingProperties ==
    ASSUME NEW S \in SUBSET Int, IsFiniteSet(S)
    PROVE  /\ Cardinality(S) \in Nat
           /\ Ascending(S) \in [1..Cardinality(S) -> S]
           /\ \A i, j \in 1..Cardinality(S) : Ascending(S)[i] < Ascending(S)[j] <=> i < j
           /\ \A i, j \in 1..Cardinality(S) : Ascending(S)[i] = Ascending(S)[j] => i = j
           /\ \A a \in S : \E i \in 1..Cardinality(S) : Ascending(S)[i] = a
<1> DEFINE n == Cardinality(S)
           seq == InOrder(S, Less(S))
<1>1. /\ n \in Nat /\ seq \in [1..n -> S]
      /\ \A i, j \in 1..n : /\ <<seq[i], seq[j]>> \in Less(S) <=> i < j
                            /\ seq[i] = seq[j] => i = j
      /\ \A a \in S : \E i \in 1..n : seq[i] = a
  BY NumbersAreOrdered, InOrderProperties
<1> HIDE DEF seq
<1>2. ASSUME NEW i \in 1..n, NEW j \in 1..n
      PROVE  seq[i] < seq[j] <=> i < j
  <2>1. seq[i] \in S /\ seq[j] \in S
    BY <1>1
  <2>2. <<seq[i], seq[j]>> \in Less(S) <=> seq[i] < seq[j]
    BY <2>1 DEF Less
  <2> QED
    BY <1>1, <2>2
<1> QED
  BY <1>1, <1>2 DEF seq, Ascending

\* A sequence that ascends is the elements it has in order.
LEMMA AscendingIsUnique ==
    ASSUME NEW S \in SUBSET Int, NEW n \in Nat, NEW seq \in [1..n -> S],
           \A i, j \in 1..n : i < j => seq[i] < seq[j],
           \A a \in S : \E i \in 1..n : seq[i] = a
    PROVE  IsFiniteSet(S) /\ Cardinality(S) = n /\ seq = Ascending(S)
<1>1. \A i, j \in 1..n : seq[i] = seq[j] => i = j
  <2> SUFFICES ASSUME NEW i \in 1..n, NEW j \in 1..n, i < j
               PROVE  seq[i] # seq[j]
    OBVIOUS
  <2>1. seq[i] < seq[j] /\ seq[i] \in Int /\ seq[j] \in Int
    OBVIOUS
  <2> QED
    BY <2>1
<1>2. seq \in Injection(1..n, S) /\ seq \in Surjection(1..n, S)
  BY <1>1, Fun_IsInj, Fun_IsSurj
<1>3. ExistsBijection(1..n, S)
  BY <1>2 DEF ExistsBijection, Bijection
<1>4. IsFiniteSet(S) /\ Cardinality(S) = n
  BY <1>3, FS_CountingElements, FS_NatBijection
<1>5. \A i, j \in 1..n : i < j => <<seq[i], seq[j]>> \in Less(S)
  BY DEF Less
<1>6. IsInOrder(seq, S, Less(S))
  BY <1>4, <1>5 DEF IsInOrder
<1> QED
  BY <1>4, <1>6, NumbersAreOrdered, InOrderIsUnique DEF Ascending

\* A number beyond all others comes last.
LEMMA LastAscending ==
    ASSUME NEW S \in SUBSET Int, IsFiniteSet(S), NEW m \in Int, \A a \in S : a < m
    PROVE  /\ Cardinality(S) \in Nat /\ Cardinality(S \union {m}) = Cardinality(S) + 1
           /\ Ascending(S \union {m}) =
                [i \in 1..(Cardinality(S) + 1) |->
                   IF i <= Cardinality(S) THEN Ascending(S)[i] ELSE m]
<1> DEFINE n == Cardinality(S)
           old == Ascending(S)
           new == [i \in 1..(n + 1) |-> IF i <= n THEN old[i] ELSE m]
<1>1. /\ n \in Nat /\ old \in [1..n -> S]
      /\ \A i, j \in 1..n : old[i] < old[j] <=> i < j
      /\ \A a \in S : \E i \in 1..n : old[i] = a
  BY AscendingProperties
<1> HIDE DEF old
<1>2. new \in [1..(n + 1) -> S \union {m}]
  BY <1>1
<1>3. \A i, j \in 1..(n + 1) : i < j => new[i] < new[j]
  <2> SUFFICES ASSUME NEW i \in 1..(n + 1), NEW j \in 1..(n + 1), i < j
               PROVE  new[i] < new[j]
    OBVIOUS
  <2>1. i \in 1..n /\ new[i] = old[i] /\ old[i] \in S
    BY <1>1
  <2>2. CASE j <= n
    BY <1>1, <2>1, <2>2
  <2>3. CASE ~(j <= n)
    BY <2>1, <2>3
  <2> QED
    BY <2>2, <2>3
<1>4. \A a \in S \union {m} : \E i \in 1..(n + 1) : new[i] = a
  <2>1. \A i \in 1..n : i \in 1..(n + 1) /\ new[i] = old[i]
    BY <1>1
  <2>2. n + 1 \in 1..(n + 1) /\ new[n + 1] = m
    BY <1>1
  <2> HIDE DEF new
  <2> QED
    BY <1>1, <2>1, <2>2
<1>5. Cardinality(S \union {m}) = n + 1 /\ new = Ascending(S \union {m})
  <2> HIDE DEF new
  <2>1. S \union {m} \in SUBSET Int /\ n + 1 \in Nat
    BY <1>1
  <2> QED
    BY <1>2, <1>3, <1>4, <2>1, AscendingIsUnique
<1> QED
  BY <1>1, <1>5 DEF old
=============================================================================
