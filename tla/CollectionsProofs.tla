------------------------- MODULE CollectionsProofs -------------------------
(***************************************************************************)
(* Safety of Collections for contents of any size: what a loop has done at *)
(* each step is what the same loop does with a copy of its argument.       *)
(***************************************************************************)
EXTENDS Collections, OrdersProofs, SequenceTheorems

-----------------------------------------------------------------------------
(* Lists *)

LEMMA RemoveAtShifts ==
    ASSUME NEW S, NEW s \in Seq(S), NEW p \in 1..Len(s)
    PROVE  /\ RemoveAt(s, p) \in Seq(S)
           /\ Len(RemoveAt(s, p)) = Len(s) - 1
           /\ \A i \in 1..(Len(s) - 1) :
                RemoveAt(s, p)[i] = IF i < p THEN s[i] ELSE s[i + 1]
<1> DEFINE left == SubSeq(s, 1, p - 1)
           right == SubSeq(s, p + 1, Len(s))
<1>1. /\ Len(s) \in Nat /\ p \in Nat
      /\ left \in Seq(S) /\ Len(left) = p - 1 /\ \A i \in 1..(p - 1) : left[i] = s[i]
  OBVIOUS
<1>2. /\ right \in Seq(S) /\ Len(right) = Len(s) - p
      /\ \A i \in 1..(Len(s) - p) : right[i] = s[p + i]
  OBVIOUS
<1> HIDE DEF left, right
<1>3. /\ left \o right \in Seq(S) /\ Len(left \o right) = Len(s) - 1
      /\ \A i \in 1..(Len(s) - 1) :
           (left \o right)[i] = IF i <= p - 1 THEN left[i] ELSE right[i - (p - 1)]
  <2>1. /\ left \o right \in Seq(S)
        /\ Len(left \o right) = Len(left) + Len(right)
        /\ \A i \in 1..(Len(left) + Len(right)) :
             (left \o right)[i] = IF i <= Len(left) THEN left[i] ELSE right[i - Len(left)]
    BY <1>1, <1>2, ConcatProperties
  <2>2. Len(left) + Len(right) = Len(s) - 1
    BY <1>1, <1>2
  <2> QED
    BY <1>1, <2>1, <2>2
<1>4. ASSUME NEW i \in 1..(Len(s) - 1)
      PROVE  (left \o right)[i] = IF i < p THEN s[i] ELSE s[i + 1]
  <2>1. CASE i < p
    BY <1>1, <1>3, <2>1
  <2>2. CASE ~(i < p)
    <3>1. i - (p - 1) \in 1..(Len(s) - p) /\ p + (i - (p - 1)) = i + 1
      BY <1>1, <2>2
    <3> QED
      BY <1>1, <1>2, <1>3, <2>2, <3>1
  <2> QED
    BY <2>1, <2>2
<1> QED
  BY <1>3, <1>4 DEF RemoveAt, left, right

LEMMA InsertAtType ==
    ASSUME NEW S, NEW s \in Seq(S), NEW p \in 1..(Len(s) + 1), NEW t \in S
    PROVE  InsertAt(s, p, t) \in Seq(S)
<1>1. Len(s) \in Nat /\ p \in Nat /\ SubSeq(s, 1, p - 1) \in Seq(S) /\ SubSeq(s, p, Len(s)) \in Seq(S)
  OBVIOUS
<1>2. <<t>> \in Seq(S)
  OBVIOUS
<1> QED
  BY <1>1, <1>2 DEF InsertAt

LEMMA FirstIndexIsFirst ==
    ASSUME NEW S, NEW s \in Seq(S), NEW t
    PROVE  \/ /\ FirstIndex(s, t) = 0
              /\ \A i \in 1..Len(s) : s[i] # t
           \/ /\ FirstIndex(s, t) \in 1..Len(s)
              /\ s[FirstIndex(s, t)] = t
              /\ \A i \in 1..Len(s) : s[i] = t => FirstIndex(s, t) <= i
<1> DEFINE found == {i \in DOMAIN s : s[i] = t}
<1>1. DOMAIN s = 1..Len(s) /\ Len(s) \in Nat
  OBVIOUS
<1>2. CASE found = {}
  BY <1>1, <1>2 DEF FirstIndex
<1>3. CASE found # {}
  <2>1. found \in SUBSET Nat
    BY <1>1
  <2>2. \E n \in found : \A m \in found : n <= m
    BY <1>3, <2>1, LeastNumber
  <2>3. Min(found) \in found /\ \A m \in found : Min(found) <= m
    BY <2>2 DEF Min
  <2> QED
    BY <1>1, <1>3, <2>3 DEF FirstIndex
<1> QED
  BY <1>2, <1>3

LEMMA RemoveOneType ==
    ASSUME NEW S, NEW s \in Seq(S), NEW t
    PROVE  RemoveOne(s, t) \in Seq(S)
BY FirstIndexIsFirst, RemoveAtShifts DEF RemoveOne

\* The list of the elements of s at the places in P.
At(s, P) == LET places == Ascending(P) IN [i \in DOMAIN places |-> s[places[i]]]

LEMMA AtIsList ==
    ASSUME NEW S, NEW s \in Seq(S), NEW P \in SUBSET (1..Len(s))
    PROVE  /\ IsFiniteSet(P) /\ Cardinality(P) \in Nat
           /\ At(s, P) \in Seq(S) /\ Len(At(s, P)) = Cardinality(P)
           /\ At(s, P) = [i \in 1..Cardinality(P) |-> s[Ascending(P)[i]]]
<1>1. IsFiniteSet(P) /\ P \in SUBSET Int
  <2>1. IsFiniteSet(1..Len(s))
    BY FS_Interval
  <2>2. IsFiniteSet(P)
    BY <2>1, FS_Subset
  <2>3. P \in SUBSET Int
    OBVIOUS
  <2> QED
    BY <2>2, <2>3
<1>2. Cardinality(P) \in Nat /\ Ascending(P) \in [1..Cardinality(P) -> P]
  BY <1>1, AscendingProperties
<1> DEFINE n == Cardinality(P)
           places == Ascending(P)
<1> HIDE DEF n, places
<1>3. At(s, P) = [i \in 1..n |-> s[places[i]]]
  BY <1>2 DEF At, n, places
<1>4. \A i \in 1..n : s[places[i]] \in S
  <2>1. \A a \in P : s[a] \in S
    OBVIOUS
  <2> QED
    BY <1>2, <2>1 DEF n, places
<1>5. n \in Nat /\ [i \in 1..n |-> s[places[i]]] \in [1..n -> S]
  BY <1>2, <1>4 DEF n
<1>6. At(s, P) \in Seq(S) /\ Len(At(s, P)) = n
  BY <1>3, <1>5
<1> QED
  BY <1>1, <1>3, <1>5, <1>6 DEF n, places

\* A list is itself at all of its places.
LEMMA AtAll ==
    ASSUME NEW S, NEW s \in Seq(S)
    PROVE  At(s, 1..Len(s)) = s
<1> DEFINE n == Len(s)
           id == [i \in 1..n |-> i]
<1>1. n \in Nat /\ 1..n \in SUBSET Int /\ id \in [1..n -> 1..n]
  OBVIOUS
<1>2. \A i, j \in 1..n : i < j => id[i] < id[j]
  OBVIOUS
<1>3. \A a \in 1..n : \E i \in 1..n : id[i] = a
  OBVIOUS
<1>4. Cardinality(1..n) = n /\ id = Ascending(1..n)
  <2> HIDE DEF n, id
  <2> QED
    BY <1>1, <1>2, <1>3, AscendingIsUnique
<1>5. At(s, 1..n) = [i \in 1..n |-> s[id[i]]]
  BY <1>4 DEF At
<1>6. s = [i \in 1..n |-> s[i]]
  OBVIOUS
<1> QED
  BY <1>5, <1>6

\* Removing the first x of those left takes one place away, if there is one.
LEMMA RemoveOneAt ==
    ASSUME NEW S, NEW s \in Seq(S), NEW P \in SUBSET (1..Len(s)), NEW x
    PROVE  /\ (\A i \in P : s[i] # x) => RemoveOne(At(s, P), x) = At(s, P)
           /\ \A first \in P :
                s[first] = x /\ (\A i \in P : s[i] = x => first <= i)
                => RemoveOne(At(s, P), x) = At(s, P \ {first})
<1> DEFINE n == Cardinality(P)
           places == Ascending(P)
           left == At(s, P)
<1>1. /\ IsFiniteSet(P) /\ n \in Nat /\ left \in Seq(S) /\ Len(left) = n
      /\ left = [i \in 1..n |-> s[places[i]]]
  BY AtIsList
<1>2. /\ places \in [1..n -> P]
      /\ \A i, j \in 1..n : places[i] < places[j] <=> i < j
      /\ \A i, j \in 1..n : places[i] = places[j] => i = j
      /\ \A a \in P : \E i \in 1..n : places[i] = a
  BY <1>1, AscendingProperties
<1> HIDE DEF n, places, left
<1>3. \A i \in 1..n : left[i] = s[places[i]] /\ places[i] \in P /\ places[i] \in Int
  <2>1. \A a \in P : a \in Int
    OBVIOUS
  <2>2. \A i \in 1..n : places[i] \in P
    BY <1>2
  <2>3. \A i \in 1..n : left[i] = s[places[i]]
    BY <1>1
  <2> QED
    BY <2>1, <2>2, <2>3
<1>4. ASSUME \A i \in P : s[i] # x
      PROVE  RemoveOne(left, x) = left
  <2>1. \A i \in 1..Len(left) : left[i] # x
    BY <1>1, <1>3, <1>4
  <2>2. FirstIndex(left, x) = 0
    BY <1>1, <2>1, FirstIndexIsFirst
  <2> QED
    BY <2>2 DEF RemoveOne
<1>5. ASSUME NEW first \in P, s[first] = x, \A i \in P : s[i] = x => first <= i
      PROVE  RemoveOne(left, x) = At(s, P \ {first})
  <2> DEFINE p == FirstIndex(left, x)
  <2>1. PICK k \in 1..n : places[k] = first
    BY <1>2
  <2>2. p = k
    <3>1. left[k] = x
      BY <1>3, <1>5, <2>1
    <3>2. p \in 1..n /\ left[p] = x /\ p <= k
      BY <1>1, <2>1, <3>1, FirstIndexIsFirst
    <3>3. places[k] <= places[p]
      BY <1>3, <1>5, <2>1, <3>2
    <3>4. ~(p < k)
      BY <1>2, <1>3, <3>2, <3>3
    <3> QED
      BY <1>1, <3>2, <3>4
  <2> DEFINE m == n - 1
             fewer == P \ {first}
             others == [i \in 1..m |-> places[IF i < k THEN i ELSE i + 1]]
  <2>3. m \in Nat /\ \A i \in 1..m : (IF i < k THEN i ELSE i + 1) \in 1..n
    BY <1>1
  <2>4. others \in [1..m -> fewer]
    <3> SUFFICES ASSUME NEW i \in 1..m
                 PROVE  places[IF i < k THEN i ELSE i + 1] \in P \ {first}
      OBVIOUS
    <3>1. (IF i < k THEN i ELSE i + 1) # k
      BY <1>1
    <3> QED
      BY <1>2, <2>1, <2>3, <3>1
  <2>5. \A i, j \in 1..m : i < j => others[i] < others[j]
    <3> SUFFICES ASSUME NEW i \in 1..m, NEW j \in 1..m, i < j
                 PROVE  others[i] < others[j]
      OBVIOUS
    <3>1. (IF i < k THEN i ELSE i + 1) < (IF j < k THEN j ELSE j + 1)
      BY <1>1
    <3> QED
      BY <1>2, <2>3, <3>1
  <2>6. \A a \in fewer : \E i \in 1..m : others[i] = a
    <3> SUFFICES ASSUME NEW a \in fewer
                 PROVE  \E i \in 1..m : others[i] = a
      OBVIOUS
    <3>1. PICK j \in 1..n : places[j] = a
      BY <1>2
    <3>2. j # k
      BY <2>1, <3>1
    <3>3. CASE j < k
      <4>1. j \in 1..m /\ others[j] = places[j]
        BY <1>1, <3>3
      <4> QED
        BY <3>1, <4>1
    <3>4. CASE j > k
      <4>1. j - 1 \in 1..m /\ ~(j - 1 < k) /\ (j - 1) + 1 = j
        BY <1>1, <3>4
      <4>2. others[j - 1] = places[j]
        BY <4>1
      <4> QED
        BY <3>1, <4>1, <4>2
    <3> QED
      BY <1>1, <3>2, <3>3, <3>4
  <2>7. Cardinality(fewer) = m /\ others = Ascending(fewer)
    <3> HIDE DEF others, m
    <3>1. fewer \in SUBSET Int
      OBVIOUS
    <3> HIDE DEF fewer
    <3> QED
      BY <2>3, <2>4, <2>5, <2>6, <3>1, AscendingIsUnique
  <2> HIDE DEF p, fewer
  <2>8. At(s, fewer) = [i \in 1..m |-> s[others[i]]]
    BY <2>7, <2>4 DEF At
  <2>9. RemoveOne(left, x) = RemoveAt(left, k)
    BY <1>1, <2>2 DEF RemoveOne, p
  <2>10. /\ RemoveAt(left, k) \in Seq(S) /\ Len(RemoveAt(left, k)) = m
         /\ \A i \in 1..m : RemoveAt(left, k)[i] = IF i < k THEN left[i] ELSE left[i + 1]
    BY <1>1, RemoveAtShifts
  <2>11. \A i \in 1..m : RemoveAt(left, k)[i] = s[others[i]]
    <3> SUFFICES ASSUME NEW i \in 1..m
                 PROVE  RemoveAt(left, k)[i] = s[others[i]]
      OBVIOUS
    <3> QED
      BY <1>3, <2>3, <2>10
  <2>12. RemoveAt(left, k) = [i \in 1..m |-> RemoveAt(left, k)[i]]
    <3> HIDE DEF m
    <3> QED
      BY <2>3, <2>10
  <2>13. RemoveAt(left, k) = At(s, fewer)
    <3> HIDE DEF m, others
    <3> QED
      BY <2>8, <2>11, <2>12
  <2> QED
    BY <2>9, <2>13 DEF fewer
<1> QED
  BY <1>4, <1>5 DEF left

LEMMA HowManyIsNumber ==
    ASSUME NEW S, NEW s \in Seq(S), NEW t
    PROVE  /\ HowMany(s, t) \in Nat /\ IsFiniteSet({i \in DOMAIN s : s[i] = t})
           /\ HowMany(s, t) > 0 <=> \E i \in 1..Len(s) : s[i] = t
<1> DEFINE places == {i \in DOMAIN s : s[i] = t}
<1>1. DOMAIN s = 1..Len(s) /\ Len(s) \in Nat
  OBVIOUS
<1>2. IsFiniteSet(1..Len(s)) /\ places \in SUBSET (1..Len(s))
  BY <1>1, FS_Interval
<1>3. IsFiniteSet(places)
  BY <1>2, FS_Subset
<1>4. Cardinality(places) \in Nat /\ (Cardinality(places) = 0 <=> places = {})
  BY <1>3, FS_CardinalityType, FS_EmptySet
<1>5. places # {} <=> \E i \in 1..Len(s) : s[i] = t
  BY <1>1
<1> HIDE DEF places
<1> QED
  BY <1>3, <1>4, <1>5 DEF HowMany, places

LEMMA HowManyAppended ==
    ASSUME NEW S, NEW s \in Seq(S), NEW x \in S, NEW t
    PROVE  HowMany(Append(s, x), t) = HowMany(s, t) + IF t = x THEN 1 ELSE 0
<1> DEFINE n == Len(s)
           more == Append(s, x)
           places == {i \in DOMAIN s : s[i] = t}
<1>1. n \in Nat /\ DOMAIN s = 1..n
  OBVIOUS
<1>2. /\ DOMAIN more = 1..(n + 1) /\ more[n + 1] = x /\ \A i \in 1..n : more[i] = s[i]
  <2>1. more \in Seq(S) /\ Len(more) = n + 1 /\ more[n + 1] = x /\ \A i \in 1..n : more[i] = s[i]
    BY AppendProperties
  <2> HIDE DEF more
  <2> QED
    BY <2>1
<1>3. IsFiniteSet(places) /\ HowMany(s, t) = Cardinality(places) /\ Cardinality(places) \in Nat
  BY HowManyIsNumber DEF HowMany
<1> HIDE DEF more
<1>4. CASE t = x
  <2>1. {i \in DOMAIN more : more[i] = t} = places \union {n + 1} /\ n + 1 \notin places
    BY <1>1, <1>2, <1>4
  <2> HIDE DEF places
  <2>2. Cardinality(places \union {n + 1}) = Cardinality(places) + 1
    BY <1>3, <2>1, FS_AddElement
  <2> QED
    BY <1>3, <1>4, <2>1, <2>2 DEF HowMany, more
<1>5. CASE t # x
  <2>1. {i \in DOMAIN more : more[i] = t} = places
    BY <1>1, <1>2, <1>5
  <2>2. HowMany(Append(s, x), t) = Cardinality(places)
    BY <2>1 DEF HowMany, more
  <2> HIDE DEF places
  <2> QED
    BY <1>3, <1>5, <2>2
<1> QED
  BY <1>4, <1>5

\* Which of the places of its element a place is: the first, the second...
Nth(s, i) == Cardinality({j \in 1..i : s[j] = s[i]})

LEMMA NthIsNumber ==
    ASSUME NEW s, NEW i \in Nat
    PROVE  /\ Nth(s, i) \in Nat /\ IsFiniteSet({j \in 1..i : s[j] = s[i]})
           /\ i > 0 => Nth(s, i) > 0
<1> DEFINE same == {j \in 1..i : s[j] = s[i]}
<1>1. IsFiniteSet(1..i) /\ same \in SUBSET (1..i)
  BY FS_Interval
<1>2. IsFiniteSet(same)
  BY <1>1, FS_Subset
<1>3. Cardinality(same) \in Nat /\ (Cardinality(same) = 0 <=> same = {})
  BY <1>2, FS_CardinalityType, FS_EmptySet
<1>4. i > 0 => i \in same
  OBVIOUS
<1> HIDE DEF same
<1> QED
  BY <1>2, <1>3, <1>4 DEF Nth, same

\* Of the places of one element the later has the higher number.
LEMMA NthGrows ==
    ASSUME NEW s, NEW i \in Nat, NEW j \in Nat, 0 < i, i < j, s[i] = s[j]
    PROVE  Nth(s, i) < Nth(s, j)
<1> DEFINE A == {k \in 1..i : s[k] = s[i]}
           B == {k \in 1..j : s[k] = s[j]}
<1>1. A \in SUBSET B /\ j \in B /\ j \notin A
  OBVIOUS
<1>2. IsFiniteSet(B) /\ IsFiniteSet(A) /\ Cardinality(A) \in Nat /\ Cardinality(B) \in Nat
  BY NthIsNumber DEF Nth
<1> HIDE DEF A, B
<1>3. Cardinality(A) <= Cardinality(B) /\ (Cardinality(B) = Cardinality(A) => B = A)
  BY <1>1, <1>2, FS_Subset
<1>4. Cardinality(A) < Cardinality(B)
  BY <1>1, <1>2, <1>3
<1> QED
  BY <1>4 DEF Nth, A, B

\* A place that is not the first has one before it, numbered one less.
LEMMA NthBefore ==
    ASSUME NEW s, NEW i \in Nat, Nth(s, i) > 1
    PROVE  \E j \in 1..(i - 1) : s[j] = s[i] /\ Nth(s, j) = Nth(s, i) - 1
<1> DEFINE earlier == {j \in 1..(i - 1) : s[j] = s[i]}
           same == {j \in 1..i : s[j] = s[i]}
<1>1. i > 0
  <2> SUFFICES ASSUME i = 0
               PROVE  FALSE
    OBVIOUS
  <2>1. same = {}
    OBVIOUS
  <2> QED
    BY <2>1, FS_EmptySet DEF Nth
<1>2. same = earlier \union {i} /\ i \notin earlier
  BY <1>1
<1>3. IsFiniteSet(earlier) /\ earlier \in SUBSET Int
  <2>1. IsFiniteSet(1..(i - 1)) /\ earlier \in SUBSET (1..(i - 1))
    BY FS_Interval
  <2>2. IsFiniteSet(earlier)
    BY <2>1, FS_Subset
  <2> QED
    BY <2>2
<1> DEFINE n == Cardinality(earlier)
           last == Ascending(earlier)[n]
<1>4. Cardinality(same) = n + 1
  <2> HIDE DEF same, earlier
  <2> QED
    BY <1>2, <1>3, FS_AddElement
<1>5. /\ n \in Nat /\ Ascending(earlier) \in [1..n -> earlier]
      /\ \A k, l \in 1..n : Ascending(earlier)[k] < Ascending(earlier)[l] <=> k < l
      /\ \A a \in earlier : \E k \in 1..n : Ascending(earlier)[k] = a
  <2> HIDE DEF earlier
  <2> QED
    BY <1>3, AscendingProperties
<1>6. Nth(s, i) = n + 1 /\ n > 0
  BY <1>4, <1>5 DEF Nth
<1>7. last \in earlier /\ \A a \in earlier : a <= last
  <2> HIDE DEF earlier, n
  <2>1. n \in 1..n /\ last \in earlier
    BY <1>5, <1>6
  <2>2. ASSUME NEW a \in earlier
        PROVE  a <= last
    <3>1. PICK k \in 1..n : Ascending(earlier)[k] = a
      BY <1>5
    <3>2. ~(n < k)
      BY <1>5
    <3>3. ~(last < a)
      BY <1>5, <2>1, <3>1, <3>2
    <3> HIDE DEF last
    <3>4. a \in Int /\ last \in Int
      BY <1>3, <2>1
    <3> QED
      BY <3>3, <3>4
  <2> QED
    BY <2>1, <2>2
<1> HIDE DEF last, n
<1>8. {j \in 1..last : s[j] = s[last]} = earlier
  BY <1>1, <1>7
<1>9. Nth(s, last) = n
  BY <1>8 DEF Nth, n
<1> QED
  BY <1>5, <1>6, <1>7, <1>9

\* Taking nothing keeps every place.
LEMMA KeptOfNone ==
    ASSUME NEW S, NEW old \in Seq(S)
    PROVE  Kept(old, <<>>) = 1..Len(old)
<1>1. \A t : HowMany(<<>>, t) = 0
  <2>1. \A t : {i \in DOMAIN <<>> : <<>>[i] = t} = {}
    OBVIOUS
  <2> QED
    BY <2>1, FS_EmptySet DEF HowMany
<1>2. DOMAIN old = 1..Len(old) /\ \A i \in DOMAIN old : i \in Nat /\ i > 0
  OBVIOUS
<1>3. \A i \in DOMAIN old : Nth(old, i) > 0
  BY <1>2, NthIsNumber
<1> QED
  BY <1>1, <1>2, <1>3 DEF Kept, Nth

\* Taking one x more takes the first of the places of x that were kept, if any was.
LEMMA KeptWithoutOneMore ==
    ASSUME NEW S, NEW old \in Seq(S), NEW given \in Seq(S), NEW x \in S
    PROVE  /\ Kept(old, given) \in SUBSET (1..Len(old))
           /\ (\A i \in Kept(old, given) : old[i] # x) =>
                Kept(old, Append(given, x)) = Kept(old, given)
           /\ \A first \in Kept(old, given) :
                old[first] = x /\ (\A i \in Kept(old, given) : old[i] = x => first <= i)
                => Kept(old, Append(given, x)) = Kept(old, given) \ {first}
<1> DEFINE kept == Kept(old, given)
           fewer == Kept(old, Append(given, x))
           m == HowMany(given, x)
<1>1. DOMAIN old = 1..Len(old) /\ Len(old) \in Nat /\ m \in Nat
  <2>1. DOMAIN old = 1..Len(old) /\ Len(old) \in Nat
    OBVIOUS
  <2>2. m \in Nat
    BY HowManyIsNumber
  <2> QED
    BY <2>1, <2>2
<1>2. \A i \in 1..Len(old) : i \in kept <=> Nth(old, i) > HowMany(given, old[i])
  BY <1>1 DEF Kept, Nth
<1>3. \A i \in 1..Len(old) : i \in fewer <=>
         Nth(old, i) > HowMany(given, old[i]) + IF old[i] = x THEN 1 ELSE 0
  <2>1. \A i \in 1..Len(old) : i \in fewer <=> Nth(old, i) > HowMany(Append(given, x), old[i])
    BY <1>1 DEF Kept, Nth
  <2> QED
    BY <2>1, HowManyAppended
<1>4. kept \in SUBSET (1..Len(old)) /\ fewer \in SUBSET (1..Len(old))
  BY <1>1 DEF Kept
<1>5. \A i \in 1..Len(old) : i \in Nat /\ Nth(old, i) \in Nat /\ HowMany(given, old[i]) \in Nat
  <2>1. \A i \in 1..Len(old) : i \in Nat
    BY <1>1
  <2>2. \A t : HowMany(given, t) \in Nat
    BY HowManyIsNumber
  <2>3. \A i \in Nat : Nth(old, i) \in Nat
    BY NthIsNumber
  <2> QED
    BY <2>1, <2>2, <2>3
<1> HIDE DEF kept, fewer
<1>6. \A i \in 1..Len(old) : i \in fewer <=> i \in kept /\ ~(old[i] = x /\ Nth(old, i) = m + 1)
  <2> SUFFICES ASSUME NEW i \in 1..Len(old)
               PROVE  i \in fewer <=> i \in kept /\ ~(old[i] = x /\ Nth(old, i) = m + 1)
    OBVIOUS
  <2>1. CASE old[i] = x
    <3> DEFINE k == Nth(old, i)
    <3>1. k \in Nat /\ (i \in kept <=> k > m) /\ (i \in fewer <=> k > m + 1)
      BY <1>2, <1>3, <1>5, <2>1
    <3> HIDE DEF k, m
    <3>2. i \in fewer <=> i \in kept /\ k # m + 1
      BY <1>1, <3>1
    <3> QED
      BY <2>1, <3>2 DEF k
  <2>2. CASE old[i] # x
    BY <1>2, <1>3, <1>5, <2>2
  <2> QED
    BY <2>1, <2>2
<1>7. ASSUME NEW first \in kept, old[first] = x, \A i \in kept : old[i] = x => first <= i
      PROVE  fewer = kept \ {first}
  <2>1. first \in 1..Len(old) /\ Nth(old, first) > m /\ first \in Nat /\ Nth(old, first) \in Nat
    BY <1>2, <1>4, <1>5, <1>7
  <2>2. Nth(old, first) = m + 1
    <3> SUFFICES ASSUME Nth(old, first) # m + 1
                 PROVE  FALSE
      OBVIOUS
    <3>1. Nth(old, first) > m + 1
      BY <1>1, <2>1
    <3>2. PICK j \in 1..(first - 1) : old[j] = old[first] /\ Nth(old, j) = Nth(old, first) - 1
      BY <1>1, <2>1, <3>1, NthBefore
    <3>3. j \in 1..Len(old) /\ j < first /\ Nth(old, j) > m
      BY <1>1, <2>1, <3>1, <3>2
    <3>4. j \in kept /\ old[j] = x
      BY <1>2, <1>7, <3>2, <3>3
    <3> QED
      BY <1>7, <2>1, <3>3, <3>4
  <2>3. \A i \in 1..Len(old) : old[i] = x /\ Nth(old, i) = m + 1 => i = first
    <3> SUFFICES ASSUME NEW i \in 1..Len(old), old[i] = x, Nth(old, i) = m + 1, i # first
                 PROVE  FALSE
      OBVIOUS
    <3>1. i \in Nat /\ 0 < i /\ 0 < first
      BY <1>1, <2>1
    <3>2. CASE i < first
      <4>1. Nth(old, i) < Nth(old, first)
        BY <1>7, <2>1, <3>1, <3>2, NthGrows
      <4> QED
        BY <1>1, <2>2, <4>1
    <3>3. CASE first < i
      <4>1. Nth(old, first) < Nth(old, i)
        BY <1>7, <2>1, <3>1, <3>3, NthGrows
      <4> QED
        BY <1>1, <2>2, <4>1
    <3> QED
      BY <2>1, <3>1, <3>2, <3>3
  <2>4. \A i \in 1..Len(old) : i \in fewer <=> i \in kept /\ i # first
    BY <1>6, <1>7, <2>2, <2>3
  <2> QED
    BY <1>4, <2>4
<1>8. (\A i \in kept : old[i] # x) => fewer = kept
  BY <1>4, <1>6
<1> QED
  BY <1>4, <1>7, <1>8 DEF kept, fewer

-----------------------------------------------------------------------------
(* What a method makes of its object, one element of its argument at a time *)

LEMMA ToSetAppended ==
    ASSUME NEW S, NEW s \in Seq(S), NEW x \in S
    PROVE  /\ ToSet(Append(s, x)) = ToSet(s) \union {x}
           /\ ToSet(<<>>) = {} /\ ToSet(s) \subseteq S
<1> DEFINE more == Append(s, x)
<1>1. /\ DOMAIN more = 1..(Len(s) + 1) /\ more[Len(s) + 1] = x
      /\ \A i \in 1..Len(s) : more[i] = s[i]
  <2>1. /\ more \in Seq(S) /\ Len(more) = Len(s) + 1
        /\ more[Len(s) + 1] = x /\ \A i \in 1..Len(s) : more[i] = s[i]
    BY AppendProperties
  <2> HIDE DEF more
  <2> QED
    BY <2>1
<1>2. DOMAIN s = 1..Len(s) /\ Len(s) \in Nat
  OBVIOUS
<1> HIDE DEF more
<1>3. ToSet(more) = ToSet(s) \union {x}
  BY <1>1, <1>2 DEF ToSet
<1>4. ToSet(<<>>) = {} /\ ToSet(s) \subseteq S
  BY DEF ToSet
<1> QED
  BY <1>3, <1>4 DEF more

IsMap(m) == DOMAIN m \in SUBSET Values /\ IsFiniteSet(DOMAIN m) /\ m \in [DOMAIN m -> Values]

Items == Values \X Values

\* Entries that give no key two values.
IsFunctional(given) ==
    \A i, j \in 1..Len(given) : given[i][1] = given[j][1] => given[i][2] = given[j][2]

\* new is old with the given entries put into it.
IsMerged(new, old, given) ==
    /\ new \in [DOMAIN old \union {given[i][1] : i \in 1..Len(given)} -> Values]
    /\ \A i \in 1..Len(given) : new[given[i][1]] = given[i][2]
    /\ \A k \in DOMAIN old : k \in {given[i][1] : i \in 1..Len(given)} \/ new[k] = old[k]

LEMMA MergedIsUnique ==
    ASSUME NEW old, NEW given, NEW f, IsMerged(f, old, given), NEW g, IsMerged(g, old, given)
    PROVE  f = g
<1> DEFINE D == DOMAIN old \union {given[i][1] : i \in 1..Len(given)}
<1>1. f \in [D -> Values] /\ g \in [D -> Values]
  BY DEF IsMerged
<1>2. \A k \in D : f[k] = g[k]
  BY DEF IsMerged
<1> HIDE DEF D
<1> QED
  BY <1>1, <1>2

LEMMA PutAllMerges ==
    ASSUME NEW method, method = "Map::putAll", NEW old, IsMap(old), NEW given \in Seq(Items), IsFunctional(given)
    PROVE  IsMerged(Expected(method, old, given), old, given)
<1> DEFINE new == ToSet(given)
           D == DOMAIN old \union {entry[1] : entry \in new}
           given1 == {given[i][1] : i \in 1..Len(given)}
           f == [k \in D |->
                  IF \E v \in Values : <<k, v>> \in new
                  THEN CHOOSE v \in Values : <<k, v>> \in new ELSE old[k]]
<1>1. Expected(method, old, given) = f
  BY DEF Expected
<1>2. DOMAIN given = 1..Len(given) /\ Len(given) \in Nat /\ \A i \in 1..Len(given) : given[i] \in Items
  OBVIOUS
<1>3. \A t : t \in new <=> \E i \in 1..Len(given) : t = given[i]
  BY <1>2 DEF ToSet
<1>4. {entry[1] : entry \in new} = given1
  BY <1>3
<1>5. \A i \in 1..Len(given) :
        given[i] = <<given[i][1], given[i][2]>> /\ given[i][1] \in Values /\ given[i][2] \in Values
  BY <1>2 DEF Items
<1> HIDE DEF new
<1>6. \A k, v : <<k, v>> \in new <=> \E i \in 1..Len(given) : given[i][1] = k /\ given[i][2] = v
  BY <1>3, <1>5
<1>7. ASSUME NEW k \in D
      PROVE  f[k] \in Values
  <2>1. CASE \E v \in Values : <<k, v>> \in new
    BY <2>1
  <2>2. CASE ~\E v \in Values : <<k, v>> \in new
    <3>1. k \notin given1
      BY <1>5, <1>6, <2>2
    <3>2. k \in DOMAIN old
      BY <1>4, <3>1
    <3> QED
      BY <2>2, <3>2 DEF IsMap
  <2> QED
    BY <2>1, <2>2
<1>8. \A i \in 1..Len(given) : given[i][1] \in D /\ f[given[i][1]] = given[i][2]
  <2> SUFFICES ASSUME NEW i \in 1..Len(given)
               PROVE  given[i][1] \in D /\ f[given[i][1]] = given[i][2]
    OBVIOUS
  <2>1. given[i][1] \in D
    BY <1>4
  <2>2. <<given[i][1], given[i][2]>> \in new /\ given[i][2] \in Values
    BY <1>5, <1>6
  <2>3. \A v : <<given[i][1], v>> \in new => v = given[i][2]
    BY <1>6 DEF IsFunctional
  <2> HIDE DEF D
  <2> QED
    BY <2>1, <2>2, <2>3
<1>9. \A k \in DOMAIN old : k \in given1 \/ f[k] = old[k]
  BY <1>6
<1> QED
  BY <1>1, <1>4, <1>7, <1>8, <1>9 DEF IsMerged

LEMMA PutMerges ==
    ASSUME NEW old, IsMap(old), NEW given \in Seq(Items), NEW x \in Items,
           IsFunctional(Append(given, x)), NEW new, IsMerged(new, old, given)
    PROVE  /\ IsFunctional(given)
           /\ IsMerged(Put(new, x[1], x[2]), old, Append(given, x))
<1> DEFINE n == Len(given)
           more == Append(given, x)
           put == Put(new, x[1], x[2])
<1>1. /\ n \in Nat /\ Len(more) = n + 1 /\ more[n + 1] = x /\ \A i \in 1..n : more[i] = given[i]
  BY AppendProperties
<1> HIDE DEF more
<1>2. \A i \in 1..(n + 1) : i = n + 1 \/ i \in 1..n
  BY <1>1
<1>3. 1..(n + 1) = 1..n \union {n + 1}
  BY <1>1
<1>4. IsFunctional(given)
  BY <1>1, <1>3 DEF IsFunctional, more
<1>5. {more[i][1] : i \in 1..(n + 1)} = {given[i][1] : i \in 1..n} \union {x[1]}
  BY <1>1, <1>3
<1>6. \A i \in 1..n : given[i][1] = x[1] => given[i][2] = x[2]
  BY <1>1, <1>3 DEF IsFunctional, more
<1> DEFINE D == DOMAIN old \union {given[i][1] : i \in 1..n}
<1>7. /\ new \in [D -> Values] /\ \A i \in 1..n : new[given[i][1]] = given[i][2]
      /\ \A k \in DOMAIN old : k \in {given[i][1] : i \in 1..n} \/ new[k] = old[k]
  BY DEF IsMerged
<1>8. put = [k \in D \union {x[1]} |-> IF k = x[1] THEN x[2] ELSE new[k]]
  BY <1>7 DEF Put
<1>9. x[1] \in Values /\ x[2] \in Values
  BY DEF Items
<1>10. put \in [D \union {x[1]} -> Values]
  <2> HIDE DEF D
  <2> QED
    BY <1>7, <1>8, <1>9
<1>11. DOMAIN old \union {more[i][1] : i \in 1..(n + 1)} = D \union {x[1]}
  BY <1>5
<1>12. \A i \in 1..(n + 1) : put[more[i][1]] = more[i][2]
  <2>1. put[x[1]] = x[2]
    BY <1>8
  <2>2. \A i \in 1..n : given[i][1] \in D
    OBVIOUS
  <2>3. \A i \in 1..n : put[given[i][1]] = given[i][2]
    <3> HIDE DEF D, put
    <3> QED
      BY <1>6, <1>7, <1>8, <2>2
  <2> HIDE DEF put, D
  <2> QED
    BY <1>1, <1>3, <2>1, <2>3
<1>13. \A k \in DOMAIN old : k \in {more[i][1] : i \in 1..(n + 1)} \/ put[k] = old[k]
  BY <1>5, <1>7, <1>8
<1> HIDE DEF put, D
<1> QED
  BY <1>1, <1>4, <1>10, <1>11, <1>12, <1>13 DEF IsMerged, put, more

OfKind(v, k) ==
    /\ k = "set" => v \in SUBSET Values /\ IsFiniteSet(v)
    /\ k = "list" => v \in Seq(Values)
    /\ k = "map" => IsMap(v)

\* What a loop over a collection of a class visits.
ItemsOf(k) == IF k = "map" THEN Items ELSE Values

LEMMA ExpectedOfNone ==
    ASSUME NEW method, NEW k, NEW l, <<method, k, l>> \in Loops, NEW old, OfKind(old, k)
    PROVE  Expected(method, old, <<>>) = old
<1>1. ToSet(<<>>) = {}
  BY DEF ToSet
<1>2. CASE method = "Set::addAll"
  BY <1>1, <1>2 DEF Expected
<1>3. CASE method = "Set::removeAll"
  BY <1>1, <1>3 DEF Expected
<1>4. CASE method = "List::addAll"
  <2>1. old \in Seq(Values)
    BY <1>4 DEF Loops, OfKind
  <2>2. old \o <<>> = old
    BY <2>1, ConcatEmptySeq
  <2> QED
    BY <1>4, <2>2 DEF Expected
<1>5. CASE method = "List::removeAll"
  <2>1. old \in Seq(Values)
    BY <1>5 DEF Loops, OfKind
  <2>2. At(old, Kept(old, <<>>)) = old
    BY <2>1, KeptOfNone, AtAll
  <2> QED
    BY <1>5, <2>2 DEF Expected, At
<1>6. CASE method = "Map::putAll"
  <2>1. IsMap(old)
    BY <1>6 DEF Loops, OfKind
  <2>2. <<>> \in Seq(Items) /\ Len(<<>>) = 0
    OBVIOUS
  <2>3. IsFunctional(<<>>)
    BY <2>2 DEF IsFunctional
  <2>4. IsMerged(Expected(method, old, <<>>), old, <<>>)
    BY <1>6, <2>1, <2>2, <2>3, PutAllMerges
  <2>5. IsMerged(old, old, <<>>)
    BY <2>1, <2>2 DEF IsMerged, IsMap
  <2> QED
    BY <2>4, <2>5, MergedIsUnique
<1> QED
  BY <1>2, <1>3, <1>4, <1>5, <1>6 DEF Loops

\* One turn more of the loop has the effect of one element more.
LEMMA ExpectedOfOneMore ==
    ASSUME NEW method, NEW k, NEW l, <<method, k, l>> \in Loops, NEW old, OfKind(old, k),
           NEW given \in Seq(ItemsOf(l)), NEW x \in ItemsOf(l),
           l = "map" => IsFunctional(Append(given, x))
    PROVE  Expected(method, old, Append(given, x)) = After(method, Expected(method, old, given), x)
<1>1. ToSet(Append(given, x)) = ToSet(given) \union {x}
  BY ToSetAppended
<1>2. CASE method = "Set::addAll"
  BY <1>1, <1>2 DEF Expected, After
<1>3. CASE method = "Set::removeAll"
  BY <1>1, <1>3 DEF Expected, After
<1>4. CASE method = "List::addAll"
  <2>1. old \in Seq(Values) /\ given \in Seq(Values) /\ x \in Values
    BY <1>4 DEF Loops, OfKind, ItemsOf
  <2>2. old \o Append(given, x) = Append(old \o given, x)
    <3>1. /\ Append(given, x) = given \o <<x>> /\ <<x>> \in Seq(Values)
          /\ old \o given \in Seq(Values)
      BY <2>1, AppendIsConcat, ConcatProperties
    <3>2. Append(old \o given, x) = (old \o given) \o <<x>>
      BY <2>1, <3>1, AppendIsConcat
    <3> QED
      BY <2>1, <3>1, <3>2, ConcatAssociative
  <2> QED
    BY <1>4, <2>2 DEF Expected, After
<1>5. CASE method = "List::removeAll"
  <2>1. old \in Seq(Values) /\ given \in Seq(Values) /\ x \in Values
    BY <1>5 DEF Loops, OfKind, ItemsOf
  <2> DEFINE kept == Kept(old, given)
             fewer == Kept(old, Append(given, x))
  <2>2. /\ kept \in SUBSET (1..Len(old))
        /\ (\A i \in kept : old[i] # x) => fewer = kept
        /\ \A first \in kept :
             old[first] = x /\ (\A i \in kept : old[i] = x => first <= i) => fewer = kept \ {first}
    <3>1. kept \in SUBSET (1..Len(old))
      BY <2>1, KeptWithoutOneMore
    <3>2. (\A i \in kept : old[i] # x) => fewer = kept
      BY <2>1, KeptWithoutOneMore
    <3>3. ASSUME NEW first \in kept, old[first] = x, \A i \in kept : old[i] = x => first <= i
          PROVE  fewer = kept \ {first}
      BY <2>1, <3>3, KeptWithoutOneMore
    <3> QED
      BY <3>1, <3>2, <3>3
  <2> HIDE DEF kept, fewer
  <2>3. At(old, fewer) = RemoveOne(At(old, kept), x)
    <3>1. /\ (\A i \in kept : old[i] # x) => RemoveOne(At(old, kept), x) = At(old, kept)
          /\ \A first \in kept :
               old[first] = x /\ (\A i \in kept : old[i] = x => first <= i)
               => RemoveOne(At(old, kept), x) = At(old, kept \ {first})
      BY <2>1, <2>2, RemoveOneAt
    <3>2. CASE \A i \in kept : old[i] # x
      BY <2>2, <3>1, <3>2
    <3>3. CASE \E i \in kept : old[i] = x
      <4> DEFINE places == {i \in kept : old[i] = x}
      <4>1. places \in SUBSET Nat /\ places # {}
        <5>1. Len(old) \in Nat
          BY <2>1
        <5>2. \A i \in 1..Len(old) : i \in Nat
          BY <5>1
        <5> QED
          BY <2>2, <3>3, <5>2
      <4>2. PICK first \in places : \A i \in places : first <= i
        <5> HIDE DEF places
        <5> QED
          BY <4>1, LeastNumber
      <4> QED
        BY <2>2, <3>1, <4>2
    <3> QED
      BY <3>2, <3>3
  <2> QED
    BY <1>5, <2>3 DEF Expected, After, At, kept, fewer
<1>6. CASE method = "Map::putAll"
  <2>1. IsMap(old) /\ given \in Seq(Items) /\ x \in Items /\ IsFunctional(Append(given, x))
    BY <1>6 DEF Loops, OfKind, ItemsOf
  <2> DEFINE more == Append(given, x)
             new == Expected(method, old, given)
  <2>2. more \in Seq(Items)
    BY <2>1, AppendProperties
  <2>3. IsMerged(Expected(method, old, more), old, more)
    BY <1>6, <2>1, <2>2, PutAllMerges
  <2>4. IsFunctional(given)
    <3>1. /\ Len(more) = Len(given) + 1 /\ Len(given) \in Nat /\ \A i \in 1..Len(given) : more[i] = given[i]
      BY <2>1, AppendProperties
    <3> HIDE DEF more
    <3>2. \A i \in 1..Len(given) : i \in 1..Len(more)
      BY <3>1
    <3> QED
      BY <2>1, <3>1, <3>2 DEF IsFunctional, more
  <2>5. IsMerged(new, old, given)
    BY <1>6, <2>1, <2>4, PutAllMerges
  <2> HIDE DEF new
  <2>6. IsMerged(Put(new, x[1], x[2]), old, more)
    BY <2>1, <2>5, PutMerges
  <2>7. Expected(method, old, more) = Put(new, x[1], x[2])
    BY <2>3, <2>6, MergedIsUnique
  <2> QED
    BY <1>6, <2>7 DEF After, new
<1> QED
  BY <1>2, <1>3, <1>4, <1>5, <1>6 DEF Loops

\* It stays a collection of its class.
LEMMA AfterOfKind ==
    ASSUME NEW method, NEW k, NEW l, <<method, k, l>> \in Loops, NEW old, OfKind(old, k), NEW x \in ItemsOf(l)
    PROVE  OfKind(After(method, old, x), k)
<1>1. CASE method = "Set::addAll"
  <2>1. k = "set" /\ x \in Values /\ old \in SUBSET Values /\ IsFiniteSet(old)
    BY <1>1 DEF Loops, OfKind, ItemsOf
  <2>2. IsFiniteSet(old \union {x})
    BY <2>1, FS_AddElement
  <2> QED
    BY <1>1, <2>1, <2>2 DEF OfKind, After
<1>2. CASE method = "Set::removeAll"
  <2>1. k = "set" /\ old \in SUBSET Values /\ IsFiniteSet(old)
    BY <1>2 DEF Loops, OfKind
  <2>2. IsFiniteSet(old \ {x})
    BY <2>1, FS_RemoveElement
  <2> QED
    BY <1>2, <2>1, <2>2 DEF OfKind, After
<1>3. CASE method = "List::addAll"
  <2>1. k = "list" /\ x \in Values /\ old \in Seq(Values)
    BY <1>3 DEF Loops, OfKind, ItemsOf
  <2>2. Append(old, x) \in Seq(Values)
    BY <2>1
  <2> QED
    BY <1>3, <2>1, <2>2 DEF OfKind, After
<1>4. CASE method = "List::removeAll"
  <2>1. k = "list" /\ old \in Seq(Values)
    BY <1>4 DEF Loops, OfKind
  <2>2. RemoveOne(old, x) \in Seq(Values)
    BY <2>1, RemoveOneType
  <2> QED
    BY <1>4, <2>1, <2>2 DEF OfKind, After
<1>5. CASE method = "Map::putAll"
  <2>1. k = "map" /\ x \in Items /\ IsMap(old)
    BY <1>5 DEF Loops, OfKind, ItemsOf
  <2>2. x[1] \in Values /\ x[2] \in Values
    BY <2>1 DEF Items
  <2>3. IsMap(Put(old, x[1], x[2]))
    BY <2>1, <2>2, FS_AddElement DEF IsMap, Put
  <2> QED
    BY <1>5, <2>1, <2>3 DEF OfKind, After
<1> QED
  BY <1>1, <1>2, <1>3, <1>4, <1>5 DEF Loops

LEMMA EntriesOfMap ==
    ASSUME NEW m, IsMap(m)
    PROVE  /\ Entries(m) \in Seq(Items) /\ IsFunctional(Entries(m))
           /\ \A i \in 1..Len(Entries(m)) :
                Entries(m)[i][1] \in DOMAIN m /\ Entries(m)[i][2] = m[Entries(m)[i][1]]
<1> DEFINE n == Cardinality(DOMAIN m)
           order == Ascending(DOMAIN m)
           E == [i \in 1..n |-> <<order[i], m[order[i]]>>]
<1>1. DOMAIN m \in SUBSET Int /\ IsFiniteSet(DOMAIN m)
  BY CollectionsAssumption DEF IsMap
<1>2. n \in Nat /\ order \in [1..n -> DOMAIN m]
  BY <1>1, AscendingProperties
<1>3. Entries(m) = E
  BY <1>2 DEF Entries
<1> HIDE DEF order, n
<1>4. \A i \in 1..n : order[i] \in DOMAIN m /\ <<order[i], m[order[i]]>> \in Items
  BY <1>2 DEF Items, IsMap
<1>5. E \in Seq(Items) /\ Len(E) = n
  BY <1>2, <1>4
<1>6. \A i \in 1..n : E[i] = <<order[i], m[order[i]]>>
  OBVIOUS
<1> HIDE DEF E
<1>7. \A i \in 1..n : E[i][1] \in DOMAIN m /\ E[i][2] = m[E[i][1]]
  BY <1>4, <1>6
<1> QED
  BY <1>3, <1>5, <1>7 DEF IsFunctional

-----------------------------------------------------------------------------
(* The inductive invariant *)

AreCollections(values) ==
    /\ values = [o \in Objects |-> values[o]]
    /\ \A o \in Objects : OfKind(values[o], kind[o])

CollectionsOK ==
    /\ kind \in [Objects -> Kinds]
    /\ AreCollections(value) /\ AreCollections(before)
    /\ on \in Objects /\ from \in Objects

\* All that a loop visits, as its argument was when it was called.
Whole == ElementsOf(from, before)

IsPart(part, whole) ==
    Len(part) <= Len(whole) /\ \A i \in 1..Len(part) : part[i] = whole[i]

\* A loop has done what it would with a copy of the elements it has visited.
LoopInv ==
    pc \in {"loop", "returned", "threw"} =>
        /\ <<op, kind[on], kind[from]>> \in Loops
        /\ pc = "loop" => ~(op \in RemoveAlls /\ from = on)
        /\ visited \in Seq(ItemsOf(kind[from])) /\ IsPart(visited, Whole)
        /\ pc = "returned" => Len(visited) = Len(Whole)
        /\ value[on] = Expected(op, before[on], visited)
        /\ \A o \in Objects \ {on} : value[o] = before[o]
        /\ pc = "returned" /\ op = "List::removeAll" =>
             result = (\E t \in ToSet(before[on]) : HowMany(before[from], t) > 0)

CollectionsInv == CollectionsOK /\ LoopInv

LEMMA ElementsAreItems ==
    ASSUME kind \in [Objects -> Kinds], NEW o \in Objects, NEW values, AreCollections(values)
    PROVE  /\ ElementsOf(o, values) \in Seq(ItemsOf(kind[o]))
           /\ kind[o] = "map" => IsFunctional(ElementsOf(o, values))
           /\ kind[o] = "set" => ToSet(ElementsOf(o, values)) = values[o]
<1>1. OfKind(values[o], kind[o])
  BY DEF AreCollections
<1>2. CASE kind[o] = "set"
  <2> DEFINE S == values[o]
             n == Cardinality(S)
  <2>1. S \in SUBSET Values /\ S \in SUBSET Int /\ IsFiniteSet(S)
    BY <1>1, <1>2, CollectionsAssumption DEF OfKind
  <2>2. /\ n \in Nat /\ Ascending(S) \in [1..n -> S]
        /\ \A a \in S : \E i \in 1..n : Ascending(S)[i] = a
    BY <2>1, AscendingProperties
  <2>3. ElementsOf(o, values) = Ascending(S)
    BY <1>2 DEF ElementsOf
  <2> HIDE DEF n, S
  <2>4. Ascending(S) \in Seq(Values)
    <3>1. Ascending(S) \in [1..n -> Values]
      BY <2>1, <2>2
    <3> QED
      BY <2>2, <3>1
  <2>5. ToSet(Ascending(S)) = S
    BY <2>2 DEF ToSet
  <2> QED
    BY <1>2, <2>3, <2>4, <2>5 DEF ItemsOf, S
<1>3. CASE kind[o] = "list"
  BY <1>1, <1>3 DEF OfKind, ElementsOf, ItemsOf
<1>4. CASE kind[o] = "map"
  BY <1>1, <1>4, EntriesOfMap DEF OfKind, ElementsOf, ItemsOf
<1> QED
  BY <1>2, <1>3, <1>4 DEF Kinds

LEMMA PartIsFunctional ==
    ASSUME NEW S, NEW whole \in Seq(S), IsFunctional(whole), NEW part \in Seq(S), IsPart(part, whole)
    PROVE  IsFunctional(part)
<1>1. Len(part) \in Nat /\ Len(whole) \in Nat /\ Len(part) <= Len(whole)
  BY DEF IsPart
<1>2. \A i \in 1..Len(part) : i \in 1..Len(whole) /\ part[i] = whole[i]
  BY <1>1 DEF IsPart
<1> QED
  BY <1>2 DEF IsFunctional

\* A loop over its own object changes nothing: it adds what is there.
LEMMA ArgumentStays ==
    ASSUME CollectionsInv, pc = "loop"
    PROVE  value[from] = before[from] /\ Argument = Whole
<1>1. /\ kind \in [Objects -> Kinds] /\ on \in Objects /\ from \in Objects
      /\ AreCollections(before) /\ OfKind(before[from], kind[from])
  BY DEF CollectionsInv, CollectionsOK, AreCollections
<1>2. /\ <<op, kind[on], kind[from]>> \in Loops /\ ~(op \in RemoveAlls /\ from = on)
      /\ visited \in Seq(ItemsOf(kind[from])) /\ IsPart(visited, Whole)
      /\ value[on] = Expected(op, before[on], visited)
      /\ \A o \in Objects \ {on} : value[o] = before[o]
  BY DEF CollectionsInv, LoopInv
<1>3. Whole \in Seq(ItemsOf(kind[from]))
  BY <1>1, ElementsAreItems DEF Whole
<1>4. ASSUME from # on
      PROVE  value[from] = before[from]
  BY <1>1, <1>2, <1>4
<1>5. ASSUME from = on /\ op = "Set::addAll"
      PROVE  value[from] = before[from]
  <2>1. kind[from] = "set" /\ ToSet(Whole) = before[from]
    BY <1>1, <1>2, <1>5, ElementsAreItems DEF Loops, Whole
  <2>2. ToSet(visited) \subseteq ToSet(Whole)
    BY <1>2, <1>3 DEF ToSet, IsPart
  <2> QED
    BY <1>2, <1>5, <2>1, <2>2 DEF Expected
<1>6. ASSUME from = on /\ op = "Map::putAll"
      PROVE  value[from] = before[from]
  <2> DEFINE m == before[from]
  <2>1. kind[from] = "map" /\ IsMap(m) /\ Whole = Entries(m)
    BY <1>1, <1>2, <1>6 DEF Loops, Whole, ElementsOf, OfKind
  <2>2. /\ Entries(m) \in Seq(Items) /\ IsFunctional(Entries(m))
        /\ \A i \in 1..Len(Entries(m)) :
             Entries(m)[i][1] \in DOMAIN m /\ Entries(m)[i][2] = m[Entries(m)[i][1]]
    BY <2>1, EntriesOfMap
  <2>3. visited \in Seq(Items) /\ IsPart(visited, Entries(m))
    BY <1>2, <2>1 DEF ItemsOf
  <2>4. IsFunctional(visited)
    BY <2>2, <2>3, PartIsFunctional
  <2>5. IsMerged(value[on], m, visited)
    BY <1>2, <1>6, <2>1, <2>3, <2>4, PutAllMerges
  <2>6. \A i \in 1..Len(visited) : visited[i][1] \in DOMAIN m /\ visited[i][2] = m[visited[i][1]]
    <3>1. Len(visited) \in Nat /\ Len(Entries(m)) \in Nat /\ Len(visited) <= Len(Entries(m))
      BY <2>2, <2>3 DEF IsPart
    <3>2. \A i \in 1..Len(visited) : i \in 1..Len(Entries(m)) /\ visited[i] = Entries(m)[i]
      BY <2>3, <3>1 DEF IsPart
    <3> QED
      BY <2>2, <3>2
  <2>7. IsMerged(m, m, visited)
    <3>1. DOMAIN m \union {visited[i][1] : i \in 1..Len(visited)} = DOMAIN m
      BY <2>6
    <3> HIDE DEF m
    <3> QED
      BY <2>1, <2>6, <3>1 DEF IsMerged, IsMap
  <2>8. value[on] = m
    BY <2>5, <2>7, MergedIsUnique
  <2> QED
    BY <1>6, <2>8
<1>7. value[from] = before[from]
  BY <1>2, <1>4, <1>5, <1>6 DEF Loops, RemoveAlls
<1>8. Argument = Whole
  BY <1>7 DEF Argument, Whole, ElementsOf
<1> QED
  BY <1>7, <1>8

LEMMA EmptyOfKind ==
    ASSUME NEW k
    PROVE  OfKind(IF k = "set" THEN {} ELSE <<>>, k)
<1>1. IsFiniteSet({}) /\ <<>> \in Seq(Values)
  BY FS_EmptySet
<1>2. IsMap(<<>>)
  BY FS_EmptySet DEF IsMap
<1> QED
  BY <1>1, <1>2 DEF OfKind

LEMMA InitCollectionsInv == Init => CollectionsInv
<1> SUFFICES ASSUME Init
             PROVE  CollectionsInv
  OBVIOUS
<1>1. AreCollections(value) /\ AreCollections(before)
  BY EmptyOfKind DEF Init, AreCollections
<1>2. CollectionsOK /\ LoopInv
  BY <1>1 DEF Init, CollectionsOK, LoopInv
<1> QED
  BY <1>2 DEF CollectionsInv

\* A call without a loop leaves a collection of its class.
LEMMA ChangeKeepsInv ==
    ASSUME CollectionsInv, NEW o \in Objects, NEW new, OfKind(new, kind[o]), Change(o, new)
    PROVE  CollectionsInv'
<1>1. AreCollections(value)' /\ AreCollections(before)'
  BY DEF CollectionsInv, CollectionsOK, AreCollections, Change
<1>2. CollectionsOK'
  BY <1>1 DEF CollectionsInv, CollectionsOK, Change
<1>3. LoopInv'
  BY DEF Change, LoopInv
<1> QED
  BY <1>2, <1>3 DEF CollectionsInv

LEMMA CallKeepsInv ==
    ASSUME CollectionsInv, NEW o \in Objects,
           \/ Clear(o)
           \/ \E t \in Values : SetAdd(o, t) \/ SetRemove(o, t) \/ ListRemove(o, t) \/ MapRemove(o, t)
           \/ \E index \in 0..MaxSize : ListRemoveAt(o, index)
           \/ \E index \in 0..MaxSize, t \in Values : ListAdd(o, index, t) \/ ListSet(o, index, t)
           \/ \E k, v \in Values : MapPut(o, k, v)
           \/ \E other \in Objects : ListAddAll(o, other)
    PROVE  CollectionsInv'
<1> DEFINE old == value[o]
<1>1. \A other \in Objects : OfKind(value[other], kind[other])
  BY DEF CollectionsInv, CollectionsOK, AreCollections
<1>2. ASSUME Clear(o)
      PROVE  CollectionsInv'
  BY <1>2, EmptyOfKind, ChangeKeepsInv DEF Clear
<1>3. ASSUME NEW t \in Values, SetAdd(o, t)
      PROVE  CollectionsInv'
  <2>1. kind[o] = "set" /\ Change(o, old \union {t}) /\ OfKind(old, kind[o])
    BY <1>1, <1>3 DEF SetAdd
  <2>2. OfKind(old \union {t}, kind[o])
    BY <2>1, FS_AddElement DEF OfKind
  <2> QED
    BY <2>1, <2>2, ChangeKeepsInv
<1>4. ASSUME NEW t \in Values, SetRemove(o, t)
      PROVE  CollectionsInv'
  <2>1. kind[o] = "set" /\ Change(o, old \ {t}) /\ OfKind(old, kind[o])
    BY <1>1, <1>4 DEF SetRemove
  <2>2. OfKind(old \ {t}, kind[o])
    BY <2>1, FS_RemoveElement DEF OfKind
  <2> QED
    BY <2>1, <2>2, ChangeKeepsInv
<1>5. ASSUME NEW t \in Values, ListRemove(o, t)
      PROVE  CollectionsInv'
  <2>1. kind[o] = "list" /\ Change(o, RemoveOne(old, t)) /\ OfKind(old, kind[o])
    BY <1>1, <1>5 DEF ListRemove
  <2>2. OfKind(RemoveOne(old, t), kind[o])
    BY <2>1, RemoveOneType DEF OfKind
  <2> QED
    BY <2>1, <2>2, ChangeKeepsInv
<1>6. ASSUME NEW t \in Values, MapRemove(o, t)
      PROVE  CollectionsInv'
  <2> DEFINE rest == DOMAIN old \ {t}
             new == [x \in rest |-> old[x]]
  <2>1. kind[o] = "map" /\ Change(o, new) /\ IsMap(old)
    BY <1>1, <1>6 DEF MapRemove, OfKind
  <2>2. IsFiniteSet(rest) /\ rest \in SUBSET Values
    BY <2>1, FS_RemoveElement DEF IsMap
  <2>3. new \in [rest -> Values]
    BY <2>1 DEF IsMap
  <2> HIDE DEF new, rest
  <2>4. OfKind(new, kind[o])
    BY <2>1, <2>2, <2>3 DEF OfKind, IsMap
  <2> QED
    BY <2>1, <2>4, ChangeKeepsInv
<1>7. ASSUME NEW index \in 0..MaxSize, ListRemoveAt(o, index)
      PROVE  CollectionsInv'
  <2>1. /\ kind[o] = "list" /\ Change(o, RemoveAt(old, index + 1)) /\ old \in Seq(Values)
        /\ index \in 0..(Len(old) - 1)
    BY <1>1, <1>7 DEF ListRemoveAt, OfKind
  <2> HIDE DEF old
  <2>2. index + 1 \in 1..Len(old)
    BY <2>1
  <2>3. OfKind(RemoveAt(old, index + 1), kind[o])
    BY <2>1, <2>2, RemoveAtShifts DEF OfKind
  <2> QED
    BY <2>1, <2>3, ChangeKeepsInv
<1>8. ASSUME NEW index \in 0..MaxSize, NEW t \in Values, ListAdd(o, index, t)
      PROVE  CollectionsInv'
  <2>1. /\ kind[o] = "list" /\ Change(o, InsertAt(old, index + 1, t)) /\ old \in Seq(Values)
        /\ index \in 0..Len(old)
    BY <1>1, <1>8 DEF ListAdd, OfKind
  <2> HIDE DEF old
  <2>2. index + 1 \in 1..(Len(old) + 1)
    BY <2>1
  <2>3. OfKind(InsertAt(old, index + 1, t), kind[o])
    BY <2>1, <2>2, InsertAtType DEF OfKind
  <2> QED
    BY <2>1, <2>3, ChangeKeepsInv
<1>9. ASSUME NEW index \in 0..MaxSize, NEW t \in Values, ListSet(o, index, t)
      PROVE  CollectionsInv'
  <2>1. /\ kind[o] = "list" /\ Change(o, [old EXCEPT ![index + 1] = t]) /\ old \in Seq(Values)
        /\ index \in 0..(Len(old) - 1)
    BY <1>1, <1>9 DEF ListSet, OfKind
  <2> HIDE DEF old
  <2>2. index + 1 \in 1..Len(old)
    BY <2>1
  <2>3. OfKind([old EXCEPT ![index + 1] = t], kind[o])
    BY <2>1, <2>2, ExceptSeq DEF OfKind
  <2> QED
    BY <2>1, <2>3, ChangeKeepsInv
<1>10. ASSUME NEW k \in Values, NEW v \in Values, MapPut(o, k, v)
       PROVE  CollectionsInv'
  <2>1. kind[o] = "map" /\ Change(o, Put(old, k, v)) /\ IsMap(old)
    BY <1>1, <1>10 DEF MapPut, OfKind
  <2>2. OfKind(Put(old, k, v), kind[o])
    BY <2>1, FS_AddElement DEF OfKind, IsMap, Put
  <2> QED
    BY <2>1, <2>2, ChangeKeepsInv
<1>11. ASSUME NEW other \in Objects, ListAddAll(o, other)
       PROVE  CollectionsInv'
  <2>1. /\ kind[o] = "list" /\ Change(o, old \o value[other])
        /\ old \in Seq(Values) /\ value[other] \in Seq(Values)
    BY <1>1, <1>11 DEF ListAddAll, OfKind
  <2>2. OfKind(old \o value[other], kind[o])
    BY <2>1, ConcatProperties DEF OfKind
  <2> QED
    BY <2>1, <2>2, ChangeKeepsInv
<1> QED
  BY <1>2, <1>3, <1>4, <1>5, <1>6, <1>7, <1>8, <1>9, <1>10, <1>11

\* A list without all of its elements is empty, and it had some to lose unless it
\* was empty before.
LEMMA NoneIsKept ==
    ASSUME NEW s \in Seq(Values)
    PROVE  /\ Expected("List::removeAll", s, s) = <<>>
           /\ s # <<>> <=> \E t \in ToSet(s) : HowMany(s, t) > 0
<1>1. DOMAIN s = 1..Len(s) /\ Len(s) \in Nat
  OBVIOUS
<1>2. \A i \in 1..Len(s) : ~(Nth(s, i) > HowMany(s, s[i]))
  <2> SUFFICES ASSUME NEW i \in 1..Len(s)
               PROVE  ~(Nth(s, i) > HowMany(s, s[i]))
    OBVIOUS
  <2> DEFINE A == {j \in 1..i : s[j] = s[i]}
             B == {j \in DOMAIN s : s[j] = s[i]}
  <2>1. A \in SUBSET B
    BY <1>1
  <2>2. IsFiniteSet(B) /\ Cardinality(B) \in Nat
    BY HowManyIsNumber DEF HowMany
  <2> HIDE DEF A, B
  <2>3. IsFiniteSet(A) /\ Cardinality(A) <= Cardinality(B)
    BY <2>1, <2>2, FS_Subset
  <2>4. Cardinality(A) \in Nat
    BY <2>3, FS_CardinalityType
  <2>5. ~(Cardinality(A) > Cardinality(B))
    BY <2>2, <2>3, <2>4
  <2> QED
    BY <2>5 DEF Nth, HowMany, A, B
<1>3. Kept(s, s) = {}
  BY <1>1, <1>2 DEF Kept, Nth
<1>4. At(s, {}) = <<>>
  <2>1. {} \in SUBSET (1..Len(s)) /\ Cardinality({}) = 0
    BY FS_EmptySet
  <2>2. At(s, {}) \in Seq(Values) /\ Len(At(s, {})) = 0
    BY <2>1, AtIsList
  <2> QED
    BY <2>2
<1>5. Expected("List::removeAll", s, s) = <<>>
  BY <1>3, <1>4 DEF Expected, At
<1>6. \A t \in ToSet(s) : HowMany(s, t) > 0
  <2>1. \A t \in ToSet(s) : \E i \in 1..Len(s) : s[i] = t
    BY <1>1 DEF ToSet
  <2> QED
    BY <2>1, HowManyIsNumber
<1>7. s # <<>> <=> ToSet(s) # {}
  BY <1>1 DEF ToSet
<1> QED
  BY <1>5, <1>6, <1>7

LEMMA BeginKeepsInv ==
    ASSUME CollectionsInv, NEW o \in Objects, NEW other \in Objects, Begin(o, other)
    PROVE  CollectionsInv'
<1>1. /\ kind' = kind /\ before' = value /\ on' = o /\ from' = other
      /\ <<op', kind[o], kind[other]>> \in Loops
  <2>1. PICK loop \in Loops : loop[2] = kind[o] /\ loop[3] = kind[other] /\ op' = loop[1]
    BY DEF Begin
  <2>2. loop = <<loop[1], loop[2], loop[3]>>
    BY <2>1 DEF Loops
  <2> QED
    BY <2>1, <2>2 DEF Begin
<1>2. /\ AreCollections(value) /\ kind \in [Objects -> Kinds]
      /\ OfKind(value[o], kind[o]) /\ OfKind(value[other], kind[other])
  BY DEF CollectionsInv, CollectionsOK, AreCollections
<1>3. \A p \in Objects : ElementsOf(p, before)' = ElementsOf(p, value)
  BY <1>1 DEF ElementsOf
<1>4. AreCollections(before)'
  BY <1>1, <1>2 DEF AreCollections
<1>5. CASE other \in Cleared(op')
  <2> DEFINE empty == IF kind[o] = "set" THEN {} ELSE <<>>
             all == ElementsOf(o, value)
  <2>1. /\ op' \in RemoveAlls /\ other = o /\ pc' = "returned"
        /\ value' = [value EXCEPT ![o] = empty] /\ visited' = all /\ result' = (visited' # <<>>)
    BY <1>1, <1>5 DEF Begin, Cleared
  <2>2. AreCollections(value)'
    BY <1>1, <1>2, <2>1, EmptyOfKind DEF AreCollections
  <2>3. Whole' = all /\ all \in Seq(ItemsOf(kind[o]))
    BY <1>1, <1>2, <1>3, <2>1, ElementsAreItems DEF Whole
  <2>4. value'[o] = empty /\ \A p \in Objects \ {o} : value'[p] = value[p]
    BY <1>2, <2>1 DEF AreCollections
  <2>5. CASE op' = "Set::removeAll"
    <3>1. kind[o] = "set" /\ ToSet(all) = value[o]
      BY <1>1, <1>2, <2>5, ElementsAreItems DEF Loops
    <3>2. empty = Expected(op', value[o], all)
      BY <2>5, <3>1 DEF Expected
    <3>3. IsPart(all, all)
      BY <2>3 DEF IsPart
    <3> QED
      BY <1>1, <1>2, <1>4, <2>1, <2>2, <2>3, <2>4, <2>5, <3>2, <3>3
      DEF CollectionsInv, CollectionsOK, LoopInv
  <2>6. CASE op' = "List::removeAll"
    <3>1. kind[o] = "list" /\ all = value[o] /\ value[o] \in Seq(Values)
      BY <1>1, <1>2, <2>6 DEF Loops, ElementsOf, OfKind
    <3>2. /\ empty = Expected(op', value[o], all)
          /\ result' = (\E t \in ToSet(value[o]) : HowMany(value[o], t) > 0)
      BY <2>1, <2>6, <3>1, NoneIsKept
    <3>3. IsPart(all, all)
      BY <2>3 DEF IsPart
    <3> QED
      BY <1>1, <1>2, <1>4, <2>1, <2>2, <2>3, <2>4, <2>6, <3>2, <3>3
      DEF CollectionsInv, CollectionsOK, LoopInv
  <2> QED
    BY <2>1, <2>5, <2>6 DEF RemoveAlls
<1>6. CASE other \notin Cleared(op')
  <2>1. pc' = "loop" /\ visited' = <<>> /\ value' = value /\ ~(op' \in RemoveAlls /\ other = o)
    BY <1>1, <1>6 DEF Begin, Cleared
  <2>2. Whole' = ElementsOf(other, value) /\ ElementsOf(other, value) \in Seq(ItemsOf(kind[other]))
    BY <1>1, <1>2, <1>3, ElementsAreItems DEF Whole
  <2>3. Expected(op', value[o], <<>>) = value[o]
    BY <1>1, <1>2, ExpectedOfNone
  <2>4. <<>> \in Seq(ItemsOf(kind[other])) /\ IsPart(<<>>, ElementsOf(other, value))
    BY <2>2 DEF IsPart
  <2>5. LoopInv'
    BY <1>1, <2>1, <2>2, <2>3, <2>4 DEF LoopInv
  <2>6. CollectionsOK'
    BY <1>1, <1>2, <1>4, <2>1 DEF CollectionsOK, AreCollections
  <2> QED
    BY <2>5, <2>6 DEF CollectionsInv
<1> QED
  BY <1>5, <1>6

LEMMA VisitKeepsInv == CollectionsInv /\ Visit => CollectionsInv'
<1> SUFFICES ASSUME CollectionsInv, Visit
             PROVE  CollectionsInv'
  OBVIOUS
<1> DEFINE n == Len(visited)
           x == Whole[n + 1]
<1>1. pc = "loop" /\ UNCHANGED <<kind, pc, op, on, from, result, before>> /\ Argument = Whole
  BY ArgumentStays DEF Visit
<1>2. /\ n < Len(Whole) /\ visited' = Append(visited, x)
      /\ value' = [value EXCEPT ![on] = After(op, value[on], x)]
  BY <1>1 DEF Visit
<1>3. /\ kind \in [Objects -> Kinds] /\ on \in Objects /\ from \in Objects
      /\ AreCollections(value) /\ AreCollections(before)
      /\ OfKind(value[on], kind[on]) /\ OfKind(before[on], kind[on])
  BY DEF CollectionsInv, CollectionsOK, AreCollections
<1>4. /\ <<op, kind[on], kind[from]>> \in Loops /\ ~(op \in RemoveAlls /\ from = on)
      /\ visited \in Seq(ItemsOf(kind[from])) /\ IsPart(visited, Whole)
      /\ value[on] = Expected(op, before[on], visited)
      /\ \A o \in Objects \ {on} : value[o] = before[o]
  BY <1>1 DEF CollectionsInv, LoopInv
<1>5. Whole \in Seq(ItemsOf(kind[from])) /\ (kind[from] = "map" => IsFunctional(Whole))
  BY <1>3, ElementsAreItems DEF Whole
<1>6. x \in ItemsOf(kind[from]) /\ n \in Nat
  <2>1. n \in Nat /\ Len(Whole) \in Nat /\ n + 1 \in 1..Len(Whole)
    BY <1>2, <1>4, <1>5
  <2> QED
    BY <1>5, <2>1, ElementOfSeq
<1>7. Append(visited, x) \in Seq(ItemsOf(kind[from])) /\ IsPart(Append(visited, x), Whole)
  <2> DEFINE more == Append(visited, x)
  <2>1. /\ more \in Seq(ItemsOf(kind[from])) /\ Len(more) = n + 1 /\ more[n + 1] = x
        /\ \A i \in 1..n : more[i] = visited[i]
    BY <1>4, <1>6, AppendProperties
  <2>2. Len(Whole) \in Nat /\ n + 1 <= Len(Whole)
    BY <1>2, <1>5, <1>6
  <2>3. \A i \in 1..n : visited[i] = Whole[i]
    BY <1>4 DEF IsPart
  <2>4. \A i \in 1..(n + 1) : i \in 1..n \/ i = n + 1
    BY <1>6
  <2> HIDE DEF more, x, n
  <2>5. \A i \in 1..(n + 1) : more[i] = Whole[i]
    BY <2>1, <2>3, <2>4 DEF x
  <2> QED
    BY <2>1, <2>2, <2>5 DEF IsPart, more
<1>8. kind[from] = "map" => IsFunctional(Append(visited, x))
  BY <1>5, <1>7, PartIsFunctional
<1>9. Expected(op, before[on], Append(visited, x)) = After(op, value[on], x)
  BY <1>3, <1>4, <1>6, <1>8, ExpectedOfOneMore
<1>10. OfKind(After(op, value[on], x), kind[on])
  BY <1>3, <1>4, <1>6, AfterOfKind
<1>11. Whole' = Whole
  BY <1>1 DEF Whole, ElementsOf
<1> HIDE DEF x, n
<1>12. AreCollections(value)' /\ AreCollections(before)'
  BY <1>1, <1>2, <1>3, <1>10 DEF AreCollections
<1>13. CollectionsOK'
  BY <1>1, <1>3, <1>12 DEF CollectionsOK
<1>14. value'[on] = After(op, value[on], x) /\ \A o \in Objects \ {on} : value'[o] = before[o]
  BY <1>2, <1>3, <1>4 DEF AreCollections
<1>15. LoopInv'
  BY <1>1, <1>2, <1>4, <1>7, <1>9, <1>11, <1>14 DEF LoopInv
<1> QED
  BY <1>13, <1>15 DEF CollectionsInv

\* What is left of a list is shorter exactly if one of its elements was given.
LEMMA ShorterIfGiven ==
    ASSUME NEW old \in Seq(Values), NEW given \in Seq(Values)
    PROVE  Len(old) > Len(Expected("List::removeAll", old, given))
           <=> \E t \in ToSet(old) : HowMany(given, t) > 0
<1> DEFINE n == Len(old)
           kept == Kept(old, given)
<1>1. DOMAIN old = 1..n /\ n \in Nat /\ kept \in SUBSET (1..n)
  BY DEF Kept
<1>2. Expected("List::removeAll", old, given) = At(old, kept)
  BY DEF Expected, At
<1>3. /\ IsFiniteSet(kept) /\ Cardinality(kept) \in Nat
      /\ Len(At(old, kept)) = Cardinality(kept)
  BY <1>1, AtIsList
<1>4. IsFiniteSet(1..n) /\ Cardinality(1..n) = n
  <2>1. \A m \in Int : IsFiniteSet(1..m) /\ Cardinality(1..m) = IF 1 > m THEN 0 ELSE m - 1 + 1
    BY FS_Interval
  <2> QED
    BY <1>1, <2>1
<1>5. n > Cardinality(kept) <=> kept # 1..n
  <2> HIDE DEF kept
  <2>1. Cardinality(kept) <= n /\ (Cardinality(kept) = n => kept = 1..n)
    BY <1>1, <1>4, FS_Subset
  <2> QED
    BY <1>1, <1>3, <1>4, <2>1
<1>6. \A i \in 1..n : i \in kept <=> Nth(old, i) > HowMany(given, old[i])
  BY <1>1 DEF Kept, Nth
<1>7. \A i \in 1..n : i \in Nat /\ Nth(old, i) \in Nat /\ Nth(old, i) > 0
  <2>1. \A i \in 1..n : i \in Nat /\ i > 0
    BY <1>1
  <2> QED
    BY <2>1, NthIsNumber
<1>8. \A t : HowMany(given, t) \in Nat
  BY HowManyIsNumber
<1> HIDE DEF kept
<1>9. ASSUME kept # 1..n
      PROVE  \E t \in ToSet(old) : HowMany(given, t) > 0
  <2>1. PICK i \in 1..n : i \notin kept
    BY <1>1, <1>9
  <2>2. HowMany(given, old[i]) > 0
    <3> DEFINE a == Nth(old, i)
               b == HowMany(given, old[i])
    <3>1. a \in Nat /\ a > 0 /\ b \in Nat /\ ~(a > b)
      BY <1>6, <1>7, <1>8, <2>1
    <3> HIDE DEF a, b
    <3>2. b > 0
      BY <3>1
    <3> QED
      BY <3>2 DEF b
  <2> QED
    BY <1>1, <2>2 DEF ToSet
<1>10. ASSUME NEW t \in ToSet(old), HowMany(given, t) > 0
       PROVE  kept # 1..n
  <2> DEFINE places == {i \in 1..n : old[i] = t}
  <2>1. places \in SUBSET Nat /\ places # {}
    BY <1>1 DEF ToSet
  <2>2. PICK first \in places : \A i \in places : first <= i
    <3> HIDE DEF places
    <3> QED
      BY <2>1, LeastNumber
  <2>3. {j \in 1..first : old[j] = old[first]} = {first}
    BY <1>1, <2>2
  <2>4. Nth(old, first) = 1
    BY <2>3, FS_Singleton DEF Nth
  <2>5. first \notin kept
    BY <1>6, <1>8, <1>10, <2>2, <2>4
  <2> QED
    BY <2>2, <2>5
<1> QED
  BY <1>2, <1>3, <1>5, <1>9, <1>10

LEMMA ReturnKeepsInv == CollectionsInv /\ Return => CollectionsInv'
<1> SUFFICES ASSUME CollectionsInv, Return
             PROVE  CollectionsInv'
  OBVIOUS
<1>1. /\ pc = "loop" /\ UNCHANGED <<kind, value, op, on, from, visited, before>> /\ Argument = Whole
      /\ pc' = "returned" /\ Len(visited) >= Len(Whole)
      /\ result' = (op = "List::removeAll" /\ Len(before[on]) > Len(value[on]))
  BY ArgumentStays DEF Return
<1>2. CollectionsOK' /\ Whole' = Whole
  BY <1>1 DEF CollectionsInv, CollectionsOK, AreCollections, Whole, ElementsOf
<1>3. /\ <<op, kind[on], kind[from]>> \in Loops
      /\ visited \in Seq(ItemsOf(kind[from])) /\ IsPart(visited, Whole)
      /\ value[on] = Expected(op, before[on], visited)
      /\ \A o \in Objects \ {on} : value[o] = before[o]
  BY <1>1 DEF CollectionsInv, LoopInv
<1>4. /\ kind \in [Objects -> Kinds] /\ from \in Objects /\ AreCollections(before)
      /\ OfKind(before[on], kind[on]) /\ OfKind(before[from], kind[from])
  BY DEF CollectionsInv, CollectionsOK, AreCollections
<1>5. Whole \in Seq(ItemsOf(kind[from]))
  BY <1>4, ElementsAreItems DEF Whole
<1>6. Len(visited) = Len(Whole)
  BY <1>1, <1>3, <1>5 DEF IsPart
<1>7. visited = Whole
  <2>1. \A i \in 1..Len(visited) : visited[i] = Whole[i]
    BY <1>3 DEF IsPart
  <2> QED
    BY <1>3, <1>5, <1>6, <2>1, SeqEqual
<1>8. ASSUME op = "List::removeAll"
      PROVE  result' = (\E t \in ToSet(before[on]) : HowMany(before[from], t) > 0)
  <2>1. before[on] \in Seq(Values) /\ before[from] \in Seq(Values) /\ Whole = before[from]
    BY <1>3, <1>4, <1>8 DEF Loops, OfKind, Whole, ElementsOf
  <2> QED
    BY <1>1, <1>3, <1>7, <1>8, <2>1, ShorterIfGiven
<1>9. LoopInv'
  BY <1>1, <1>2, <1>3, <1>6, <1>8 DEF LoopInv
<1> QED
  BY <1>2, <1>9 DEF CollectionsInv

LEMMA ThrowKeepsInv == CollectionsInv /\ Throw => CollectionsInv'
BY DEF CollectionsInv, CollectionsOK, AreCollections, LoopInv, Whole, ElementsOf, Throw, loopVars

LEMMA StutterKeepsInv == CollectionsInv /\ UNCHANGED vars => CollectionsInv'
BY DEF CollectionsInv, CollectionsOK, AreCollections, LoopInv, Whole, ElementsOf, vars, loopVars

LEMMA NextKeepsCollectionsInv == CollectionsInv /\ [Next]_vars => CollectionsInv'
<1> SUFFICES ASSUME CollectionsInv, [Next]_vars
             PROVE  CollectionsInv'
  OBVIOUS
<1>1. ASSUME NEW o \in Objects, NEW other \in Objects, Begin(o, other)
      PROVE  CollectionsInv'
  BY <1>1, BeginKeepsInv
<1> QED
  BY <1>1, CallKeepsInv, VisitKeepsInv, ReturnKeepsInv, ThrowKeepsInv, StutterKeepsInv DEF Next

THEOREM CollectionsInvariant == Spec => []CollectionsInv
<1> QED
  BY InitCollectionsInv, NextKeepsCollectionsInv, PTL DEF Spec

-----------------------------------------------------------------------------
(* The theorems *)

\* No loop of Set, List and Map changes the elements it is visiting, also when an
\* object is its own argument.
THEOREM LoopsLeaveArgument == Spec => []LoopLeavesArgument
<1>1. CollectionsInv => LoopLeavesArgument
  <2> SUFFICES ASSUME CollectionsInv, pc = "loop"
               PROVE  ElementsOf(from, value) = ElementsOf(from, before)
    BY DEF LoopLeavesArgument
  <2> QED
    BY ArgumentStays DEF ElementsOf
<1> QED
  BY <1>1, CollectionsInvariant, PTL

\* addAll, removeAll and putAll do to their object, element by element and up to
\* where one of them throws, what they would with a copy of their argument.
THEOREM LoopsActOnACopy == Spec => []ActsOnACopy
<1>1. CollectionsInv => ActsOnACopy
  <2> SUFFICES ASSUME CollectionsInv, pc \in {"loop", "returned", "threw"}
               PROVE  ActsOnACopy
    BY DEF ActsOnACopy
  <2>1. /\ <<op, kind[on], kind[from]>> \in Loops
        /\ visited \in Seq(ItemsOf(kind[from])) /\ IsPart(visited, Whole)
        /\ pc = "returned" => Len(visited) = Len(Whole)
        /\ value[on] = Expected(op, before[on], visited)
        /\ \A o \in Objects \ {on} : value[o] = before[o]
        /\ pc = "returned" /\ op = "List::removeAll" =>
             result = (\E t \in ToSet(before[on]) : HowMany(before[from], t) > 0)
    BY DEF CollectionsInv, LoopInv
  <2>2. Whole \in Seq(ItemsOf(kind[from]))
    BY ElementsAreItems DEF CollectionsInv, CollectionsOK, Whole
  <2>3. Len(visited) <= Len(Whole) /\ \A i \in 1..Len(visited) : visited[i] = Whole[i]
    BY <2>1 DEF IsPart
  <2>4. IsPrefix(visited, Whole)
    <3>1. /\ SubSeq(visited, 1, Len(visited)) = [i \in 1..Len(visited) |-> visited[i]]
          /\ SubSeq(Whole, 1, Len(visited)) = [i \in 1..Len(visited) |-> Whole[i]]
      BY <2>1 DEF SubSeq
    <3> QED
      BY <2>3, <3>1 DEF IsPrefix
  <2>5. pc = "returned" => visited = Whole
    BY <2>1, <2>2, <2>3, SeqEqual
  <2> QED
    BY <2>1, <2>4, <2>5 DEF ActsOnACopy, Whole
<1> QED
  BY <1>1, CollectionsInvariant, PTL

\* subList has the elements that a start and a length of unbounded integers would
\* give: clamping before the sum leaves nothing to overflow.
LEMMA SubListOfList ==
    ASSUME NEW s \in Seq(Values), NEW start \in 0..ULongMax, NEW length \in 0..ULongMax
    PROVE  SubList(s, start, length) = At(s, {i \in DOMAIN s : start < i /\ i <= start + length})
<1> DEFINE n == Len(s)
           within == {i \in DOMAIN s : start < i /\ i <= start + length}
           c == IF start >= n THEN 0 ELSE Count(s, start, length)
           places == [i \in 1..c |-> start + i]
<1>1. n \in Nat /\ start \in Nat /\ length \in Nat
  <2>1. \A i \in 0..ULongMax : i \in Nat
    BY CollectionsAssumption
  <2> QED
    BY <2>1
<1>2. within = {i \in 1..n : start < i /\ i <= start + length}
  OBVIOUS
<1>3. c = IF start >= n THEN 0 ELSE IF length < n - start THEN length ELSE n - start
  BY DEF Count
<1> HIDE DEF n, within, c
<1>4. /\ c \in Nat
      /\ start >= n => c = 0
      /\ ~(start >= n) => c <= length /\ start + c <= n /\ (c = length \/ start + c = n)
  BY <1>1, <1>3
<1>5. \A i \in Int : i \in within <=> start < i /\ i <= start + c
  BY <1>1, <1>2, <1>4
<1>6. within \in SUBSET Int
  BY <1>1, <1>2
<1>7. places \in [1..c -> within]
  BY <1>1, <1>4, <1>5
<1>8. \A i, j \in 1..c : i < j => places[i] < places[j]
  BY <1>1, <1>4
<1>9. \A a \in within : \E i \in 1..c : places[i] = a
  <2> SUFFICES ASSUME NEW a \in within
               PROVE  \E i \in 1..c : places[i] = a
    OBVIOUS
  <2>1. a \in Int /\ start < a /\ a <= start + c
    BY <1>5, <1>6
  <2>2. a - start \in 1..c /\ start + (a - start) = a
    BY <1>1, <1>4, <2>1
  <2> QED
    BY <2>2
<1>10. places = Ascending(within)
  <2> HIDE DEF places
  <2> QED
    BY <1>4, <1>6, <1>7, <1>8, <1>9, AscendingIsUnique
<1>11. At(s, within) = [i \in 1..c |-> s[start + i]]
  BY <1>10 DEF At
<1>12. CASE start >= n
  <2>1. c = 0 /\ SubList(s, start, length) = <<>>
    BY <1>4, <1>12 DEF SubList, n
  <2>2. [i \in 1..c |-> s[start + i]] = <<>>
    BY <2>1
  <2> QED
    BY <1>11, <2>1, <2>2 DEF within
<1>13. CASE ~(start >= n)
  <2>1. SubList(s, start, length) = SubSeq(s, start + 1, start + c)
    BY <1>13 DEF SubList, c, n
  <2>2. SubSeq(s, start + 1, start + c) = [i \in 1..c |-> s[start + i]]
    <3> DEFINE a == start + 1
               b == start + c
               piece == SubSeq(s, a, b)
    <3>1. /\ a \in Int /\ b \in Int /\ b - a + 1 = c
          /\ \A i \in 1..c : a + i - 1 = start + i
      BY <1>1, <1>4
    <3>2. \A i \in a..b : s[i] \in Values
      BY <1>1, <1>4, <1>13 DEF n
    <3> HIDE DEF a, b
    <3>3. /\ piece \in Seq(Values) /\ Len(piece) = IF a <= b THEN b - a + 1 ELSE 0
          /\ \A i \in 1..(b - a + 1) : piece[i] = s[a + i - 1]
      BY <3>1, <3>2, SubSeqProperties
    <3> HIDE DEF piece
    <3>4. Len(piece) = c /\ \A i \in 1..c : piece[i] = s[start + i]
      <4>1. (IF a <= b THEN b - a + 1 ELSE 0) = c
        BY <1>4, <3>1
      <4>2. \A i \in 1..c : piece[i] = s[a + i - 1]
        BY <3>1, <3>3
      <4> QED
        BY <3>1, <3>3, <4>1, <4>2
    <3>5. piece = [i \in 1..c |-> piece[i]]
      BY <3>3, <3>4
    <3>6. piece = [i \in 1..c |-> s[start + i]]
      BY <3>4, <3>5
    <3> QED
      BY <3>6 DEF piece, a, b
  <2> QED
    BY <1>11, <2>1, <2>2 DEF within
<1> QED
  BY <1>12, <1>13

\* The same of every list in every state.
THEOREM SubListsAreExact == Spec => []SubListIsExact
<1>1. CollectionsInv => SubListIsExact
  <2>1. ASSUME CollectionsInv, NEW o \in Objects, kind[o] = "list"
        PROVE  value[o] \in Seq(Values)
    BY <2>1 DEF CollectionsInv, CollectionsOK, AreCollections, OfKind
  <2> QED
    BY <2>1, SubListOfList DEF SubListIsExact, At
<1> QED
  BY <1>1, CollectionsInvariant, PTL
=============================================================================
