--------------------------- MODULE PureLoopsProofs ---------------------------
(***************************************************************************)
(* Proofs about the two loops that keep no object: levenshteinDistance     *)
(* fills its column with the fewest edits, for strings of every length     *)
(* over every alphabet, and snapshotChecksum reads every byte once and     *)
(* notices a change behind the last block, for every input whose size is a *)
(* word: what its steps are made of is one-to-one.                         *)
(***************************************************************************)
EXTENDS Levenshtein, Checksum, OrdersProofs, SequenceTheorems, TLAPS

LEMMA MinOfNumbers ==
    ASSUME NEW T \in SUBSET Nat, T # {}
    PROVE  Min(T) \in T /\ \A k \in T : Min(T) <= k
<1>1. \E k \in T : \A l \in T : k <= l
  BY LeastNumber
<1> QED
  BY <1>1 DEF Min

LEMMA StringsAreSequences ==
    ASSUME NEW s \in Strings
    PROVE  s \in Seq(Alphabet) /\ Len(s) \in 0..MaxLength /\ Len(s) \in Nat /\ DOMAIN s = 1..Len(s)
<1>1. PICK n \in 0..MaxLength : s \in [1..n -> Alphabet]
  BY DEF Strings
<1>2. n \in Nat
  BY LengthAssumption
<1>3. s \in Seq(Alphabet) /\ Len(s) = n
  BY <1>1, <1>2
<1> QED
  BY <1>1, <1>2, <1>3

LEMMA PrefixOfString ==
    ASSUME NEW s \in Strings, NEW n \in 0..Len(s)
    PROVE  /\ Prefix(s, n) \in Strings /\ Len(Prefix(s, n)) = n /\ DOMAIN Prefix(s, n) = 1..n
           /\ \A i \in 1..n : Prefix(s, n)[i] = s[i]
<1>1. s \in Seq(Alphabet) /\ Len(s) \in Nat /\ Len(s) \in 0..MaxLength
  BY StringsAreSequences
<1>2. n \in Nat /\ n \in 0..MaxLength
  BY <1>1, LengthAssumption
<1>3. \A i \in 1..n : s[i] \in Alphabet
  BY <1>1
<1>4. Prefix(s, n) = [i \in 1..n |-> s[i]]
  BY <1>2 DEF Prefix, SubSeq
<1>5. Prefix(s, n) \in [1..n -> Alphabet]
  BY <1>3, <1>4
<1>6. Prefix(s, n) \in Strings
  BY <1>2, <1>5 DEF Strings
<1>7. Len(Prefix(s, n)) = n
  <2>1. Prefix(s, n) \in Seq(Alphabet) /\ DOMAIN Prefix(s, n) = 1..n
    BY <1>2, <1>5
  <2> QED
    BY <1>2, <2>1
<1> QED
  BY <1>4, <1>6, <1>7

-----------------------------------------------------------------------------
(* The cost of a pairing, one character at a time *)

\* Places to pair: as many of the first n of s as of the first m of t.
ArePaired(F, G, n, m) ==
    F \in SUBSET (1..n) /\ G \in SUBSET (1..m) /\ Cardinality(F) = Cardinality(G)

\* The paired characters that differ.
Replaced(s, t, F, G) ==
    Cardinality({i \in 1..Cardinality(F) : s[Ascending(F)[i]] # t[Ascending(G)[i]]})

PairCost(s, t, F, G, n, m) == Replaced(s, t, F, G) + n + m - 2 * Cardinality(F)

LEMMA PlacesAreNumbers ==
    ASSUME NEW n \in Nat, NEW F \in SUBSET (1..n)
    PROVE  /\ F \in SUBSET Int /\ IsFiniteSet(F)
           /\ Cardinality(F) \in Nat /\ Cardinality(F) <= n
<1>1. IsFiniteSet(1..n) /\ Cardinality(1..n) = n
  <2>1. \A m \in Int : IsFiniteSet(1..m) /\ Cardinality(1..m) = IF 1 > m THEN 0 ELSE m - 1 + 1
    BY FS_Interval
  <2> QED
    BY <2>1
<1>2. IsFiniteSet(F) /\ Cardinality(F) <= n
  BY <1>1, FS_Subset
<1>3. Cardinality(F) \in Nat
  BY <1>2, FS_CardinalityType
<1>4. F \in SUBSET Int
  OBVIOUS
<1> QED
  BY <1>2, <1>3, <1>4

LEMMA ReplacedIsNumber ==
    ASSUME NEW s, NEW t, NEW F, NEW G, Cardinality(F) \in Nat
    PROVE  /\ IsFiniteSet({i \in 1..Cardinality(F) : s[Ascending(F)[i]] # t[Ascending(G)[i]]})
           /\ Replaced(s, t, F, G) \in Nat
<1> DEFINE D == {i \in 1..Cardinality(F) : s[Ascending(F)[i]] # t[Ascending(G)[i]]}
<1>1. IsFiniteSet(1..Cardinality(F)) /\ D \in SUBSET (1..Cardinality(F))
  BY FS_Interval
<1>2. IsFiniteSet(D)
  BY <1>1, FS_Subset
<1>3. Cardinality(D) \in Nat
  BY <1>2, FS_CardinalityType
<1> QED
  BY <1>2, <1>3 DEF Replaced

LEMMA PairCostIsNumber ==
    ASSUME NEW s, NEW t, NEW n \in Nat, NEW m \in Nat, NEW F, NEW G, ArePaired(F, G, n, m)
    PROVE  PairCost(s, t, F, G, n, m) \in Nat
<1>1. Cardinality(F) \in Nat /\ Cardinality(F) <= n /\ Cardinality(F) <= m
  BY PlacesAreNumbers DEF ArePaired
<1>2. Replaced(s, t, F, G) \in Nat
  BY <1>1, ReplacedIsNumber
<1> QED
  BY <1>1, <1>2 DEF PairCost

\* A last character left alone costs one.
LEMMA LeftAlone ==
    ASSUME NEW s, NEW t, NEW n \in Nat, NEW m \in Nat, NEW F, NEW G, ArePaired(F, G, n, m)
    PROVE  /\ ArePaired(F, G, n + 1, m) /\ ArePaired(F, G, n, m + 1)
           /\ PairCost(s, t, F, G, n + 1, m) = PairCost(s, t, F, G, n, m) + 1
           /\ PairCost(s, t, F, G, n, m + 1) = PairCost(s, t, F, G, n, m) + 1
<1>1. Cardinality(F) \in Nat
  BY PlacesAreNumbers DEF ArePaired
<1>2. Replaced(s, t, F, G) \in Nat
  BY <1>1, ReplacedIsNumber
<1>3. 1..n \subseteq 1..(n + 1) /\ 1..m \subseteq 1..(m + 1)
  OBVIOUS
<1> QED
  BY <1>1, <1>2, <1>3 DEF ArePaired, PairCost

\* Two last characters paired cost one if they differ.
LEMMA LastPaired ==
    ASSUME NEW s, NEW t, NEW n \in Nat, NEW m \in Nat, NEW F, NEW G, ArePaired(F, G, n, m)
    PROVE  /\ ArePaired(F \union {n + 1}, G \union {m + 1}, n + 1, m + 1)
           /\ PairCost(s, t, F \union {n + 1}, G \union {m + 1}, n + 1, m + 1) =
                PairCost(s, t, F, G, n, m) + IF s[n + 1] = t[m + 1] THEN 0 ELSE 1
<1> DEFINE k == Cardinality(F)
           f == Ascending(F)
           g == Ascending(G)
           F1 == F \union {n + 1}
           G1 == G \union {m + 1}
           D == {i \in 1..k : s[f[i]] # t[g[i]]}
           D1 == {i \in 1..(k + 1) : s[Ascending(F1)[i]] # t[Ascending(G1)[i]]}
<1>1. /\ F \in SUBSET (1..n) /\ G \in SUBSET (1..m) /\ k \in Nat /\ Cardinality(G) = k
      /\ F \in SUBSET Int /\ G \in SUBSET Int /\ IsFiniteSet(F) /\ IsFiniteSet(G)
  BY PlacesAreNumbers DEF ArePaired
<1>2. /\ Cardinality(F1) = k + 1
      /\ Ascending(F1) = [i \in 1..(k + 1) |-> IF i <= k THEN f[i] ELSE n + 1]
  <2>1. n + 1 \in Int /\ \A a \in F : a < n + 1
    BY <1>1
  <2> HIDE DEF F1
  <2>2. /\ Cardinality(F \union {n + 1}) = k + 1
        /\ Ascending(F \union {n + 1}) = [i \in 1..(k + 1) |-> IF i <= k THEN f[i] ELSE n + 1]
    BY <1>1, <2>1, LastAscending
  <2> QED
    BY <2>2 DEF F1
<1>3. /\ Cardinality(G1) = k + 1
      /\ Ascending(G1) = [i \in 1..(k + 1) |-> IF i <= k THEN g[i] ELSE m + 1]
  <2>1. m + 1 \in Int /\ \A a \in G : a < m + 1
    BY <1>1
  <2>2. /\ Cardinality(G \union {m + 1}) = Cardinality(G) + 1
        /\ Ascending(G \union {m + 1}) =
             [i \in 1..(Cardinality(G) + 1) |-> IF i <= Cardinality(G) THEN g[i] ELSE m + 1]
    BY <1>1, <2>1, LastAscending
  <2> QED
    BY <1>1, <2>2
<1>4. ArePaired(F1, G1, n + 1, m + 1)
  <2>1. F1 \in SUBSET (1..(n + 1)) /\ G1 \in SUBSET (1..(m + 1))
    BY <1>1
  <2> QED
    BY <1>2, <1>3, <2>1 DEF ArePaired
<1>5. Replaced(s, t, F, G) = Cardinality(D) /\ IsFiniteSet(D) /\ Cardinality(D) \in Nat
  BY <1>1, ReplacedIsNumber DEF Replaced
<1>6. Replaced(s, t, F1, G1) = Cardinality(D1)
  BY <1>2 DEF Replaced
<1> HIDE DEF k, f, g, F1, G1
<1>7. D1 = D \union (IF s[n + 1] = t[m + 1] THEN {} ELSE {k + 1}) /\ k + 1 \notin D
  <2>1. 1..(k + 1) = 1..k \union {k + 1} /\ ~(k + 1 <= k)
    BY <1>1
  <2>2. \A i \in 1..k : Ascending(F1)[i] = f[i] /\ Ascending(G1)[i] = g[i]
    BY <1>1, <1>2, <1>3
  <2>3. Ascending(F1)[k + 1] = n + 1 /\ Ascending(G1)[k + 1] = m + 1
    BY <1>1, <1>2, <1>3, <2>1
  <2>4. k + 1 \in D1 <=> s[n + 1] # t[m + 1]
    BY <2>1, <2>3
  <2>5. \A i \in 1..k : i \in D1 <=> i \in D
    BY <2>1, <2>2
  <2>6. D1 \subseteq 1..k \union {k + 1} /\ D \subseteq 1..k /\ k + 1 \notin 1..k
    BY <1>1, <2>1
  <2> HIDE DEF D, D1
  <2> QED
    BY <2>4, <2>5, <2>6
<1> HIDE DEF D, D1
<1>8. Cardinality(D1) = Cardinality(D) + IF s[n + 1] = t[m + 1] THEN 0 ELSE 1
  <2>1. CASE s[n + 1] = t[m + 1]
    <3>1. D1 = D
      BY <1>7, <2>1
    <3> QED
      BY <1>5, <2>1, <3>1
  <2>2. CASE s[n + 1] # t[m + 1]
    <3>1. D1 = D \union {k + 1}
      BY <1>7, <2>2
    <3> QED
      BY <1>5, <1>7, <2>2, <3>1, FS_AddElement
  <2> QED
    BY <2>1, <2>2
<1>9. PairCost(s, t, F1, G1, n + 1, m + 1) =
        PairCost(s, t, F, G, n, m) + IF s[n + 1] = t[m + 1] THEN 0 ELSE 1
  BY <1>1, <1>2, <1>5, <1>6, <1>8 DEF PairCost, k
<1> QED
  BY <1>4, <1>9 DEF F1, G1

\* Every pairing is one of fewer characters, with its last two left alone or paired.
LEMMA LastOfPairing ==
    ASSUME NEW n \in Nat, NEW m \in Nat, NEW F, NEW G, ArePaired(F, G, n + 1, m + 1)
    PROVE  \/ ArePaired(F, G, n, m + 1)
           \/ ArePaired(F, G, n + 1, m)
           \/ \E F0, G0 : /\ ArePaired(F0, G0, n, m)
                          /\ F = F0 \union {n + 1} /\ G = G0 \union {m + 1}
<1>1. /\ F \in SUBSET (1..(n + 1)) /\ G \in SUBSET (1..(m + 1)) /\ Cardinality(F) = Cardinality(G)
      /\ IsFiniteSet(F) /\ IsFiniteSet(G) /\ Cardinality(F) \in Nat
  <2>1. n + 1 \in Nat /\ m + 1 \in Nat
    OBVIOUS
  <2> QED
    BY <2>1, PlacesAreNumbers DEF ArePaired
<1>2. 1..(n + 1) = 1..n \union {n + 1} /\ 1..(m + 1) = 1..m \union {m + 1}
  OBVIOUS
<1>3. CASE n + 1 \notin F
  <2>1. F \in SUBSET (1..n)
    BY <1>1, <1>2, <1>3
  <2> QED
    BY <1>1, <2>1 DEF ArePaired
<1>4. CASE m + 1 \notin G
  <2>1. G \in SUBSET (1..m)
    BY <1>1, <1>2, <1>4
  <2> QED
    BY <1>1, <2>1 DEF ArePaired
<1>5. CASE n + 1 \in F /\ m + 1 \in G
  <2> DEFINE F0 == F \ {n + 1}
             G0 == G \ {m + 1}
  <2>1. F0 \in SUBSET (1..n) /\ G0 \in SUBSET (1..m)
    BY <1>1, <1>2
  <2>2. F = F0 \union {n + 1} /\ G = G0 \union {m + 1}
    BY <1>5
  <2>3. Cardinality(F0) = Cardinality(F) - 1 /\ Cardinality(G0) = Cardinality(G) - 1
    BY <1>1, <1>5, FS_RemoveElement
  <2>4. ArePaired(F0, G0, n, m)
    BY <1>1, <2>1, <2>3 DEF ArePaired
  <2> HIDE DEF F0, G0
  <2> QED
    BY <2>2, <2>4
<1> QED
  BY <1>3, <1>4, <1>5

LEMMA CostOfPrefixes ==
    ASSUME NEW s \in Strings, NEW t \in Strings, NEW n \in 0..Len(s), NEW m \in 0..Len(t),
           NEW F, NEW G, ArePaired(F, G, n, m)
    PROVE  Cost(Prefix(s, n), Prefix(t, m), F, G) = PairCost(s, t, F, G, n, m)
<1> DEFINE k == Cardinality(F)
           f == Ascending(F)
           g == Ascending(G)
           u == Prefix(s, n)
           w == Prefix(t, m)
<1>1. n \in Nat /\ m \in Nat
  BY StringsAreSequences
<1>2. /\ F \in SUBSET (1..n) /\ G \in SUBSET (1..m) /\ k \in Nat /\ Cardinality(G) = k
      /\ F \in SUBSET Int /\ G \in SUBSET Int /\ IsFiniteSet(F) /\ IsFiniteSet(G)
  BY <1>1, PlacesAreNumbers DEF ArePaired
<1>3. f \in [1..k -> F] /\ g \in [1..k -> G]
  BY <1>2, AscendingProperties
<1>4. /\ Len(u) = n /\ Len(w) = m
      /\ \A i \in 1..n : u[i] = s[i]
      /\ \A i \in 1..m : w[i] = t[i]
  BY PrefixOfString
<1> HIDE DEF k, f, g, u, w
<1>5. DOMAIN f = 1..k /\ Len(f) = k
  BY <1>2, <1>3
<1>6. \A i \in 1..k : u[f[i]] = s[f[i]] /\ w[g[i]] = t[g[i]]
  BY <1>2, <1>3, <1>4
<1>7. {i \in DOMAIN f : u[f[i]] # w[g[i]]} = {i \in 1..k : s[f[i]] # t[g[i]]}
  BY <1>5, <1>6
<1>8. Cost(u, w, F, G) = Cardinality({i \in DOMAIN f : u[f[i]] # w[g[i]]}) + Len(u) + Len(w) - 2 * Len(f)
  BY DEF Cost, f, g
<1> QED
  BY <1>4, <1>5, <1>7, <1>8 DEF PairCost, Replaced, k, f, g, u, w

\* The fewest edits between prefixes are the least cost of their pairings.
LEMMA EditsAreFewest ==
    ASSUME NEW s \in Strings, NEW t \in Strings, NEW n \in 0..Len(s), NEW m \in 0..Len(t)
    PROVE  /\ Edits[Prefix(s, n)][Prefix(t, m)] \in Nat
           /\ \E F, G : ArePaired(F, G, n, m) /\ Edits[Prefix(s, n)][Prefix(t, m)] = PairCost(s, t, F, G, n, m)
           /\ \A F, G : ArePaired(F, G, n, m) => Edits[Prefix(s, n)][Prefix(t, m)] <= PairCost(s, t, F, G, n, m)
<1> DEFINE u == Prefix(s, n)
           w == Prefix(t, m)
           costs == {Cost(u, w, p[1], p[2]) : p \in Pairings(u, w)}
<1>1. u \in Strings /\ w \in Strings /\ DOMAIN u = 1..n /\ DOMAIN w = 1..m
  BY PrefixOfString
<1>2. n \in Nat /\ m \in Nat
  BY StringsAreSequences
<1>3. Edits[u][w] = Min(costs)
  <2> HIDE DEF u, w
  <2> QED
    BY <1>1 DEF Edits
<1>4. \A F, G : ArePaired(F, G, n, m) => Cost(u, w, F, G) = PairCost(s, t, F, G, n, m)
  BY CostOfPrefixes
<1>5. \A F, G : <<F, G>> \in Pairings(u, w) <=> ArePaired(F, G, n, m)
  <2> HIDE DEF u, w
  <2> QED
    BY <1>1 DEF Pairings, ArePaired
<1>6. \A p \in Pairings(u, w) : p = <<p[1], p[2]>>
  BY DEF Pairings
<1> HIDE DEF u, w
<1>7. \A c : c \in costs <=> \E F, G : ArePaired(F, G, n, m) /\ c = PairCost(s, t, F, G, n, m)
  <2>1. ASSUME NEW c \in costs
        PROVE  \E F, G : ArePaired(F, G, n, m) /\ c = PairCost(s, t, F, G, n, m)
    <3>1. PICK p \in Pairings(u, w) : c = Cost(u, w, p[1], p[2])
      OBVIOUS
    <3>2. ArePaired(p[1], p[2], n, m)
      BY <1>5, <1>6
    <3> QED
      BY <1>4, <3>1, <3>2
  <2>2. ASSUME NEW F, NEW G, ArePaired(F, G, n, m)
        PROVE  PairCost(s, t, F, G, n, m) \in costs
    <3>1. <<F, G>> \in Pairings(u, w) /\ <<F, G>>[1] = F /\ <<F, G>>[2] = G
      BY <1>5, <2>2
    <3>2. Cost(u, w, <<F, G>>[1], <<F, G>>[2]) \in costs
      BY <3>1
    <3> QED
      BY <1>4, <2>2, <3>1, <3>2
  <2> HIDE DEF costs
  <2> QED
    BY <2>1, <2>2
<1> HIDE DEF costs
<1>8. costs \in SUBSET Nat
  BY <1>2, <1>7, PairCostIsNumber
<1>9. costs # {}
  <2>1. ArePaired({}, {}, n, m)
    BY DEF ArePaired
  <2> QED
    BY <1>7, <2>1
<1>10. Min(costs) \in costs /\ \A c \in costs : Min(costs) <= c
  BY <1>8, <1>9, MinOfNumbers
<1> QED
  BY <1>3, <1>7, <1>8, <1>10 DEF u, w

LEMMA EditsOfEmpty ==
    ASSUME NEW s \in Strings, NEW t \in Strings
    PROVE  /\ \A n \in 0..Len(s) : Edits[Prefix(s, n)][Prefix(t, 0)] = n
           /\ \A m \in 0..Len(t) : Edits[Prefix(s, 0)][Prefix(t, m)] = m
<1>1. Len(s) \in Nat /\ Len(t) \in Nat
  BY StringsAreSequences
<1>2. ASSUME NEW n \in Nat, NEW m \in Nat, n = 0 \/ m = 0, NEW F, NEW G, ArePaired(F, G, n, m)
      PROVE  PairCost(s, t, F, G, n, m) = n + m
  <2>1. Cardinality(F) = 0
    <3>1. F = {} \/ G = {}
      <4>1. 1..0 = {}
        OBVIOUS
      <4> QED
        BY <1>2, <4>1 DEF ArePaired
    <3> QED
      BY <1>2, <3>1, FS_EmptySet DEF ArePaired
  <2>2. Replaced(s, t, F, G) = 0
    <3>1. 1..0 = {}
      OBVIOUS
    <3>2. {i \in 1..Cardinality(F) : s[Ascending(F)[i]] # t[Ascending(G)[i]]} = {}
      BY <2>1, <3>1
    <3> QED
      BY <3>2, FS_EmptySet DEF Replaced
  <2> QED
    BY <2>1, <2>2 DEF PairCost
<1>3. ASSUME NEW n \in 0..Len(s), NEW m \in 0..Len(t), n = 0 \/ m = 0
      PROVE  Edits[Prefix(s, n)][Prefix(t, m)] = n + m
  <2>1. n \in Nat /\ m \in Nat
    BY <1>1
  <2>2. \E F, G : ArePaired(F, G, n, m) /\ Edits[Prefix(s, n)][Prefix(t, m)] = PairCost(s, t, F, G, n, m)
    BY EditsAreFewest
  <2> QED
    BY <1>2, <1>3, <2>1, <2>2
<1>4. ASSUME NEW n \in 0..Len(s)
      PROVE  Edits[Prefix(s, n)][Prefix(t, 0)] = n
  <2>1. 0 \in 0..Len(t) /\ n + 0 = n
    BY <1>1
  <2> QED
    BY <1>3, <2>1
<1>5. ASSUME NEW m \in 0..Len(t)
      PROVE  Edits[Prefix(s, 0)][Prefix(t, m)] = m
  <2>1. 0 \in 0..Len(s) /\ 0 + m = m
    BY <1>1
  <2> QED
    BY <1>3, <2>1
<1> QED
  BY <1>4, <1>5

\* What the loop relies on: the last two characters are left alone or paired.
LEMMA EditsRecur ==
    ASSUME NEW s \in Strings, NEW t \in Strings, NEW n \in 0..(Len(s) - 1), NEW m \in 0..(Len(t) - 1)
    PROVE  Edits[Prefix(s, n + 1)][Prefix(t, m + 1)] =
             Min({Edits[Prefix(s, n + 1)][Prefix(t, m)] + 1,
                  Edits[Prefix(s, n)][Prefix(t, m + 1)] + 1,
                  Edits[Prefix(s, n)][Prefix(t, m)] + IF s[n + 1] = t[m + 1] THEN 0 ELSE 1})
<1> DEFINE a == Edits[Prefix(s, n + 1)][Prefix(t, m)]
           b == Edits[Prefix(s, n)][Prefix(t, m + 1)]
           c == Edits[Prefix(s, n)][Prefix(t, m)]
           d == Edits[Prefix(s, n + 1)][Prefix(t, m + 1)]
           cost == IF s[n + 1] = t[m + 1] THEN 0 ELSE 1
           least == Min({a + 1, b + 1, c + cost})
           C(F, G, i, j) == PairCost(s, t, F, G, i, j)
<1>1. /\ n \in Nat /\ m \in Nat /\ n \in 0..Len(s) /\ n + 1 \in 0..Len(s)
      /\ m \in 0..Len(t) /\ m + 1 \in 0..Len(t)
  BY StringsAreSequences
<1>2. /\ a \in Nat /\ b \in Nat /\ c \in Nat /\ d \in Nat /\ cost \in Nat
      /\ \E F, G : ArePaired(F, G, n + 1, m) /\ a = C(F, G, n + 1, m)
      /\ \E F, G : ArePaired(F, G, n, m + 1) /\ b = C(F, G, n, m + 1)
      /\ \E F, G : ArePaired(F, G, n, m) /\ c = C(F, G, n, m)
      /\ \E F, G : ArePaired(F, G, n + 1, m + 1) /\ d = C(F, G, n + 1, m + 1)
      /\ \A F, G : ArePaired(F, G, n + 1, m) => a <= C(F, G, n + 1, m)
      /\ \A F, G : ArePaired(F, G, n, m + 1) => b <= C(F, G, n, m + 1)
      /\ \A F, G : ArePaired(F, G, n, m) => c <= C(F, G, n, m)
      /\ \A F, G : ArePaired(F, G, n + 1, m + 1) => d <= C(F, G, n + 1, m + 1)
  BY <1>1, EditsAreFewest
<1> HIDE DEF a, b, c, d, cost
<1>3. least \in {a + 1, b + 1, c + cost} /\ \A k \in {a + 1, b + 1, c + cost} : least <= k
  <2>1. {a + 1, b + 1, c + cost} \in SUBSET Nat /\ {a + 1, b + 1, c + cost} # {}
    BY <1>2
  <2> QED
    BY <2>1, MinOfNumbers
<1> HIDE DEF least
<1>4. a \in Nat /\ b \in Nat /\ c \in Nat /\ d \in Nat /\ cost \in Nat /\ n + 1 \in Nat /\ m + 1 \in Nat
  BY <1>1, <1>2
<1>5. least \in Nat /\ least <= a + 1 /\ least <= b + 1 /\ least <= c + cost
  BY <1>3, <1>4
<1> HIDE DEF C
<1>6. d <= a + 1
  <2>1. PICK F, G : ArePaired(F, G, n + 1, m) /\ a = C(F, G, n + 1, m)
    BY <1>2
  <2>2. ArePaired(F, G, n + 1, m + 1) /\ C(F, G, n + 1, m + 1) = a + 1
    <3>1. n + 1 \in Nat
      BY <1>1
    <3> QED
      BY <1>1, <2>1, <3>1, LeftAlone DEF C
  <2> QED
    BY <1>2, <2>2
<1>7. d <= b + 1
  <2>1. PICK F, G : ArePaired(F, G, n, m + 1) /\ b = C(F, G, n, m + 1)
    BY <1>2
  <2>2. ArePaired(F, G, n + 1, m + 1) /\ C(F, G, n + 1, m + 1) = b + 1
    <3>1. m + 1 \in Nat
      BY <1>1
    <3> QED
      BY <1>1, <2>1, <3>1, LeftAlone DEF C
  <2> QED
    BY <1>2, <2>2
<1>8. d <= c + cost
  <2>1. PICK F, G : ArePaired(F, G, n, m) /\ c = C(F, G, n, m)
    BY <1>2
  <2> DEFINE F1 == F \union {n + 1}
             G1 == G \union {m + 1}
  <2>2. ArePaired(F1, G1, n + 1, m + 1) /\ C(F1, G1, n + 1, m + 1) = c + cost
    <3>1. ArePaired(F1, G1, n + 1, m + 1)
      BY <1>1, <2>1, LastPaired
    <3>2. C(F1, G1, n + 1, m + 1) = C(F, G, n, m) + cost
      BY <1>1, <2>1, LastPaired DEF cost, C
    <3> QED
      BY <2>1, <3>1, <3>2
  <2> HIDE DEF F1, G1, C
  <2> QED
    BY <1>2, <2>2
<1>9. d = least
  <2>1. d <= least
    BY <1>3, <1>6, <1>7, <1>8
  <2>2. PICK F, G : ArePaired(F, G, n + 1, m + 1) /\ d = C(F, G, n + 1, m + 1)
    BY <1>2
  <2>3. CASE ArePaired(F, G, n, m + 1)
    <3>1. b <= C(F, G, n, m + 1)
      BY <1>2, <2>3
    <3>4. C(F, G, n, m + 1) \in Nat
      BY <1>1, <1>4, <2>3, PairCostIsNumber DEF C
    <3>2. d = C(F, G, n, m + 1) + 1
      BY <1>1, <2>2, <2>3, LeftAlone DEF C
    <3> HIDE DEF C
    <3> QED
      BY <1>5, <1>4, <2>1, <3>1, <3>2, <3>4
  <2>4. CASE ArePaired(F, G, n + 1, m)
    <3>1. a <= C(F, G, n + 1, m)
      BY <1>2, <2>4
    <3>4. C(F, G, n + 1, m) \in Nat
      BY <1>1, <1>4, <2>4, PairCostIsNumber DEF C
    <3>2. d = C(F, G, n + 1, m) + 1
      BY <1>1, <2>2, <2>4, LeftAlone DEF C
    <3> HIDE DEF C
    <3> QED
      BY <1>5, <1>4, <2>1, <3>1, <3>2, <3>4
  <2>5. ASSUME NEW F0, NEW G0, ArePaired(F0, G0, n, m),
               F = F0 \union {n + 1}, G = G0 \union {m + 1}
        PROVE  d = least
    <3>1. c <= C(F0, G0, n, m)
      BY <1>2, <2>5
    <3>4. C(F0, G0, n, m) \in Nat
      BY <1>1, <1>4, <2>5, PairCostIsNumber DEF C
    <3>2. d = C(F0, G0, n, m) + cost
      BY <1>1, <2>2, <2>5, LastPaired DEF cost, C
    <3> HIDE DEF C
    <3> QED
      BY <1>5, <1>4, <2>1, <3>1, <3>2, <3>4
  <2>6. CASE \E F0, G0 : ArePaired(F0, G0, n, m) /\ F = F0 \union {n + 1} /\ G = G0 \union {m + 1}
    BY <2>5, <2>6
  <2> QED
    BY <1>1, <2>2, <2>3, <2>4, <2>6, LastOfPairing
<1> QED
  BY <1>9 DEF a, b, c, d, cost, least

-----------------------------------------------------------------------------
(* The inductive invariant of the loop *)

LevenshteinOK ==
    /\ source \in Strings /\ target \in Strings
    /\ column = [j \in 0..Len(source) |-> column[j]]
    /\ x \in 0..Len(target) /\ y \in 0..Len(source)
    /\ x = 0 => y = Len(source)

LevenshteinInv == LevenshteinOK /\ ColumnIsExact

LEMMA InitLevenshtein == Init => LevenshteinInv
<1> SUFFICES ASSUME Init
             PROVE  LevenshteinInv
  OBVIOUS
<1>1. source \in Strings /\ target \in Strings /\ Len(source) \in Nat /\ Len(target) \in Nat
  BY StringsAreSequences DEF Init
<1>2. LevenshteinOK
  BY <1>1 DEF Init, LevenshteinOK
<1>3. \A j \in 0..Len(source) : Edits[Prefix(source, j)][Prefix(target, 0)] = j
  BY <1>1, EditsOfEmpty
<1>4. ColumnIsExact
  BY <1>1, <1>3 DEF Init, ColumnIsExact
<1> QED
  BY <1>2, <1>4 DEF LevenshteinInv

LEMMA BeginCharacterKeepsInv == LevenshteinInv /\ BeginCharacter => LevenshteinInv'
<1> SUFFICES ASSUME LevenshteinInv, BeginCharacter
             PROVE  LevenshteinInv'
  OBVIOUS
<1> DEFINE n == Len(source)
           m == Len(target)
<1>1. /\ source \in Strings /\ target \in Strings /\ n \in Nat /\ m \in Nat
      /\ column = [j \in 0..n |-> column[j]] /\ x \in 0..m
  BY StringsAreSequences DEF LevenshteinInv, LevenshteinOK
<1>2. /\ y = n /\ x < m /\ x' = x + 1 /\ y' = 0 /\ source' = source /\ target' = target
      /\ column' = [column EXCEPT ![0] = x + 1] /\ lastDiagonal' = x
  BY DEF BeginCharacter
<1>3. \A j \in 0..n : column[j] = Edits[Prefix(source, j)][Prefix(target, x)]
  BY <1>1, <1>2 DEF LevenshteinInv, ColumnIsExact
<1>4. column'[0] = x + 1 /\ \A j \in 0..n : j # 0 => column'[j] = column[j]
  BY <1>1, <1>2
<1>5. LevenshteinOK'
  <2>1. x + 1 \in 0..m /\ 0 \in 0..n
    BY <1>1, <1>2
  <2>2. column' = [j \in 0..n |-> column'[j]]
    BY <1>1, <1>2
  <2> QED
    BY <1>1, <1>2, <2>1, <2>2 DEF LevenshteinOK
<1>6. Edits[Prefix(source, 0)][Prefix(target, x + 1)] = x + 1
      /\ Edits[Prefix(source, 0)][Prefix(target, x)] = x
  BY <1>1, <1>2, EditsOfEmpty
<1>7. x' - 1 = x
  BY <1>1, <1>2
<1>8. ColumnIsExact'
  <2>1. ASSUME NEW j \in 0..n
        PROVE  column'[j] = Edits[Prefix(source, j)][Prefix(target, IF j <= 0 THEN x + 1 ELSE x)]
    <3>1. CASE j = 0
      BY <1>4, <1>6, <3>1
    <3>2. CASE j # 0
      BY <1>1, <1>3, <1>4, <3>2
    <3> QED
      BY <3>1, <3>2
  <2> QED
    BY <1>2, <1>6, <1>7, <2>1 DEF ColumnIsExact
<1> QED
  BY <1>5, <1>8 DEF LevenshteinInv

LEMMA FillCellKeepsInv == LevenshteinInv /\ FillCell => LevenshteinInv'
<1> SUFFICES ASSUME LevenshteinInv, FillCell
             PROVE  LevenshteinInv'
  OBVIOUS
<1> DEFINE n == Len(source)
           m == Len(target)
           cost == IF source[y + 1] = target[x] THEN 0 ELSE 1
           E(i, j) == Edits[Prefix(source, i)][Prefix(target, j)]
<1>1. /\ source \in Strings /\ target \in Strings /\ n \in Nat /\ m \in Nat
      /\ column = [j \in 0..n |-> column[j]] /\ x \in 0..m /\ y \in 0..n
      /\ x = 0 => y = n
  BY StringsAreSequences DEF LevenshteinInv, LevenshteinOK
<1>2. /\ y < n /\ y' = y + 1 /\ source' = source /\ target' = target /\ x' = x
      /\ column' = [column EXCEPT ![y + 1] = Min({column[y + 1] + 1, column[y] + 1, lastDiagonal + cost})]
      /\ lastDiagonal' = column[y + 1]
  BY DEF FillCell, OldDiagonal
<1>3. /\ x \in Nat /\ x # 0 /\ x - 1 \in 0..(m - 1) /\ y \in 0..(n - 1) /\ y + 1 \in 0..n
      /\ (x - 1) + 1 = x /\ ~(y + 1 <= y)
  BY <1>1, <1>2
<1>4. /\ column[y + 1] = E(y + 1, x - 1) /\ column[y] = E(y, x) /\ lastDiagonal = E(y, x - 1)
      /\ \A j \in 0..n : column[j] = E(j, IF j <= y THEN x ELSE x - 1)
  BY <1>1, <1>2, <1>3 DEF LevenshteinInv, ColumnIsExact
<1>5. E(y + 1, x) = Min({column[y + 1] + 1, column[y] + 1, lastDiagonal + cost})
  <2>1. \A i \in 0..(n - 1), j \in 0..(m - 1) :
          E(i + 1, j + 1) = Min({E(i + 1, j) + 1, E(i, j + 1) + 1,
                                 E(i, j) + IF source[i + 1] = target[j + 1] THEN 0 ELSE 1})
    BY <1>1, EditsRecur
  <2> HIDE DEF E
  <2> QED
    BY <1>3, <1>4, <2>1
<1> HIDE DEF E, cost
<1>6. column'[y + 1] = E(y + 1, x) /\ \A j \in 0..n : j # y + 1 => column'[j] = column[j]
  BY <1>1, <1>2, <1>3, <1>5
<1>7. LevenshteinOK'
  <2>1. column' = [j \in 0..n |-> column'[j]]
    BY <1>1, <1>2
  <2> QED
    BY <1>1, <1>2, <1>3, <2>1 DEF LevenshteinOK
<1>8. \A j \in 0..n : column'[j] = E(j, IF j <= y + 1 THEN x ELSE x - 1)
  <2> SUFFICES ASSUME NEW j \in 0..n
               PROVE  column'[j] = E(j, IF j <= y + 1 THEN x ELSE x - 1)
    OBVIOUS
  <2>1. CASE j = y + 1
    BY <1>3, <1>6, <2>1
  <2>2. CASE j # y + 1
    <3>1. j <= y + 1 <=> j <= y
      BY <1>1, <2>2
    <3> QED
      BY <1>4, <1>6, <2>2, <3>1
  <2> QED
    BY <2>1, <2>2
<1>9. ColumnIsExact'
  BY <1>2, <1>4, <1>8 DEF ColumnIsExact, E
<1> QED
  BY <1>7, <1>9 DEF LevenshteinInv

\* Every cell that levenshteinDistance has filled is the fewest deletions, insertions
\* and replacements that turn one prefix into the other, for strings of every length.
THEOREM ColumnIsAlwaysExact == Spec => []ColumnIsExact
<1>1. Init => LevenshteinInv
  BY InitLevenshtein
<1>2. LevenshteinInv /\ [Next]_vars => LevenshteinInv'
  <2>1. LevenshteinInv /\ UNCHANGED vars => LevenshteinInv'
    BY DEF LevenshteinInv, LevenshteinOK, ColumnIsExact, vars
  <2> QED
    BY <2>1, BeginCharacterKeepsInv, FillCellKeepsInv DEF Next
<1>3. LevenshteinInv => ColumnIsExact
  BY DEF LevenshteinInv
<1> QED
  BY <1>1, <1>2, <1>3, PTL DEF Spec

-----------------------------------------------------------------------------
(* snapshotChecksum: places *)

\* The first places of an input, in order.
Places(count) == [i \in 1..count |-> i]

LEMMA NextPlaces ==
    ASSUME NEW p \in Nat, NEW count \in Nat
    PROVE  Places(p) \o [i \in 1..count |-> p + i] = Places(p + count)
<1> DEFINE more == [i \in 1..count |-> p + i]
<1>1. Places(p) \in Seq(Nat) /\ Len(Places(p)) = p /\ \A i \in 1..p : Places(p)[i] = i
  BY DEF Places
<1>2. more \in Seq(Nat) /\ Len(more) = count /\ \A i \in 1..count : more[i] = p + i
  OBVIOUS
<1>3. Places(p + count) \in Seq(Nat) /\ Len(Places(p + count)) = p + count
      /\ \A i \in 1..(p + count) : Places(p + count)[i] = i
  BY DEF Places
<1> HIDE DEF more
<1>4. Places(p) \o more \in Seq(Nat) /\ Len(Places(p) \o more) = p + count
      /\ \A i \in 1..(p + count) : (Places(p) \o more)[i] = i
  <2>1. /\ Places(p) \o more \in Seq(Nat)
        /\ Len(Places(p) \o more) = Len(Places(p)) + Len(more)
        /\ \A i \in 1..(Len(Places(p)) + Len(more)) :
             (Places(p) \o more)[i] = IF i <= Len(Places(p)) THEN Places(p)[i]
                                      ELSE more[i - Len(Places(p))]
    BY <1>1, <1>2, ConcatProperties
  <2>2. ASSUME NEW i \in 1..(p + count)
        PROVE  (Places(p) \o more)[i] = i
    <3>1. CASE i <= p
      BY <1>1, <1>2, <2>1, <3>1
    <3>2. CASE ~(i <= p)
      <4>1. i - p \in 1..count /\ p + (i - p) = i
        BY <3>2
      <4> QED
        BY <1>1, <1>2, <2>1, <3>2, <4>1
    <3> QED
      BY <3>1, <3>2
  <2> QED
    BY <1>1, <1>2, <2>1, <2>2
<1>5. Places(p) \o more = Places(p + count)
  BY <1>3, <1>4, SeqEqual
<1> QED
  BY <1>5 DEF more

\* The bytes of the four lanes of a block follow each other.
LEMMA LanesAreABlock ==
    ASSUME position \in Nat
    PROVE  [j \in 1..BlockBytes |->
              LaneStart(1 + ((j - 1) \div LaneBytes)) + 1 + ((j - 1) % LaneBytes)]
             = [j \in 1..BlockBytes |-> position + j]
<1>1. \A j \in 1..16 : position + ((1 + ((j - 1) \div 4)) - 1) * 4 + 1 + ((j - 1) % 4) = position + j
  OBVIOUS
<1> QED
  BY <1>1 DEF BlockBytes, LaneBytes, LaneStart

\* The places read are the first ones, and none is beyond the end.
ReadInOrder ==
    /\ size \in 1..MaxSize
    /\ position \in 0..size
    /\ consumed = Places(position)
    /\ stage \in {"blocks", "lanes", "half", "bytes", "done"}
    /\ stage = "done" => position = size

\* What is left does not wrap.
LEMMA RemainingIsExact == ReadInOrder => Remaining = size - position
<1> SUFFICES ASSUME ReadInOrder
             PROVE  (size - position) % 256 = size - position
  BY DEF Remaining, WordSize
<1>1. size - position \in 0..255
  BY ChecksumAssumption DEF ReadInOrder, WordSize
<1> QED
  BY <1>1

LEMMA NextReadsInOrder == ReadInOrder /\ [ChecksumNext]_checksumVars => ReadInOrder'
<1> SUFFICES ASSUME ReadInOrder, [ChecksumNext]_checksumVars
             PROVE  ReadInOrder'
  OBVIOUS
<1>1. /\ position \in Nat /\ size \in Nat /\ MaxSize \in Nat /\ Remaining = size - position
      /\ position <= size
  BY RemainingIsExact, ChecksumAssumption DEF ReadInOrder, WordSize
<1>2. ASSUME NEW count \in 1..16, count <= size - position, Consume(count),
             stage' \in {"lanes", "bytes"}
      PROVE  ReadInOrder'
  <2>1. /\ position' = position + count /\ size' = size
        /\ consumed' = consumed \o [i \in 1..count |-> position + i]
    BY <1>2 DEF Consume
  <2>2. consumed' = Places(position')
    <3>1. count \in Nat
      OBVIOUS
    <3>2. Places(position) \o [i \in 1..count |-> position + i] = Places(position + count)
      BY <1>1, <3>1, NextPlaces
    <3> QED
      BY <2>1, <3>2 DEF ReadInOrder
  <2>3. position' \in 0..size'
    BY <1>1, <1>2, <2>1
  <2> QED
    BY <1>2, <2>1, <2>2, <2>3 DEF ReadInOrder
<1>3. CASE Block
  <2>1. /\ 16 <= size - position /\ position' = position + 16 /\ size' = size /\ stage' = stage
        /\ stage = "blocks"
    BY <1>1, <1>3 DEF Block, BlockBytes
  <2>2. consumed' = consumed \o [j \in 1..16 |-> position + j]
    BY <1>1, <1>3, LanesAreABlock DEF Block, BlockBytes
  <2>3. consumed' = Places(position')
    <3>1. Places(position) \o [j \in 1..16 |-> position + j] = Places(position + 16)
      BY <1>1, NextPlaces
    <3> QED
      BY <2>1, <2>2, <3>1 DEF ReadInOrder
  <2>4. position' \in 0..size'
    BY <1>1, <2>1
  <2> QED
    BY <2>1, <2>3, <2>4 DEF ReadInOrder
<1>4. CASE LeftLane
  <2>1. 4 <= size - position /\ Consume(4) /\ stage' = "lanes"
    BY <1>1, <1>4 DEF LeftLane, LaneBytes
  <2> QED
    BY <1>2, <2>1
<1>5. CASE HalfLane
  <2>1. 2 <= size - position /\ Consume(2) /\ stage' = "bytes"
    BY <1>1, <1>5 DEF HalfLane, HalfBytes
  <2> QED
    BY <1>2, <2>1
<1>6. CASE LastByte
  <2>1. position # size /\ Consume(1) /\ stage' = "bytes"
    BY <1>6 DEF LastByte
  <2>2. 1 <= size - position
    BY <1>1, <2>1
  <2> QED
    BY <1>2, <2>1, <2>2
<1>7. CASE EndBlocks \/ EndLanes \/ NoHalfLane \/ EndBytes \/ UNCHANGED checksumVars
  BY <1>7 DEF EndBlocks, EndLanes, NoHalfLane, EndBytes, GoOn, checksumVars, ReadInOrder
<1> QED
  BY <1>3, <1>4, <1>5, <1>6, <1>7 DEF ChecksumNext

\* The loops read each byte exactly once and in order, and none beyond the end,
\* for every size of the input.
THEOREM EveryByteIsReadOnce == ChecksumSpec => []EveryByteOnce
<1>1. ChecksumInit => ReadInOrder
  BY ChecksumAssumption DEF ChecksumInit, ReadInOrder, Places, WordSize
<1>2. ReadInOrder => EveryByteOnce
  BY DEF ReadInOrder, EveryByteOnce, Places
<1> QED
  BY <1>1, <1>2, NextReadsInOrder, PTL DEF ChecksumSpec

-----------------------------------------------------------------------------
(* Words: what the steps of the checksum are made of is one-to-one.        *)

\* Multiplied by its inverse, a product gives back its other factor.
LEMMA OddFactors ==
    ASSUME NEW a \in Word
    PROVE  /\ (Times(a, P1) * 55) % WordSize = a
           /\ (Times(a, P2) * 175) % WordSize = a
           /\ (Times(a, P3) * 73) % WordSize = a
           /\ (Times(a, P5) * 13) % WordSize = a
<1>3. a \in 0..255
  BY DEF Word, WordSize
<1>1. \A n \in Int : (a + 256 * n) % 256 = a
  BY <1>3
<1>2. \A n \in Int : \E q \in Int : n % 256 = n - 256 * q
  <2>1. ASSUME NEW n \in Int
        PROVE  n \div 256 \in Int /\ n % 256 = n - 256 * (n \div 256)
    OBVIOUS
  <2> QED
    BY <2>1
<1>4. (Times(a, P1) * 55) % WordSize = a
  <2>1. PICK q \in Int : (a * 135) % 256 = a * 135 - 256 * q
    <3>1. a * 135 \in Int
      BY DEF Word
    <3> QED
      BY <1>2, <3>1
  <2>2. ((a * 135) % 256) * 55 = a + 256 * (29 * a - 55 * q) /\ 29 * a - 55 * q \in Int
    BY <2>1, <1>3
  <2> QED
    BY <1>1, <2>2 DEF Times, P1, WordSize
<1>5. (Times(a, P2) * 175) % WordSize = a
  <2>1. PICK q \in Int : (a * 79) % 256 = a * 79 - 256 * q
    <3>1. a * 79 \in Int
      BY DEF Word
    <3> QED
      BY <1>2, <3>1
  <2>2. ((a * 79) % 256) * 175 = a + 256 * (54 * a - 175 * q) /\ 54 * a - 175 * q \in Int
    BY <2>1, <1>3
  <2> QED
    BY <1>1, <2>2 DEF Times, P2, WordSize
<1>6. (Times(a, P3) * 73) % WordSize = a
  <2>1. PICK q \in Int : (a * 249) % 256 = a * 249 - 256 * q
    <3>1. a * 249 \in Int
      BY DEF Word
    <3> QED
      BY <1>2, <3>1
  <2>2. ((a * 249) % 256) * 73 = a + 256 * (71 * a - 73 * q) /\ 71 * a - 73 * q \in Int
    BY <2>1, <1>3
  <2> QED
    BY <1>1, <2>2 DEF Times, P3, WordSize
<1>7. (Times(a, P5) * 13) % WordSize = a
  <2>1. PICK q \in Int : (a * 197) % 256 = a * 197 - 256 * q
    <3>1. a * 197 \in Int
      BY DEF Word
    <3> QED
      BY <1>2, <3>1
  <2>2. ((a * 197) % 256) * 13 = a + 256 * (10 * a - 13 * q) /\ 10 * a - 13 * q \in Int
    BY <2>1, <1>3
  <2> QED
    BY <1>1, <2>2 DEF Times, P5, WordSize
<1> QED
  BY <1>4, <1>5, <1>6, <1>7

LEMMA ProductIsWord ==
    ASSUME NEW a \in Int, NEW b \in Int
    PROVE  Plus(a, b) \in Word /\ (a * b \in Int => Times(a, b) \in Word)
  BY DEF Plus, Times, Word, WordSize

LEMMA TimesIsOneToOne ==
    ASSUME NEW P \in {P1, P2, P3, P5}
    PROVE  /\ \A a \in Word : Times(a, P) \in Word
           /\ \A a, b \in Word : Times(a, P) = Times(b, P) => a = b
<1>1. \A a \in Word : Times(a, P1) \in Word /\ Times(a, P2) \in Word /\ Times(a, P3) \in Word /\ Times(a, P5) \in Word
  BY DEF Times, Word, WordSize, P1, P2, P3, P5
<1> QED
  BY <1>1, OddFactors

LEMMA PlusIsOneToOne ==
    ASSUME NEW P \in {P3, P4}
    PROVE  /\ \A a \in Word : Plus(a, P) \in Word
           /\ \A a, b \in Word : Plus(a, P) = Plus(b, P) => a = b
<1>1. /\ \A a \in 0..255 : (a + 249) % 256 = IF a + 249 < 256 THEN a + 249 ELSE a + 249 - 256
      /\ \A a \in 0..255 : (a + 99) % 256 = IF a + 99 < 256 THEN a + 99 ELSE a + 99 - 256
  OBVIOUS
<1>2. CASE P = P3
  BY <1>1, <1>2 DEF Plus, Word, WordSize, P3
<1>3. CASE P = P4
  BY <1>1, <1>3 DEF Plus, Word, WordSize, P4
<1> QED
  BY <1>2, <1>3

LEMMA RotateIsOneToOne ==
    ASSUME NEW n \in 1..4
    PROVE  /\ \A a \in Word : rotate64(a, n) \in Word
           /\ \A a, b \in Word : rotate64(a, n) = rotate64(b, n) => a = b
<1>1. 2^1 = 2 /\ 2^2 = 4 /\ 2^3 = 8 /\ 2^4 = 16 /\ 2^(8 - 1) = 128 /\ 2^(8 - 2) = 64 /\ 2^(8 - 3) = 32 /\ 2^(8 - 4) = 16
  OBVIOUS
<1>2. CASE n = 1
  <2>1. ASSUME NEW a \in Word
        PROVE  \E h \in 0..1, l \in 0..127 : a = 128 * h + l /\ rotate64(a, n) = 2 * l + h
    <3> DEFINE h == a \div 128
               l == a - 128 * h
    <3>1. h \in 0..1 /\ l \in 0..127
      BY DEF Word, WordSize
    <3>2. (a * 2) % 256 = 2 * l
      BY DEF Word, WordSize
    <3>3. rotate64(a, n) = 2 * l + h
      BY <1>1, <1>2, <3>2 DEF rotate64, WordSize
    <3>4. a = 128 * h + l
      BY <3>1 DEF Word, WordSize
    <3> HIDE DEF h, l
    <3> QED
      BY <3>1, <3>3, <3>4
  <2>2. ASSUME NEW a \in Word
        PROVE  rotate64(a, n) \in Word
    BY <2>1 DEF Word, WordSize
  <2>3. ASSUME NEW a \in Word, NEW b \in Word, rotate64(a, n) = rotate64(b, n)
        PROVE  a = b
    <3>1. PICK h \in 0..1, l \in 0..127 : a = 128 * h + l /\ rotate64(a, n) = 2 * l + h
      BY <2>1
    <3>2. PICK i \in 0..1, j \in 0..127 : b = 128 * i + j /\ rotate64(b, n) = 2 * j + i
      BY <2>1
    <3>3. 2 * l + h = 2 * j + i
      BY <2>3, <3>1, <3>2
    <3>4. h = i /\ l = j
      BY <3>3
    <3> QED
      BY <3>1, <3>2, <3>4
  <2> QED
    BY <2>2, <2>3
<1>3. CASE n = 2
  <2>1. ASSUME NEW a \in Word
        PROVE  \E h \in 0..3, l \in 0..63 : a = 64 * h + l /\ rotate64(a, n) = 4 * l + h
    <3> DEFINE h == a \div 64
               l == a - 64 * h
    <3>1. h \in 0..3 /\ l \in 0..63
      BY DEF Word, WordSize
    <3>2. (a * 4) % 256 = 4 * l
      BY DEF Word, WordSize
    <3>3. rotate64(a, n) = 4 * l + h
      BY <1>1, <1>3, <3>2 DEF rotate64, WordSize
    <3>4. a = 64 * h + l
      BY <3>1 DEF Word, WordSize
    <3> HIDE DEF h, l
    <3> QED
      BY <3>1, <3>3, <3>4
  <2>2. ASSUME NEW a \in Word
        PROVE  rotate64(a, n) \in Word
    BY <2>1 DEF Word, WordSize
  <2>3. ASSUME NEW a \in Word, NEW b \in Word, rotate64(a, n) = rotate64(b, n)
        PROVE  a = b
    <3>1. PICK h \in 0..3, l \in 0..63 : a = 64 * h + l /\ rotate64(a, n) = 4 * l + h
      BY <2>1
    <3>2. PICK i \in 0..3, j \in 0..63 : b = 64 * i + j /\ rotate64(b, n) = 4 * j + i
      BY <2>1
    <3>3. 4 * l + h = 4 * j + i
      BY <2>3, <3>1, <3>2
    <3>4. h = i /\ l = j
      BY <3>3
    <3> QED
      BY <3>1, <3>2, <3>4
  <2> QED
    BY <2>2, <2>3
<1>4. CASE n = 3
  <2>1. ASSUME NEW a \in Word
        PROVE  \E h \in 0..7, l \in 0..31 : a = 32 * h + l /\ rotate64(a, n) = 8 * l + h
    <3> DEFINE h == a \div 32
               l == a - 32 * h
    <3>1. h \in 0..7 /\ l \in 0..31
      BY DEF Word, WordSize
    <3>2. (a * 8) % 256 = 8 * l
      BY DEF Word, WordSize
    <3>3. rotate64(a, n) = 8 * l + h
      BY <1>1, <1>4, <3>2 DEF rotate64, WordSize
    <3>4. a = 32 * h + l
      BY <3>1 DEF Word, WordSize
    <3> HIDE DEF h, l
    <3> QED
      BY <3>1, <3>3, <3>4
  <2>2. ASSUME NEW a \in Word
        PROVE  rotate64(a, n) \in Word
    BY <2>1 DEF Word, WordSize
  <2>3. ASSUME NEW a \in Word, NEW b \in Word, rotate64(a, n) = rotate64(b, n)
        PROVE  a = b
    <3>1. PICK h \in 0..7, l \in 0..31 : a = 32 * h + l /\ rotate64(a, n) = 8 * l + h
      BY <2>1
    <3>2. PICK i \in 0..7, j \in 0..31 : b = 32 * i + j /\ rotate64(b, n) = 8 * j + i
      BY <2>1
    <3>3. 8 * l + h = 8 * j + i
      BY <2>3, <3>1, <3>2
    <3>4. h = i /\ l = j
      BY <3>3
    <3> QED
      BY <3>1, <3>2, <3>4
  <2> QED
    BY <2>2, <2>3
<1>5. CASE n = 4
  <2>1. ASSUME NEW a \in Word
        PROVE  \E h \in 0..15, l \in 0..15 : a = 16 * h + l /\ rotate64(a, n) = 16 * l + h
    <3> DEFINE h == a \div 16
               l == a - 16 * h
    <3>1. h \in 0..15 /\ l \in 0..15
      BY DEF Word, WordSize
    <3>2. (a * 16) % 256 = 16 * l
      BY DEF Word, WordSize
    <3>3. rotate64(a, n) = 16 * l + h
      BY <1>1, <1>5, <3>2 DEF rotate64, WordSize
    <3>4. a = 16 * h + l
      BY <3>1 DEF Word, WordSize
    <3> HIDE DEF h, l
    <3> QED
      BY <3>1, <3>3, <3>4
  <2>2. ASSUME NEW a \in Word
        PROVE  rotate64(a, n) \in Word
    BY <2>1 DEF Word, WordSize
  <2>3. ASSUME NEW a \in Word, NEW b \in Word, rotate64(a, n) = rotate64(b, n)
        PROVE  a = b
    <3>1. PICK h \in 0..15, l \in 0..15 : a = 16 * h + l /\ rotate64(a, n) = 16 * l + h
      BY <2>1
    <3>2. PICK i \in 0..15, j \in 0..15 : b = 16 * i + j /\ rotate64(b, n) = 16 * j + i
      BY <2>1
    <3>3. 16 * l + h = 16 * j + i
      BY <2>3, <3>1, <3>2
    <3>4. h = i /\ l = j
      BY <3>3
    <3> QED
      BY <3>1, <3>2, <3>4
  <2> QED
    BY <2>2, <2>3
<1> QED
  BY <1>2, <1>3, <1>4, <1>5

\* The bit of weight w in the exclusive or of a and b.
XorBit(a, b, w) == ((a \div w) + (b \div w)) % 2

\* The exclusive or as a sum of its bits.
XorSum(a, b) ==
    XorBit(a, b, 1) + 2 * XorBit(a, b, 2) + 4 * XorBit(a, b, 4) + 8 * XorBit(a, b, 8)
      + 16 * XorBit(a, b, 16) + 32 * XorBit(a, b, 32) + 64 * XorBit(a, b, 64)
      + 128 * XorBit(a, b, 128)

XorIs(f) ==
    f = [a \in Word |->
          [b \in Word |-> IF a = 0 /\ b = 0 THEN 0 ELSE ((a + b) % 2) + 2 * f[a \div 2][b \div 2]]]

LEMMA XorStep ==
    /\ \A a, b \in Word :
         Xor[a][b] = IF a = 0 /\ b = 0 THEN 0 ELSE ((a + b) % 2) + 2 * Xor[a \div 2][b \div 2]
<1> DEFINE f == [a \in Word |-> [b \in Word |-> XorSum(a, b)]]
<1>1. \A a \in Word : /\ a \div 2 \in Word /\ a \div 1 = a
                      /\ (a \div 2) \div 1 = a \div 2 /\ (a \div 2) \div 2 = a \div 4
                      /\ (a \div 2) \div 4 = a \div 8 /\ (a \div 2) \div 8 = a \div 16
                      /\ (a \div 2) \div 16 = a \div 32 /\ (a \div 2) \div 32 = a \div 64
                      /\ (a \div 2) \div 64 = a \div 128 /\ (a \div 2) \div 128 = 0
  BY DEF Word, WordSize
<1>2. \A a, b \in Word : \A w \in {1, 2, 4, 8, 16, 32, 64, 128} : XorBit(a, b, w) \in Int
  BY DEF Word, WordSize, XorBit
<1>3. ASSUME NEW a \in Word, NEW b \in Word
      PROVE  XorSum(a, b) = ((a + b) % 2) + 2 * XorSum(a \div 2, b \div 2)
  <2>1. /\ XorBit(a, b, 1) = (a + b) % 2
        /\ XorBit(a \div 2, b \div 2, 1) = XorBit(a, b, 2)
        /\ XorBit(a \div 2, b \div 2, 2) = XorBit(a, b, 4)
        /\ XorBit(a \div 2, b \div 2, 4) = XorBit(a, b, 8)
        /\ XorBit(a \div 2, b \div 2, 8) = XorBit(a, b, 16)
        /\ XorBit(a \div 2, b \div 2, 16) = XorBit(a, b, 32)
        /\ XorBit(a \div 2, b \div 2, 32) = XorBit(a, b, 64)
        /\ XorBit(a \div 2, b \div 2, 64) = XorBit(a, b, 128)
        /\ XorBit(a \div 2, b \div 2, 128) = 0
    BY <1>1 DEF XorBit
  <2>2. /\ XorBit(a, b, 1) \in Int /\ XorBit(a, b, 2) \in Int /\ XorBit(a, b, 4) \in Int
        /\ XorBit(a, b, 8) \in Int /\ XorBit(a, b, 16) \in Int /\ XorBit(a, b, 32) \in Int
        /\ XorBit(a, b, 64) \in Int /\ XorBit(a, b, 128) \in Int
    BY <1>2
  <2> QED
    BY <2>1, <2>2 DEF XorSum
<1>4. XorSum(0, 0) = 0
  <2>1. \A w \in {1, 2, 4, 8, 16, 32, 64, 128} : XorBit(0, 0, w) = 0
    BY DEF XorBit
  <2> QED
    BY <2>1 DEF XorSum
<1>5. \A a, b \in Word : f[a][b] = XorSum(a, b)
  OBVIOUS
<1>6. XorIs(f)
  <2> HIDE DEF f
  <2>1. \A a, b \in Word :
          XorSum(a, b) = IF a = 0 /\ b = 0 THEN 0 ELSE ((a + b) % 2) + 2 * f[a \div 2][b \div 2]
    BY <1>1, <1>3, <1>4, <1>5
  <2>2. f = [a \in Word |->
              [b \in Word |-> IF a = 0 /\ b = 0 THEN 0 ELSE ((a + b) % 2) + 2 * f[a \div 2][b \div 2]]]
    BY <2>1 DEF f
  <2> QED
    BY <2>2 DEF XorIs
<1>7. \E g : XorIs(g)
  BY <1>6
<1>8. XorIs(Xor)
  <2>1. Xor = CHOOSE g : XorIs(g)
    BY Zenon DEF Xor, XorIs
  <2> QED
    BY <1>7, <2>1
<1>9. ASSUME NEW a \in Word, NEW b \in Word
      PROVE  Xor[a][b] = IF a = 0 /\ b = 0 THEN 0 ELSE ((a + b) % 2) + 2 * Xor[a \div 2][b \div 2]
  BY <1>8 DEF XorIs
<1> QED
  BY <1>9

\* What is known of the exclusive or of numbers below a power of two.
XorBelow(n) ==
    \A a, b \in 0..(n - 1) :
        /\ Xor[a][b] \in 0..(n - 1)
        /\ Xor[a][b] = Xor[b][a]
        /\ Xor[a][0] = a
        /\ \A c \in 0..(n - 1) : Xor[a][b] = Xor[a][c] => b = c

LEMMA XorTwice ==
    ASSUME NEW n \in 1..128, XorBelow(n)
    PROVE  XorBelow(2 * n)
<1>1. \A a \in 0..(2 * n - 1) :
         a \in Word /\ a \div 2 \in 0..(n - 1) /\ a = (a % 2) + 2 * (a \div 2) /\ a % 2 \in 0..1
  BY DEF Word, WordSize
<1>2. ASSUME NEW a \in 0..(2 * n - 1), NEW b \in 0..(2 * n - 1)
      PROVE  Xor[a][b] = ((a + b) % 2) + 2 * Xor[a \div 2][b \div 2]
  <2>1. Xor[a][b] = IF a = 0 /\ b = 0 THEN 0 ELSE ((a + b) % 2) + 2 * Xor[a \div 2][b \div 2]
    BY <1>1, XorStep
  <2>2. CASE a = 0 /\ b = 0
    <3>1. Xor[0][0] = 0
      BY <2>1, <2>2
    <3> QED
      BY <2>2, <3>1
  <2> QED
    BY <2>1, <2>2
<1>3. ASSUME NEW a \in 0..(2 * n - 1), NEW b \in 0..(2 * n - 1)
      PROVE  /\ Xor[a][b] \in 0..(2 * n - 1)
             /\ Xor[a][b] \div 2 = Xor[a \div 2][b \div 2] /\ Xor[a][b] % 2 = (a + b) % 2
  <2>1. Xor[a \div 2][b \div 2] \in 0..(n - 1) /\ (a + b) % 2 \in 0..1
    BY <1>1 DEF XorBelow
  <2>2. \A bit \in 0..1, rest \in 0..(n - 1) :
          /\ bit + 2 * rest \in 0..(2 * n - 1)
          /\ (bit + 2 * rest) \div 2 = rest /\ (bit + 2 * rest) % 2 = bit
    OBVIOUS
  <2> DEFINE bit == (a + b) % 2
             rest == Xor[a \div 2][b \div 2]
  <2>3. Xor[a][b] = bit + 2 * rest
    BY <1>2
  <2>4. rest \in 0..(n - 1) /\ bit \in 0..1
    BY <2>1
  <2> HIDE DEF bit, rest
  <2>5. Xor[a][b] \in 0..(2 * n - 1) /\ Xor[a][b] \div 2 = rest /\ Xor[a][b] % 2 = bit
    BY <2>2, <2>3, <2>4
  <2> QED
    BY <2>5 DEF bit, rest
<1>4. ASSUME NEW a \in 0..(2 * n - 1), NEW b \in 0..(2 * n - 1)
      PROVE  Xor[a][b] = Xor[b][a]
  <2>1. Xor[a \div 2][b \div 2] = Xor[b \div 2][a \div 2]
    BY <1>1 DEF XorBelow
  <2>2. a + b = b + a
    OBVIOUS
  <2> QED
    BY <1>2, <2>1, <2>2
<1>5. ASSUME NEW a \in 0..(2 * n - 1)
      PROVE  Xor[a][0] = a
  <2>1. 0 \in 0..(2 * n - 1) /\ 0 \div 2 = 0
    OBVIOUS
  <2>2. Xor[a][0] = ((a + 0) % 2) + 2 * Xor[a \div 2][0]
    BY <1>2, <2>1
  <2>3. Xor[a \div 2][0] = a \div 2
    BY <1>1 DEF XorBelow
  <2> QED
    BY <1>1, <2>2, <2>3
<1>6. ASSUME NEW a \in 0..(2 * n - 1), NEW b \in 0..(2 * n - 1), NEW c \in 0..(2 * n - 1),
             Xor[a][b] = Xor[a][c]
      PROVE  b = c
  <2>1. Xor[a \div 2][b \div 2] = Xor[a \div 2][c \div 2] /\ (a + b) % 2 = (a + c) % 2
    BY <1>3, <1>6
  <2>2. b \div 2 = c \div 2
    BY <1>1, <2>1 DEF XorBelow
  <2>3. b % 2 = c % 2
    BY <2>1
  <2> QED
    BY <1>1, <2>2, <2>3
<1> QED
  BY <1>3, <1>4, <1>5, <1>6 DEF XorBelow

LEMMA XorIsOneToOne ==
    ASSUME NEW a \in Word, NEW b \in Word
    PROVE  /\ Xor[a][b] \in Word
           /\ Xor[a][0] = a
           /\ \A c \in Word : Xor[a][b] = Xor[a][c] => b = c
           /\ \A c \in Word : Xor[b][a] = Xor[c][a] => b = c
           /\ Xor[a][b] \div 2 = Xor[a \div 2][b \div 2]
<1>1. XorBelow(1)
  <2>1. \A n \in 0..(1 - 1) : n = 0
    OBVIOUS
  <2>2. Xor[0][0] = 0
    <3>1. 0 \in Word
      BY DEF Word, WordSize
    <3> QED
      BY <3>1, XorStep
  <2> QED
    BY <2>1, <2>2 DEF XorBelow
<1>2. /\ XorBelow(1) => XorBelow(2)
      /\ XorBelow(2) => XorBelow(4)
      /\ XorBelow(4) => XorBelow(8)
      /\ XorBelow(8) => XorBelow(16)
      /\ XorBelow(16) => XorBelow(32)
      /\ XorBelow(32) => XorBelow(64)
      /\ XorBelow(64) => XorBelow(128)
      /\ XorBelow(128) => XorBelow(256)
  <2>1. \A n \in 1..128 : XorBelow(n) => XorBelow(2 * n)
    BY XorTwice
  <2>2. /\ 2 * 1 = 2 /\ 2 * 2 = 4 /\ 2 * 4 = 8 /\ 2 * 8 = 16 /\ 2 * 16 = 32 /\ 2 * 32 = 64
        /\ 2 * 64 = 128 /\ 2 * 128 = 256
    OBVIOUS
  <2> QED
    BY <2>1, <2>2
<1>3. XorBelow(WordSize)
  BY <1>1, <1>2 DEF WordSize
<1>4. /\ Xor[a][b] \in Word /\ Xor[a][0] = a
      /\ \A c \in Word : Xor[a][b] = Xor[a][c] => b = c
      /\ \A c \in Word : Xor[c][a] = Xor[a][c]
  BY <1>3 DEF XorBelow, Word
<1>5. \A c \in Word : Xor[b][a] = Xor[c][a] => b = c
  BY <1>3 DEF XorBelow, Word
<1>6. Xor[a][b] \div 2 = Xor[a \div 2][b \div 2]
  <2>1. a \div 2 \in Word /\ b \div 2 \in Word /\ (a + b) % 2 \in 0..1
    BY DEF Word, WordSize
  <2>2. Xor[a \div 2][b \div 2] \in Int
    <3>1. \A c, d \in Word : Xor[c][d] \in Word
      BY <1>3 DEF XorBelow, Word
    <3>2. Xor[a \div 2][b \div 2] \in Word
      BY <2>1, <3>1
    <3> QED
      BY <3>2 DEF Word, WordSize
  <2>3. CASE a = 0 /\ b = 0
    <3>1. Xor[0][0] = 0 /\ 0 \div 2 = 0
      BY <2>3, XorStep
    <3> QED
      BY <2>3, <3>1
  <2>4. CASE ~(a = 0 /\ b = 0)
    <3>1. Xor[a][b] = ((a + b) % 2) + 2 * Xor[a \div 2][b \div 2]
      BY <2>4, XorStep
    <3> QED
      BY <2>1, <2>2, <3>1
  <2> QED
    BY <2>3, <2>4
<1> QED
  BY <1>4, <1>5, <1>6

LEMMA ShiftedIsOneToOne ==
    ASSUME NEW n \in {4, 5}
    PROVE  /\ \A a \in Word : Shifted(a, n) \in Word
           /\ \A a, b \in Word : Shifted(a, n) = Shifted(b, n) => a = b
<1>1. 2^4 = 16 /\ 2^5 = 32
  OBVIOUS
<1>2. ASSUME NEW d \in {16, 32}, NEW a \in Word
      PROVE  Xor[a][a \div d] \in Word /\ Xor[a][a \div d] \div d = a \div d
  <2> DEFINE Halved(c, e, k) == Xor[c][e] \div k = Xor[c \div k][e \div k]
  <2>1. /\ \A c \in Word : c \div 2 \in Word /\ c \div 4 \in Word /\ c \div 8 \in Word /\ c \div 16 \in Word
        /\ \A c \in Word : /\ (c \div 2) \div 2 = c \div 4 /\ (c \div 4) \div 2 = c \div 8
                          /\ (c \div 8) \div 2 = c \div 16 /\ (c \div 16) \div 2 = c \div 32
        /\ \A c \in Word : (c \div 16) \div 16 = 0 /\ (c \div 32) \div 32 = 0 /\ c \div 32 \in Word
    BY DEF Word, WordSize
  <2>2. \A c, e \in Word : Xor[c][e] \in Word /\ Xor[c][e] \div 2 = Xor[c \div 2][e \div 2] /\ Xor[c][0] = c
    BY XorIsOneToOne
  <2>3. ASSUME NEW c \in Word, NEW e \in Word
        PROVE  Halved(c, e, 16) /\ Halved(c, e, 32)
    <3> DEFINE X(k) == Xor[c \div k][e \div k]
    <3>1. Xor[c][e] \in Word /\ Xor[c][e] \div 2 = X(2)
      BY <2>2
    <3>2. X(2) \in Word /\ X(2) \div 2 = X(4)
      <4>1. X(2) \div 2 = Xor[(c \div 2) \div 2][(e \div 2) \div 2]
        BY <2>1, <2>2
      <4> QED
        BY <2>1, <2>2, <4>1
    <3>3. X(4) \in Word /\ X(4) \div 2 = X(8)
      <4>1. X(4) \div 2 = Xor[(c \div 4) \div 2][(e \div 4) \div 2]
        BY <2>1, <2>2
      <4> QED
        BY <2>1, <2>2, <4>1
    <3>4. X(8) \in Word /\ X(8) \div 2 = X(16)
      <4>1. X(8) \div 2 = Xor[(c \div 8) \div 2][(e \div 8) \div 2]
        BY <2>1, <2>2
      <4> QED
        BY <2>1, <2>2, <4>1
    <3>5. X(16) \in Word /\ X(16) \div 2 = X(32)
      <4>1. X(16) \div 2 = Xor[(c \div 16) \div 2][(e \div 16) \div 2]
        BY <2>1, <2>2
      <4> QED
        BY <2>1, <2>2, <4>1
    <3> HIDE DEF X
    <3>6. \A w \in Word : (((w \div 2) \div 2) \div 2) \div 2 = w \div 16
          /\ ((((w \div 2) \div 2) \div 2) \div 2) \div 2 = w \div 32
      BY DEF Word, WordSize
    <3>7. Xor[c][e] \div 16 = X(16) /\ Xor[c][e] \div 32 = X(32)
      BY <3>1, <3>2, <3>3, <3>4, <3>5, <3>6
    <3> QED
      BY <3>7 DEF X
  <2>4. a \div d \in Word /\ (a \div d) \div d = 0
    BY <2>1
  <2>5. Xor[a][a \div d] \div d = Xor[a \div d][(a \div d) \div d]
    BY <2>3, <2>4
  <2> QED
    BY <2>2, <2>4, <2>5
<1>3. ASSUME NEW d \in {16, 32}, NEW a \in Word, NEW b \in Word, Xor[a][a \div d] = Xor[b][b \div d]
      PROVE  a = b
  <2>1. a \div d = b \div d
    BY <1>2, <1>3
  <2>2. a \div d \in Word
    BY DEF Word, WordSize
  <2> QED
    BY <1>3, <2>1, <2>2, XorIsOneToOne
<1>4. CASE n = 4
  BY <1>1, <1>2, <1>3, <1>4 DEF Shifted
<1>5. CASE n = 5
  BY <1>1, <1>2, <1>3, <1>5 DEF Shifted
<1> QED
  BY <1>4, <1>5

\* One round from zero, and the steps that take a lane, a half lane and a byte in.
RoundOf(value) == xxRound(0, value)
TakeLane(word, value) == Plus(Times(rotate64(Xor[word][RoundOf(value)], 4), P1), P4)
TakeHalf(word, value) == Plus(Times(rotate64(Xor[word][Times(value, P1)], 3), P2), P3)
TakeByte(word, value) == Times(rotate64(Xor[word][Times(value, P5)], 2), P1)

LEMMA RoundIsOneToOne ==
    /\ \A a \in Word : RoundOf(a) \in Word
    /\ \A a, b \in Word : RoundOf(a) = RoundOf(b) => a = b
<1>1. \A a \in Word : Plus(0, a) = a
  BY DEF Plus, Word, WordSize
<1>2. \A a \in Word : RoundOf(a) = Times(rotate64(Times(a, P2), 4), P1)
  BY <1>1, TimesIsOneToOne DEF RoundOf, xxRound
<1>3. 4 \in 1..4
  OBVIOUS
<1> QED
  BY <1>2, <1>3, TimesIsOneToOne, RotateIsOneToOne

LEMMA StepsAreOneToOne ==
    ASSUME NEW a \in Word, NEW b \in Word, NEW i \in Word, NEW j \in Word, a = b \/ i = j
    PROVE  /\ TakeLane(a, i) \in Word /\ TakeHalf(a, i) \in Word /\ TakeByte(a, i) \in Word
           /\ TakeLane(a, i) = TakeLane(b, j) => a = b /\ i = j
           /\ TakeHalf(a, i) = TakeHalf(b, j) => a = b /\ i = j
           /\ TakeByte(a, i) = TakeByte(b, j) => a = b /\ i = j
<1>1. ASSUME NEW c \in Word, NEW d \in Word, NEW k \in Word, NEW l \in Word, c = d \/ k = l
      PROVE  Xor[c][k] \in Word /\ (Xor[c][k] = Xor[d][l] => c = d /\ k = l)
  BY <1>1, XorIsOneToOne
<1>2. 4 \in 1..4 /\ 3 \in 1..4 /\ 2 \in 1..4
  OBVIOUS
<1>3. TakeLane(a, i) \in Word /\ (TakeLane(a, i) = TakeLane(b, j) => a = b /\ i = j)
  <2>1. /\ RoundOf(i) \in Word /\ RoundOf(j) \in Word
        /\ (RoundOf(i) = RoundOf(j) <=> i = j)
    BY RoundIsOneToOne
  <2> DEFINE p == Xor[a][RoundOf(i)]
             q == Xor[b][RoundOf(j)]
  <2>2. p \in Word /\ q \in Word /\ (p = q => a = b /\ i = j)
    BY <1>1, <2>1
  <2> HIDE DEF p, q
  <2>3. /\ rotate64(p, 4) \in Word /\ rotate64(q, 4) \in Word
        /\ (rotate64(p, 4) = rotate64(q, 4) => p = q)
    BY <1>2, <2>2, RotateIsOneToOne
  <2>4. /\ Times(rotate64(p, 4), P1) \in Word /\ Times(rotate64(q, 4), P1) \in Word
        /\ (Times(rotate64(p, 4), P1) = Times(rotate64(q, 4), P1) => rotate64(p, 4) = rotate64(q, 4))
    BY <2>3, TimesIsOneToOne
  <2>5. /\ Plus(Times(rotate64(p, 4), P1), P4) \in Word
        /\ (Plus(Times(rotate64(p, 4), P1), P4) = Plus(Times(rotate64(q, 4), P1), P4)
              => Times(rotate64(p, 4), P1) = Times(rotate64(q, 4), P1))
    BY <2>4, PlusIsOneToOne
  <2> QED
    BY <2>2, <2>3, <2>4, <2>5 DEF TakeLane, p, q
<1>4. TakeHalf(a, i) \in Word /\ (TakeHalf(a, i) = TakeHalf(b, j) => a = b /\ i = j)
  <2>1. /\ Times(i, P1) \in Word /\ Times(j, P1) \in Word
        /\ (Times(i, P1) = Times(j, P1) <=> i = j)
    BY TimesIsOneToOne
  <2> DEFINE p == Xor[a][Times(i, P1)]
             q == Xor[b][Times(j, P1)]
  <2>2. p \in Word /\ q \in Word /\ (p = q => a = b /\ i = j)
    BY <1>1, <2>1
  <2> HIDE DEF p, q
  <2>3. /\ rotate64(p, 3) \in Word /\ rotate64(q, 3) \in Word
        /\ (rotate64(p, 3) = rotate64(q, 3) => p = q)
    BY <1>2, <2>2, RotateIsOneToOne
  <2>4. /\ Times(rotate64(p, 3), P2) \in Word /\ Times(rotate64(q, 3), P2) \in Word
        /\ (Times(rotate64(p, 3), P2) = Times(rotate64(q, 3), P2) => rotate64(p, 3) = rotate64(q, 3))
    BY <2>3, TimesIsOneToOne
  <2>5. /\ Plus(Times(rotate64(p, 3), P2), P3) \in Word
        /\ (Plus(Times(rotate64(p, 3), P2), P3) = Plus(Times(rotate64(q, 3), P2), P3)
              => Times(rotate64(p, 3), P2) = Times(rotate64(q, 3), P2))
    BY <2>4, PlusIsOneToOne
  <2> QED
    BY <2>2, <2>3, <2>4, <2>5 DEF TakeHalf, p, q
<1>5. TakeByte(a, i) \in Word /\ (TakeByte(a, i) = TakeByte(b, j) => a = b /\ i = j)
  <2>1. /\ Times(i, P5) \in Word /\ Times(j, P5) \in Word
        /\ (Times(i, P5) = Times(j, P5) <=> i = j)
    BY TimesIsOneToOne
  <2> DEFINE p == Xor[a][Times(i, P5)]
             q == Xor[b][Times(j, P5)]
  <2>2. p \in Word /\ q \in Word /\ (p = q => a = b /\ i = j)
    BY <1>1, <2>1
  <2> HIDE DEF p, q
  <2>3. /\ rotate64(p, 2) \in Word /\ rotate64(q, 2) \in Word
        /\ (rotate64(p, 2) = rotate64(q, 2) => p = q)
    BY <1>2, <2>2, RotateIsOneToOne
  <2>4. /\ Times(rotate64(p, 2), P1) \in Word
        /\ (Times(rotate64(p, 2), P1) = Times(rotate64(q, 2), P1) => rotate64(p, 2) = rotate64(q, 2))
    BY <2>3, TimesIsOneToOne
  <2> QED
    BY <2>2, <2>3, <2>4 DEF TakeByte, p, q
<1> QED
  BY <1>3, <1>4, <1>5

LEMMA AvalancheIsOneToOne ==
    /\ \A a \in Word : Avalanche(a) \in Word
    /\ \A a, b \in Word : Avalanche(a) = Avalanche(b) => a = b
<1> DEFINE s(a) == Shifted(a, 5)
           p(a) == Times(s(a), P2)
           t(a) == Shifted(p(a), 4)
           q(a) == Times(t(a), P3)
           r(a) == Shifted(q(a), 4)
<1>1. /\ \A a \in Word : s(a) \in Word
      /\ \A a, b \in Word : s(a) = s(b) => a = b
  BY ShiftedIsOneToOne
<1>2. /\ \A a \in Word : p(a) \in Word
      /\ \A a, b \in Word : p(a) = p(b) => s(a) = s(b)
  <2> HIDE DEF s
  <2> QED
    BY <1>1, TimesIsOneToOne
<1>3. /\ \A a \in Word : t(a) \in Word
      /\ \A a, b \in Word : t(a) = t(b) => p(a) = p(b)
  <2> HIDE DEF p
  <2> QED
    BY <1>2, ShiftedIsOneToOne
<1>4. /\ \A a \in Word : q(a) \in Word
      /\ \A a, b \in Word : q(a) = q(b) => t(a) = t(b)
  <2> HIDE DEF t
  <2> QED
    BY <1>3, TimesIsOneToOne
<1>5. /\ \A a \in Word : r(a) \in Word
      /\ \A a, b \in Word : r(a) = r(b) => q(a) = q(b)
  <2> HIDE DEF q
  <2> QED
    BY <1>4, ShiftedIsOneToOne
<1>6. \A a : Avalanche(a) = r(a)
  BY DEF Avalanche
<1> HIDE DEF s, p, t, q, r
<1> QED
  BY <1>1, <1>2, <1>3, <1>4, <1>5, <1>6

IsLittle(f, t, at, count) ==
    f = [i \in 0..count |-> IF i = 0 THEN 0 ELSE f[i - 1] + (bytes[t][at + i] * 4^(i - 1))]

\* readLittle, unfolded for the two sizes it is called with.
LEMMA LittleUnfolded ==
    ASSUME NEW t, NEW at \in Int, \A i \in 1..4 : bytes[t][at + i] \in Byte
    PROVE  readLittle(t, at, 4) = bytes[t][at + 1] + 4 * bytes[t][at + 2]
                                    + 16 * bytes[t][at + 3] + 64 * bytes[t][at + 4]
<1> DEFINE b(i) == bytes[t][at + i]
<1>1. b(1) \in Int /\ b(2) \in Int /\ b(3) \in Int /\ b(4) \in Int
  BY DEF Byte
<1>2. 4^(1 - 1) = 1 /\ 4^(2 - 1) = 4 /\ 4^(3 - 1) = 16 /\ 4^(4 - 1) = 64
  OBVIOUS
<1>3. \E f : IsLittle(f, t, at, 4)
  <2> HIDE DEF b
  <2> DEFINE f == [i \in 0..4 |-> CASE i = 0 -> 0
                                    [] i = 1 -> b(1)
                                    [] i = 2 -> b(1) + 4 * b(2)
                                    [] i = 3 -> b(1) + 4 * b(2) + 16 * b(3)
                                    [] i = 4 -> b(1) + 4 * b(2) + 16 * b(3) + 64 * b(4)]
  <2>1. /\ f[0] = 0 /\ f[1] = b(1) /\ f[2] = b(1) + 4 * b(2) /\ f[3] = b(1) + 4 * b(2) + 16 * b(3)
        /\ f[4] = b(1) + 4 * b(2) + 16 * b(3) + 64 * b(4)
        /\ f = [i \in 0..4 |-> f[i]]
    OBVIOUS
  <2> HIDE DEF f
  <2>2. ASSUME NEW i \in 0..4
        PROVE  f[i] = IF i = 0 THEN 0 ELSE f[i - 1] + (b(i) * 4^(i - 1))
    <3>1. i = 0 \/ i = 1 \/ i = 2 \/ i = 3 \/ i = 4
      OBVIOUS
    <3>2. CASE i = 0
      BY <2>1, <3>2
    <3>3. CASE i = 1
      BY <1>1, <1>2, <2>1, <3>3
    <3>4. CASE i = 2
      BY <1>1, <1>2, <2>1, <3>4
    <3>5. CASE i = 3
      BY <1>1, <1>2, <2>1, <3>5
    <3>6. CASE i = 4
      BY <1>1, <1>2, <2>1, <3>6
    <3> QED
      BY <3>1, <3>2, <3>3, <3>4, <3>5, <3>6
  <2>3. f = [i \in 0..4 |-> IF i = 0 THEN 0 ELSE f[i - 1] + (b(i) * 4^(i - 1))]
    BY <2>1, <2>2
  <2>4. IsLittle(f, t, at, 4)
    BY <2>3 DEF IsLittle, b
  <2> QED
    BY <2>4
<1> DEFINE g == CHOOSE f : IsLittle(f, t, at, 4)
<1>4. IsLittle(g, t, at, 4)
  BY <1>3
<1>5. readLittle(t, at, 4) = g[4]
  BY DEF readLittle, IsLittle
<1> HIDE DEF g
<1>6. \A i \in 0..4 : g[i] = IF i = 0 THEN 0 ELSE g[i - 1] + (b(i) * 4^(i - 1))
  BY <1>4 DEF IsLittle
<1> HIDE DEF b
<1>7. g[0] = 0 /\ g[1] = b(1) /\ g[2] = b(1) + 4 * b(2)
  <2>1. g[1] = g[1 - 1] + (b(1) * 4^(1 - 1)) /\ g[0] = 0
    BY <1>6
  <2>2. g[2] = g[2 - 1] + (b(2) * 4^(2 - 1))
    BY <1>6
  <2> QED
    BY <1>1, <1>2, <2>1, <2>2
<1>8. g[3] = b(1) + 4 * b(2) + 16 * b(3)
  <2>1. g[3] = g[3 - 1] + (b(3) * 4^(3 - 1))
    BY <1>6
  <2> QED
    BY <1>1, <1>2, <1>7, <2>1
<1>9. g[4] = b(1) + 4 * b(2) + 16 * b(3) + 64 * b(4)
  <2>1. g[4] = g[4 - 1] + (b(4) * 4^(4 - 1))
    BY <1>6
  <2> QED
    BY <1>1, <1>2, <1>8, <2>1
<1> QED
  BY <1>5, <1>9 DEF b

LEMMA HalfUnfolded ==
    ASSUME NEW t, NEW at \in Int, \A i \in 1..2 : bytes[t][at + i] \in Byte
    PROVE  readLittle(t, at, 2) = bytes[t][at + 1] + 4 * bytes[t][at + 2]
<1> DEFINE b(i) == bytes[t][at + i]
<1>1. b(1) \in Int /\ b(2) \in Int
  BY DEF Byte
<1>2. 4^(1 - 1) = 1 /\ 4^(2 - 1) = 4
  OBVIOUS
<1>3. \E f : IsLittle(f, t, at, 2)
  <2> HIDE DEF b
  <2> DEFINE f == [i \in 0..2 |-> CASE i = 0 -> 0
                                    [] i = 1 -> b(1)
                                    [] i = 2 -> b(1) + 4 * b(2)]
  <2>1. /\ f[0] = 0 /\ f[1] = b(1) /\ f[2] = b(1) + 4 * b(2)
        /\ f = [i \in 0..2 |-> f[i]]
    OBVIOUS
  <2> HIDE DEF f
  <2>2. ASSUME NEW i \in 0..2
        PROVE  f[i] = IF i = 0 THEN 0 ELSE f[i - 1] + (b(i) * 4^(i - 1))
    <3>1. i = 0 \/ i = 1 \/ i = 2
      OBVIOUS
    <3>2. CASE i = 0
      BY <2>1, <3>2
    <3>3. CASE i = 1
      BY <1>1, <1>2, <2>1, <3>3
    <3>4. CASE i = 2
      BY <1>1, <1>2, <2>1, <3>4
    <3> QED
      BY <3>1, <3>2, <3>3, <3>4
  <2>3. f = [i \in 0..2 |-> IF i = 0 THEN 0 ELSE f[i - 1] + (b(i) * 4^(i - 1))]
    BY <2>1, <2>2
  <2>4. IsLittle(f, t, at, 2)
    BY <2>3 DEF IsLittle, b
  <2> QED
    BY <2>4
<1> DEFINE g == CHOOSE f : IsLittle(f, t, at, 2)
<1>4. IsLittle(g, t, at, 2)
  BY <1>3
<1>5. readLittle(t, at, 2) = g[2]
  BY DEF readLittle, IsLittle
<1> HIDE DEF g
<1>6. \A i \in 0..2 : g[i] = IF i = 0 THEN 0 ELSE g[i - 1] + (b(i) * 4^(i - 1))
  BY <1>4 DEF IsLittle
<1> HIDE DEF b
<1>7. g[2] = b(1) + 4 * b(2)
  <2>1. g[1] = g[1 - 1] + (b(1) * 4^(1 - 1)) /\ g[0] = 0
    BY <1>6
  <2>2. g[2] = g[2 - 1] + (b(2) * 4^(2 - 1))
    BY <1>6
  <2> QED
    BY <1>1, <1>2, <2>1, <2>2
<1> QED
  BY <1>5, <1>7 DEF b

\* Numbers are equal if and only if their bytes are.
LEMMA LittleIsOneToOne ==
    ASSUME NEW at \in Int, NEW count \in {2, 4},
           \A t \in Inputs : \A i \in 1..count : bytes[t][at + i] \in Byte
    PROVE  /\ \A t \in Inputs : readLittle(t, at, count) \in Word
           /\ readLittle("saved", at, count) = readLittle("read", at, count) <=>
                \A i \in 1..count : bytes["saved"][at + i] = bytes["read"][at + i]
<1> DEFINE s(i) == bytes["saved"][at + i]
           r(i) == bytes["read"][at + i]
<1>1. CASE count = 4
  <2>1. \A t \in Inputs : bytes[t][at + 1] \in 0..3 /\ bytes[t][at + 2] \in 0..3
                          /\ bytes[t][at + 3] \in 0..3 /\ bytes[t][at + 4] \in 0..3
    BY <1>1 DEF Byte
  <2>2. \A t \in Inputs :
          readLittle(t, at, 4) = bytes[t][at + 1] + 4 * bytes[t][at + 2]
                                   + 16 * bytes[t][at + 3] + 64 * bytes[t][at + 4]
    BY <1>1, LittleUnfolded
  <2>3. \A t \in Inputs : readLittle(t, at, count) \in Word
    BY <1>1, <2>1, <2>2 DEF Word, WordSize
  <2>4. /\ readLittle("saved", at, 4) = s(1) + 4 * s(2) + 16 * s(3) + 64 * s(4)
        /\ readLittle("read", at, 4) = r(1) + 4 * r(2) + 16 * r(3) + 64 * r(4)
        /\ s(1) \in 0..3 /\ s(2) \in 0..3 /\ s(3) \in 0..3 /\ s(4) \in 0..3
        /\ r(1) \in 0..3 /\ r(2) \in 0..3 /\ r(3) \in 0..3 /\ r(4) \in 0..3
    BY <2>1, <2>2 DEF Inputs
  <2> HIDE DEF s, r
  <2>5. readLittle("saved", at, 4) = readLittle("read", at, 4)
          <=> s(1) = r(1) /\ s(2) = r(2) /\ s(3) = r(3) /\ s(4) = r(4)
    BY <2>4
  <2>6. (\A i \in 1..4 : s(i) = r(i)) <=> s(1) = r(1) /\ s(2) = r(2) /\ s(3) = r(3) /\ s(4) = r(4)
    <3>1. \A i \in 1..4 : i = 1 \/ i = 2 \/ i = 3 \/ i = 4
      OBVIOUS
    <3> QED
      BY <3>1
  <2> QED
    BY <1>1, <2>3, <2>5, <2>6 DEF s, r
<1>2. CASE count = 2
  <2>1. \A t \in Inputs : bytes[t][at + 1] \in 0..3 /\ bytes[t][at + 2] \in 0..3
    BY <1>2 DEF Byte
  <2>2. \A t \in Inputs : readLittle(t, at, 2) = bytes[t][at + 1] + 4 * bytes[t][at + 2]
    BY <1>2, HalfUnfolded
  <2>3. \A t \in Inputs : readLittle(t, at, count) \in Word
    BY <1>2, <2>1, <2>2 DEF Word, WordSize
  <2>4. /\ readLittle("saved", at, 2) = s(1) + 4 * s(2)
        /\ readLittle("read", at, 2) = r(1) + 4 * r(2)
        /\ s(1) \in 0..3 /\ s(2) \in 0..3 /\ r(1) \in 0..3 /\ r(2) \in 0..3
    BY <2>1, <2>2 DEF Inputs
  <2> HIDE DEF s, r
  <2>5. readLittle("saved", at, 2) = readLittle("read", at, 2) <=> s(1) = r(1) /\ s(2) = r(2)
    BY <2>4
  <2>6. (\A i \in 1..2 : s(i) = r(i)) <=> s(1) = r(1) /\ s(2) = r(2)
    <3>1. \A i \in 1..2 : i = 1 \/ i = 2
      OBVIOUS
    <3> QED
      BY <3>1
  <2> QED
    BY <1>2, <2>3, <2>5, <2>6 DEF s, r
<1> QED
  BY <1>1, <1>2

-----------------------------------------------------------------------------
(* A change behind the last block shows as soon as its byte is read: the    *)
(* results of the two inputs are equal until then, and differ from then on. *)

TwoInputs ==
    /\ changed \in 1..size
    /\ \A t \in Inputs : \A i \in 1..size : bytes[t][i] \in Byte
    /\ \A i \in 1..size : bytes["saved"][i] = bytes["read"][i] <=> i # changed
    /\ \A t \in Inputs : \A i \in 1..4 : v[t][i] \in Word
    /\ \A t \in Inputs : result[t] \in Word

ShowsOnceRead ==
    changed > size - (size % BlockBytes) =>
        /\ stage = "blocks" => /\ position % BlockBytes = 0
                               /\ \A i \in 1..4 : v["saved"][i] = v["read"][i]
        /\ stage # "blocks" => (result["saved"] = result["read"] <=> position < changed)

ChangeInv == ReadInOrder /\ TwoInputs /\ ShowsOnceRead

LEMMA PlusIsWord ==
    ASSUME NEW a \in Word, NEW b \in Word
    PROVE  Plus(a, b) \in Word
<1>1. \A n \in Int : n % 256 \in 0..255
  OBVIOUS
<1>2. a + b \in Int
  BY DEF Word, WordSize
<1> QED
  BY <1>1, <1>2 DEF Plus, Word, WordSize

LEMMA RoundIsWord ==
    ASSUME NEW a \in Word, NEW b \in Word
    PROVE  xxRound(a, b) \in Word /\ xxMerge(a, b) \in Word
<1>1. \A c \in Word, d \in Word : xxRound(c, d) \in Word
  <2> SUFFICES ASSUME NEW c \in Word, NEW d \in Word
               PROVE  xxRound(c, d) \in Word
    OBVIOUS
  <2>1. Times(d, P2) \in Word
    BY TimesIsOneToOne
  <2>2. Plus(c, Times(d, P2)) \in Word
    BY <2>1, PlusIsWord
  <2>3. rotate64(Plus(c, Times(d, P2)), 4) \in Word
    <3>1. 4 \in 1..4
      OBVIOUS
    <3> QED
      BY <2>2, <3>1, RotateIsOneToOne
  <2> QED
    BY <2>3, TimesIsOneToOne DEF xxRound
<1>2. 0 \in Word
  BY DEF Word, WordSize
<1>3. Xor[a][xxRound(0, b)] \in Word
  BY <1>1, <1>2, XorIsOneToOne
<1>4. Times(Xor[a][xxRound(0, b)], P1) \in Word
  BY <1>3, TimesIsOneToOne
<1>5. xxMerge(a, b) \in Word
  BY <1>4, PlusIsOneToOne DEF xxMerge
<1> QED
  BY <1>1, <1>5

LEMMA MergedIsWord ==
    ASSUME NEW lanes, \A i \in 1..4 : lanes[i] \in Word
    PROVE  Merged(lanes) \in Word
<1>1. lanes[1] \in Word /\ lanes[2] \in Word /\ lanes[3] \in Word /\ lanes[4] \in Word
  OBVIOUS
<1> DEFINE sum == Plus(Plus(rotate64(lanes[1], 1), rotate64(lanes[2], 1)),
                       Plus(rotate64(lanes[3], 2), rotate64(lanes[4], 3)))
<1>2. sum \in Word
  <2>1. /\ 1 \in 1..4 /\ 2 \in 1..4 /\ 3 \in 1..4
        /\ \A a, b \in Word : Plus(a, b) \in Word
    BY PlusIsWord
  <2>2. /\ rotate64(lanes[1], 1) \in Word /\ rotate64(lanes[2], 1) \in Word
        /\ rotate64(lanes[3], 2) \in Word /\ rotate64(lanes[4], 3) \in Word
    BY <1>1, <2>1, RotateIsOneToOne
  <2> QED
    BY <2>1, <2>2
<1>3. Merged(lanes) = xxMerge(xxMerge(xxMerge(xxMerge(sum, lanes[1]), lanes[2]), lanes[3]), lanes[4])
  BY DEF Merged
<1> HIDE DEF sum
<1> QED
  BY <1>1, <1>2, <1>3, RoundIsWord

\* A step that takes the next bytes in, as words, shows the change if they hold
\* it, and keeps it shown if it was.
LEMMA ReadKeepsInv ==
    ASSUME ChangeInv, ReadInOrder', stage # "blocks", stage' # "blocks",
           NEW count \in 1..4, count <= size - position, position' = position + count,
           size' = size, bytes' = bytes, changed' = changed, v' = v,
           NEW words,
           words["saved"] = words["read"] <=>
             \A k \in 1..count : bytes["saved"][position + k] = bytes["read"][position + k],
           \A t \in Inputs : result'[t] \in Word,
           result["saved"] = result["read"] \/ words["saved"] = words["read"] =>
             (result'["saved"] = result'["read"] =>
                result["saved"] = result["read"] /\ words["saved"] = words["read"]),
           result["saved"] = result["read"] /\ words["saved"] = words["read"] =>
             result'["saved"] = result'["read"]
    PROVE  ChangeInv'
<1>1. position \in Int /\ size \in Int /\ changed \in 1..size /\ position >= 0
  BY ChecksumAssumption DEF ChangeInv, ReadInOrder, TwoInputs, WordSize
<1>2. \A k \in 1..count : position + k \in 1..size
  BY <1>1
<1>3. words["saved"] = words["read"] <=> \A k \in 1..count : position + k # changed
  BY <1>2 DEF ChangeInv, TwoInputs
<1>4. (\A k \in 1..count : position + k # changed)
        <=> ~(position < changed /\ changed <= position + count)
  <2>1. position < changed /\ changed <= position + count => changed - position \in 1..count
    BY <1>1
  <2>2. position + (changed - position) = changed
    BY <1>1
  <2> QED
    BY <1>1, <2>1, <2>2
<1>5. TwoInputs'
  BY DEF ChangeInv, TwoInputs
<1>6. ASSUME changed > size - (size % BlockBytes)
      PROVE  result'["saved"] = result'["read"] <=> position + count < changed
  <2>1. result["saved"] = result["read"] <=> position < changed
    BY <1>6 DEF ChangeInv, ShowsOnceRead
  <2>2. position + count < changed <=> position < changed /\ ~(changed <= position + count)
    BY <1>1
  <2> QED
    BY <1>3, <1>4, <2>1, <2>2
<1>7. ShowsOnceRead'
  BY <1>6 DEF ShowsOnceRead
<1> QED
  BY <1>5, <1>7 DEF ChangeInv

LEMMA InitChange == ChecksumInit => ChangeInv
<1> SUFFICES ASSUME ChecksumInit
             PROVE  ChangeInv
  OBVIOUS
<1>1. ReadInOrder
  BY ChecksumAssumption DEF ChecksumInit, ReadInOrder, Places, WordSize
<1>2. PICK cycle \in Cycles, new \in Byte :
        LET saved == [i \in 1..size |-> cycle[1 + (i % Len(cycle))]]
        IN /\ saved[changed] # new
           /\ bytes = [t \in Inputs |-> IF t = "saved" THEN saved ELSE [saved EXCEPT ![changed] = new]]
  BY DEF ChecksumInit
<1> DEFINE saved == [i \in 1..size |-> cycle[1 + (i % Len(cycle))]]
<1>3. /\ saved[changed] # new
      /\ bytes["saved"] = saved /\ bytes["read"] = [saved EXCEPT ![changed] = new]
      /\ changed \in 1..size
  BY <1>2 DEF Inputs, ChecksumInit
<1>4. \A i \in 1..size : saved[i] \in Byte
  <2>1. cycle \in Seq(Byte) /\ cycle # <<>>
    BY ChecksumAssumption
  <2>2. Len(cycle) \in Nat \ {0}
    BY <2>1, EmptySeq
  <2>3. \A i \in 1..size : 1 + (i % Len(cycle)) \in 1..Len(cycle)
    BY <2>2
  <2>4. \A i \in 1..Len(cycle) : cycle[i] \in Byte
    BY <2>1
  <2> QED
    BY <2>3, <2>4
<1>5. saved = [i \in 1..size |-> saved[i]]
  OBVIOUS
<1> HIDE DEF saved
<1>6. \A i \in 1..size : bytes["read"][i] = IF i = changed THEN new ELSE saved[i]
  BY <1>3, <1>5
<1>7. /\ \A t \in Inputs : \A i \in 1..size : bytes[t][i] \in Byte
      /\ \A i \in 1..size : bytes["saved"][i] = bytes["read"][i] <=> i # changed
  BY <1>3, <1>4, <1>6 DEF Inputs
<1>8. \A t \in Inputs : v[t] = <<214, 79, 0, 121>> /\ result[t] = 0
  BY DEF ChecksumInit, P1, P2, WordSize
<1>9. \A i \in 1..4 : <<214, 79, 0, 121>>[i] \in 0..255
  OBVIOUS
<1>10. TwoInputs
  BY <1>3, <1>7, <1>8, <1>9 DEF TwoInputs, Word, WordSize
<1>11. ShowsOnceRead
  BY <1>8 DEF ChecksumInit, ShowsOnceRead, Inputs, BlockBytes
<1> QED
  BY <1>1, <1>10, <1>11 DEF ChangeInv

\* What a step that only moves to another loop keeps.
LEMMA GoOnKeepsInv ==
    ASSUME ChangeInv, NEW next, GoOn(next), UNCHANGED result, stage # "blocks", next # "blocks",
           ReadInOrder'
    PROVE  ChangeInv'
  BY DEF ChangeInv, TwoInputs, ShowsOnceRead, GoOn

LEMMA BlockKeepsInv ==
    ASSUME ChangeInv, Block, ReadInOrder'
    PROVE  ChangeInv'
<1>1. /\ 16 <= size - position /\ position' = position + 16 /\ stage = "blocks" /\ stage' = stage
      /\ size' = size /\ bytes' = bytes /\ changed' = changed /\ result' = result
      /\ v' = [t \in Inputs |->
               [i \in 1..4 |-> xxRound(v[t][i], readLittle(t, LaneStart(i), 4))]]
  BY RemainingIsExact DEF ChangeInv, Block, BlockBytes, LaneBytes
<1>2. position \in Nat /\ size \in Nat /\ changed \in 1..size
  BY ChecksumAssumption DEF ChangeInv, ReadInOrder, TwoInputs, WordSize
<1>3. ASSUME NEW i \in 1..4
      PROVE  /\ LaneStart(i) \in Int
             /\ \A k \in 1..4 : LaneStart(i) + k \in 1..size /\ LaneStart(i) + k <= position + 16
  BY <1>1, <1>2 DEF LaneStart, LaneBytes
<1>4. ASSUME NEW i \in 1..4
      PROVE  /\ \A t \in Inputs : readLittle(t, LaneStart(i), 4) \in Word
             /\ readLittle("saved", LaneStart(i), 4) = readLittle("read", LaneStart(i), 4) <=>
                  \A k \in 1..4 : bytes["saved"][LaneStart(i) + k] = bytes["read"][LaneStart(i) + k]
  <2>1. \A t \in Inputs : \A k \in 1..4 : bytes[t][LaneStart(i) + k] \in Byte
    BY <1>3 DEF ChangeInv, TwoInputs
  <2>2. 4 \in {2, 4} /\ LaneStart(i) \in Int
    BY <1>3
  <2> QED
    BY <2>1, <2>2, LittleIsOneToOne
<1>5. \A t \in Inputs : \A i \in 1..4 :
         v'[t][i] = xxRound(v[t][i], readLittle(t, LaneStart(i), 4))
  BY <1>1
<1>6. TwoInputs'
  <2>1. \A t \in Inputs : \A i \in 1..4 : v'[t][i] \in Word
    BY <1>4, <1>5, RoundIsWord DEF ChangeInv, TwoInputs
  <2> QED
    BY <1>1, <2>1 DEF ChangeInv, TwoInputs
<1>7. ASSUME changed > size - (size % 16)
      PROVE  position' % 16 = 0 /\ \A i \in 1..4 : v'["saved"][i] = v'["read"][i]
  <2>1. position % 16 = 0 /\ \A i \in 1..4 : v["saved"][i] = v["read"][i]
    BY <1>1, <1>7 DEF ChangeInv, ShowsOnceRead, BlockBytes
  <2>2. (position + 16) % 16 = 0 /\ position + 16 <= size - (size % 16)
    BY <1>1, <1>2, <2>1
  <2>3. ASSUME NEW i \in 1..4
        PROVE  readLittle("saved", LaneStart(i), 4) = readLittle("read", LaneStart(i), 4)
    <3>1. \A k \in 1..4 : LaneStart(i) + k # changed /\ LaneStart(i) + k \in 1..size
      BY <1>2, <1>3, <1>7, <2>2
    <3> QED
      BY <1>4, <3>1 DEF ChangeInv, TwoInputs
  <2> QED
    BY <1>1, <1>5, <2>1, <2>2, <2>3 DEF Inputs
<1>8. ShowsOnceRead'
  BY <1>1, <1>7 DEF ShowsOnceRead, BlockBytes
<1> QED
  BY <1>6, <1>8 DEF ChangeInv

LEMMA EndBlocksKeepsInv ==
    ASSUME ChangeInv, EndBlocks, ReadInOrder'
    PROVE  ChangeInv'
<1>1. /\ size - position < 16 /\ position' = position /\ stage = "blocks" /\ stage' = "lanes"
      /\ size' = size /\ bytes' = bytes /\ changed' = changed /\ v' = v
      /\ result' = [t \in Inputs |-> Plus(IF size >= BlockBytes THEN Merged(v[t]) ELSE P5, size)]
  BY RemainingIsExact DEF ChangeInv, EndBlocks, GoOn, BlockBytes
<1>2. position \in 0..size /\ size \in Word /\ changed \in 1..size /\ size \in Nat
  BY ChecksumAssumption DEF ChangeInv, ReadInOrder, TwoInputs, WordSize, Word
<1>3. TwoInputs'
  <2>1. ASSUME NEW t \in Inputs
        PROVE  result'[t] \in Word
    <3>1. Merged(v[t]) \in Word
      BY MergedIsWord DEF ChangeInv, TwoInputs
    <3>2. P5 \in Word
      BY DEF P5, Word, WordSize
    <3> QED
      BY <1>1, <1>2, <3>1, <3>2, PlusIsWord
  <2> QED
    BY <1>1, <2>1 DEF ChangeInv, TwoInputs
<1>4. ASSUME changed > size - (size % 16)
      PROVE  result'["saved"] = result'["read"] /\ position' < changed
  <2>1. position % 16 = 0 /\ \A i \in 1..4 : v["saved"][i] = v["read"][i]
    BY <1>1, <1>4 DEF ChangeInv, ShowsOnceRead, BlockBytes
  <2>2. position <= size - (size % 16)
    BY <1>2, <2>1
  <2>3. Merged(v["saved"]) = Merged(v["read"])
    <3>1. /\ v["saved"][1] = v["read"][1] /\ v["saved"][2] = v["read"][2]
          /\ v["saved"][3] = v["read"][3] /\ v["saved"][4] = v["read"][4]
      BY <2>1
    <3> QED
      BY <3>1 DEF Merged
  <2> QED
    BY <1>1, <1>2, <1>4, <2>2, <2>3 DEF Inputs
<1>5. ShowsOnceRead'
  BY <1>1, <1>4 DEF ShowsOnceRead, BlockBytes
<1> QED
  BY <1>3, <1>5 DEF ChangeInv

LEMMA LeftLaneKeepsInv ==
    ASSUME ChangeInv, LeftLane, ReadInOrder'
    PROVE  ChangeInv'
<1> DEFINE words == [t \in Inputs |-> readLittle(t, position, 4)]
<1>1. /\ 4 <= size - position /\ position' = position + 4 /\ stage = "lanes" /\ stage' = "lanes"
      /\ size' = size /\ bytes' = bytes /\ changed' = changed /\ v' = v
      /\ \A t \in Inputs : result'[t] = TakeLane(result[t], readLittle(t, position, 4))
  BY RemainingIsExact DEF ChangeInv, LeftLane, Consume, LaneBytes, TakeLane, RoundOf
<1>2. position \in Nat /\ size \in Nat
  BY ChecksumAssumption DEF ChangeInv, ReadInOrder, WordSize
<1>3. \A t \in Inputs : \A k \in 1..4 : bytes[t][position + k] \in Byte
  <2>1. \A k \in 1..4 : position + k \in 1..size
    BY <1>1, <1>2
  <2> QED
    BY <2>1 DEF ChangeInv, TwoInputs
<1>4. "saved" \in Inputs /\ "read" \in Inputs /\ 4 \in 1..4
  BY DEF Inputs
<1>5. /\ \A t \in Inputs : words[t] \in Word /\ words[t] = readLittle(t, position, 4)
      /\ words["saved"] = words["read"] <=>
           \A k \in 1..4 : bytes["saved"][position + k] = bytes["read"][position + k]
  <2>1. 4 \in {2, 4} /\ position \in Int
    BY <1>2
  <2> QED
    BY <1>3, <1>4, <2>1, LittleIsOneToOne
<1> HIDE DEF words
<1>6. \A t \in Inputs : result[t] \in Word /\ result'[t] = TakeLane(result[t], words[t])
  BY <1>1, <1>5 DEF ChangeInv, TwoInputs
<1>7. \A t \in Inputs : result'[t] \in Word
  BY <1>5, <1>6, StepsAreOneToOne
<1>8. result["saved"] = result["read"] \/ words["saved"] = words["read"] =>
        (result'["saved"] = result'["read"] =>
           result["saved"] = result["read"] /\ words["saved"] = words["read"])
  <2>1. /\ result["saved"] \in Word /\ result["read"] \in Word
        /\ words["saved"] \in Word /\ words["read"] \in Word
    BY <1>4, <1>5, <1>6
  <2>2. result["saved"] = result["read"] \/ words["saved"] = words["read"] =>
          (TakeLane(result["saved"], words["saved"]) = TakeLane(result["read"], words["read"]) =>
             result["saved"] = result["read"] /\ words["saved"] = words["read"])
    BY <2>1, StepsAreOneToOne
  <2> QED
    BY <1>4, <1>6, <2>2
<1>9. result["saved"] = result["read"] /\ words["saved"] = words["read"] =>
        result'["saved"] = result'["read"]
  BY <1>4, <1>6
<1> QED
  BY <1>1, <1>4, <1>5, <1>7, <1>8, <1>9, ReadKeepsInv

LEMMA HalfLaneKeepsInv ==
    ASSUME ChangeInv, HalfLane, ReadInOrder'
    PROVE  ChangeInv'
<1> DEFINE words == [t \in Inputs |-> readLittle(t, position, 2)]
<1>1. /\ 2 <= size - position /\ position' = position + 2 /\ stage = "half" /\ stage' = "bytes"
      /\ size' = size /\ bytes' = bytes /\ changed' = changed /\ v' = v
      /\ \A t \in Inputs : result'[t] = TakeHalf(result[t], readLittle(t, position, 2))
  BY RemainingIsExact DEF ChangeInv, HalfLane, Consume, HalfBytes, TakeHalf
<1>2. position \in Nat /\ size \in Nat
  BY ChecksumAssumption DEF ChangeInv, ReadInOrder, WordSize
<1>3. \A t \in Inputs : \A k \in 1..2 : bytes[t][position + k] \in Byte
  <2>1. \A k \in 1..2 : position + k \in 1..size
    BY <1>1, <1>2
  <2> QED
    BY <2>1 DEF ChangeInv, TwoInputs
<1>4. "saved" \in Inputs /\ "read" \in Inputs /\ 2 \in 1..4
  BY DEF Inputs
<1>5. /\ \A t \in Inputs : words[t] \in Word /\ words[t] = readLittle(t, position, 2)
      /\ words["saved"] = words["read"] <=>
           \A k \in 1..2 : bytes["saved"][position + k] = bytes["read"][position + k]
  <2>1. 2 \in {2, 4} /\ position \in Int
    BY <1>2
  <2> QED
    BY <1>3, <1>4, <2>1, LittleIsOneToOne
<1> HIDE DEF words
<1>6. \A t \in Inputs : result[t] \in Word /\ result'[t] = TakeHalf(result[t], words[t])
  BY <1>1, <1>5 DEF ChangeInv, TwoInputs
<1>7. \A t \in Inputs : result'[t] \in Word
  BY <1>5, <1>6, StepsAreOneToOne
<1>8. result["saved"] = result["read"] \/ words["saved"] = words["read"] =>
        (result'["saved"] = result'["read"] =>
           result["saved"] = result["read"] /\ words["saved"] = words["read"])
  <2>1. /\ result["saved"] \in Word /\ result["read"] \in Word
        /\ words["saved"] \in Word /\ words["read"] \in Word
    BY <1>4, <1>5, <1>6
  <2>2. result["saved"] = result["read"] \/ words["saved"] = words["read"] =>
          (TakeHalf(result["saved"], words["saved"]) = TakeHalf(result["read"], words["read"]) =>
             result["saved"] = result["read"] /\ words["saved"] = words["read"])
    BY <2>1, StepsAreOneToOne
  <2> QED
    BY <1>4, <1>6, <2>2
<1>9. result["saved"] = result["read"] /\ words["saved"] = words["read"] =>
        result'["saved"] = result'["read"]
  BY <1>4, <1>6
<1> QED
  BY <1>1, <1>4, <1>5, <1>7, <1>8, <1>9, ReadKeepsInv

LEMMA LastByteKeepsInv ==
    ASSUME ChangeInv, LastByte, ReadInOrder'
    PROVE  ChangeInv'
<1> DEFINE words == [t \in Inputs |-> bytes[t][position + 1]]
<1>1. /\ 1 <= size - position /\ position' = position + 1 /\ stage = "bytes" /\ stage' = "bytes"
      /\ size' = size /\ bytes' = bytes /\ changed' = changed /\ v' = v
      /\ \A t \in Inputs : result'[t] = TakeByte(result[t], bytes[t][position + 1])
  <2>1. position # size /\ position \in 0..size /\ size \in Nat
    BY ChecksumAssumption DEF ChangeInv, ReadInOrder, LastByte, WordSize
  <2> QED
    BY <2>1 DEF LastByte, Consume, TakeByte
<1>2. position \in Nat /\ size \in Nat
  BY ChecksumAssumption DEF ChangeInv, ReadInOrder, WordSize
<1>3. \A t \in Inputs : \A k \in 1..1 : bytes[t][position + k] \in Byte
  <2>1. \A k \in 1..1 : position + k \in 1..size
    BY <1>1, <1>2
  <2> QED
    BY <2>1 DEF ChangeInv, TwoInputs
<1>4. "saved" \in Inputs /\ "read" \in Inputs /\ 1 \in 1..4
  BY DEF Inputs
<1>5. /\ \A t \in Inputs : words[t] \in Word /\ words[t] = bytes[t][position + 1]
      /\ words["saved"] = words["read"] <=>
           \A k \in 1..1 : bytes["saved"][position + k] = bytes["read"][position + k]
  <2>1. \A k \in 1..1 : k = 1
    OBVIOUS
  <2>2. \A t \in Inputs : bytes[t][position + 1] \in 0..3
    BY <1>3 DEF Byte
  <2> QED
    BY <1>4, <2>1, <2>2 DEF Word, WordSize
<1> HIDE DEF words
<1>6. \A t \in Inputs : result[t] \in Word /\ result'[t] = TakeByte(result[t], words[t])
  BY <1>1, <1>5 DEF ChangeInv, TwoInputs
<1>7. \A t \in Inputs : result'[t] \in Word
  BY <1>5, <1>6, StepsAreOneToOne
<1>8. result["saved"] = result["read"] \/ words["saved"] = words["read"] =>
        (result'["saved"] = result'["read"] =>
           result["saved"] = result["read"] /\ words["saved"] = words["read"])
  <2>1. /\ result["saved"] \in Word /\ result["read"] \in Word
        /\ words["saved"] \in Word /\ words["read"] \in Word
    BY <1>4, <1>5, <1>6
  <2>2. result["saved"] = result["read"] \/ words["saved"] = words["read"] =>
          (TakeByte(result["saved"], words["saved"]) = TakeByte(result["read"], words["read"]) =>
             result["saved"] = result["read"] /\ words["saved"] = words["read"])
    BY <2>1, StepsAreOneToOne
  <2> QED
    BY <1>4, <1>6, <2>2
<1>9. result["saved"] = result["read"] /\ words["saved"] = words["read"] =>
        result'["saved"] = result'["read"]
  BY <1>4, <1>6
<1> QED
  BY <1>1, <1>4, <1>5, <1>7, <1>8, <1>9, ReadKeepsInv

LEMMA EndBytesKeepsInv ==
    ASSUME ChangeInv, EndBytes, ReadInOrder'
    PROVE  ChangeInv'
<1>1. /\ stage = "bytes" /\ stage' = "done" /\ position' = position
      /\ size' = size /\ bytes' = bytes /\ changed' = changed /\ v' = v
      /\ \A t \in Inputs : result'[t] = Avalanche(result[t])
  BY DEF EndBytes, GoOn
<1>2. \A t \in Inputs : result[t] \in Word
  BY DEF ChangeInv, TwoInputs
<1>3. \A t \in Inputs : result'[t] \in Word
  BY <1>1, <1>2, AvalancheIsOneToOne
<1>4. result'["saved"] = result'["read"] <=> result["saved"] = result["read"]
  BY <1>1, <1>2, AvalancheIsOneToOne DEF Inputs
<1>5. TwoInputs'
  BY <1>1, <1>3 DEF ChangeInv, TwoInputs
<1>6. ShowsOnceRead'
  BY <1>1, <1>4 DEF ChangeInv, ShowsOnceRead
<1> QED
  BY <1>5, <1>6 DEF ChangeInv

LEMMA NextKeepsChange == ChangeInv /\ [ChecksumNext]_checksumVars => ChangeInv'
<1> SUFFICES ASSUME ChangeInv, [ChecksumNext]_checksumVars
             PROVE  ChangeInv'
  OBVIOUS
<1>1. ReadInOrder'
  BY NextReadsInOrder DEF ChangeInv
<1>2. CASE Block
  BY <1>1, <1>2, BlockKeepsInv
<1>3. CASE EndBlocks
  BY <1>1, <1>3, EndBlocksKeepsInv
<1>4. CASE LeftLane
  BY <1>1, <1>4, LeftLaneKeepsInv
<1>5. CASE EndLanes
  <2>1. GoOn("half") /\ stage # "blocks" /\ "half" # "blocks" /\ UNCHANGED result
    BY <1>5 DEF EndLanes
  <2> QED
    BY <1>1, <2>1, GoOnKeepsInv
<1>6. CASE HalfLane
  BY <1>1, <1>6, HalfLaneKeepsInv
<1>7. CASE NoHalfLane
  <2>1. GoOn("bytes") /\ stage # "blocks" /\ "bytes" # "blocks" /\ UNCHANGED result
    BY <1>7 DEF NoHalfLane
  <2> QED
    BY <1>1, <2>1, GoOnKeepsInv
<1>8. CASE LastByte
  BY <1>1, <1>8, LastByteKeepsInv
<1>9. CASE EndBytes
  BY <1>1, <1>9, EndBytesKeepsInv
<1>10. CASE UNCHANGED checksumVars
  BY <1>1, <1>10 DEF ChangeInv, TwoInputs, ShowsOnceRead, checksumVars
<1> QED
  BY <1>2, <1>3, <1>4, <1>5, <1>6, <1>7, <1>8, <1>9, <1>10 DEF ChecksumNext

\* Two inputs of any size that differ in a byte behind the last block have
\* different checksums: every step from there on is one-to-one, in what it takes
\* in as in the result so far.
THEOREM ChangeIsAlwaysDetected == ChecksumSpec => []ChangeIsDetected
<1>1. ChangeInv => ChangeIsDetected
  <2> SUFFICES ASSUME ChangeInv, stage = "done", changed > size - (size % BlockBytes)
               PROVE  result["saved"] # result["read"]
    BY DEF ChangeIsDetected
  <2>1. position = size /\ changed \in 1..size /\ size \in Int
    BY ChecksumAssumption DEF ChangeInv, ReadInOrder, TwoInputs, WordSize
  <2>2. ~(position < changed)
    BY <2>1
  <2> QED
    BY <2>2 DEF ChangeInv, ShowsOnceRead
<1> QED
  BY <1>1, InitChange, NextKeepsChange, PTL DEF ChecksumSpec
=============================================================================
