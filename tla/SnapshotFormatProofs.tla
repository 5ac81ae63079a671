------------------------ MODULE SnapshotFormatProofs ------------------------
(***************************************************************************)
(* Facts about SnapshotFormat, for any widths and hash: what the sums and  *)
(* the recursive functions of the format are, how long the encoding of an  *)
(* index is and of which pieces it is made, how much text it holds, and    *)
(* that the bytes of an integer give it back.  SnapshotCodecProofs, which  *)
(* is about the reader of such bytes, rests on them.                       *)
(***************************************************************************)
EXTENDS SnapshotFormat, OrdersProofs, SequenceTheorems, TLAPS

-----------------------------------------------------------------------------
(* Sums                                                                    *)

\* What there is to count in f, a pair for each unit.
Units(f, S) == UNION {{x} \X (1..f[x]) : x \in S}

IsSum(g, f) ==
    g = [S \in SUBSET DOMAIN f |->
          IF S = {} THEN 0 ELSE LET x == CHOOSE y \in S : TRUE IN f[x] + g[S \ {x}]]

\* The sum of a function satisfies its recursive definition.
LEMMA SumIsSum ==
    ASSUME NEW f
    PROVE  SumFunction(f) = (CHOOSE g : IsSum(g, f))[DOMAIN f]
BY DEF SumFunction, SumFunctionOnSet, FoldFunctionOnSet, MapThenFoldSet, IsSum

\* The units of one thing are as many as it counts.
LEMMA UnitsOfOne ==
    ASSUME NEW x, NEW n \in Nat
    PROVE  IsFiniteSet({x} \X (1..n)) /\ Cardinality({x} \X (1..n)) = n
<1> DEFINE T == {x} \X (1..n)
           b == [i \in 1..n |-> <<x, i>>]
<1>1. b \in Bijection(1..n, T)
  <2>1. b \in [1..n -> T]
    OBVIOUS
  <2>2. \A i, j \in 1..n : b[i] = b[j] => i = j
    OBVIOUS
  <2>3. \A t \in T : \E i \in 1..n : b[i] = t
    OBVIOUS
  <2> HIDE DEF b, T
  <2> QED
    BY <2>1, <2>2, <2>3 DEF Bijection, Injection, Surjection, IsInjective
<1> HIDE DEF b, T
<1>2. ExistsBijection(1..n, T)
  BY <1>1 DEF ExistsBijection
<1>3. IsFiniteSet(1..n)
  BY FS_Interval
<1>4. IsFiniteSet(T) /\ Cardinality(T) = n
  BY <1>2, <1>3, FS_CountingElements, FS_Bijection
<1> QED
  BY <1>4 DEF T

LEMMA UnitsAreFinite ==
    ASSUME NEW f, NEW S, IsFiniteSet(S), \A x \in S : f[x] \in Nat
    PROVE  IsFiniteSet(Units(f, S)) /\ Cardinality(Units(f, S)) \in Nat
<1> DEFINE part == [x \in S |-> {x} \X (1..f[x])]
           parts == {part[x] : x \in S}
<1>1. IsFiniteSet(parts)
  <2>1. part \in Surjection(S, parts)
    BY DEF Surjection
  <2> QED
    BY <2>1, FS_Surjection
<1>2. \A T \in parts : IsFiniteSet(T)
  <2>1. \A x \in S : IsFiniteSet(part[x])
    BY UnitsOfOne
  <2> QED
    BY <2>1
<1>3. IsFiniteSet(UNION parts)
  BY <1>1, <1>2, FS_UNION
<1>4. Units(f, S) = UNION parts
  BY DEF Units
<1> QED
  BY <1>3, <1>4, FS_CardinalityType

\* One more element adds its units to the others.
LEMMA UnitsOfMore ==
    ASSUME NEW f, NEW S, IsFiniteSet(S), NEW x, x \notin S, \A y \in S \union {x} : f[y] \in Nat
    PROVE  Cardinality(Units(f, S \union {x})) = Cardinality(Units(f, S)) + f[x]
<1> DEFINE T == {x} \X (1..f[x])
<1>1. f[x] \in Nat /\ IsFiniteSet(T) /\ Cardinality(T) = f[x]
  BY UnitsOfOne
<1>2. IsFiniteSet(Units(f, S)) /\ Cardinality(Units(f, S)) \in Nat
  BY UnitsAreFinite
<1>3. Units(f, S \union {x}) = Units(f, S) \union T
  BY DEF Units
<1>4. Units(f, S) \intersect T = {}
  BY DEF Units
<1> HIDE DEF T
<1>5. Cardinality(Units(f, S) \union T)
        = Cardinality(Units(f, S)) + Cardinality(T) - Cardinality(Units(f, S) \intersect T)
  BY <1>1, <1>2, FS_Union
<1>6. Cardinality(Units(f, S) \intersect T) = 0
  BY <1>4, FS_EmptySet
<1>7. Cardinality(Units(f, S \union {x})) = Cardinality(Units(f, S) \union T)
  BY <1>3
<1> DEFINE a == Cardinality(Units(f, S \union {x}))
           b == Cardinality(Units(f, S) \union T)
           c == Cardinality(Units(f, S))
           d == Cardinality(T)
           e == Cardinality(Units(f, S) \intersect T)
<1>8. a = b /\ b = c + d - e /\ e = 0 /\ d = f[x] /\ c \in Nat /\ f[x] \in Nat
  BY <1>1, <1>2, <1>5, <1>6, <1>7
<1> HIDE DEF a, b, c, d, e
<1>9. a = c + f[x]
  BY <1>8
<1> QED
  BY <1>9 DEF a, c

\* A sum does not depend on the order in which it is taken: it counts units.
LEMMA SumIsUnits ==
    ASSUME NEW f, IsFiniteSet(DOMAIN f), \A x \in DOMAIN f : f[x] \in Nat
    PROVE  SumFunction(f) = Cardinality(Units(f, DOMAIN f))
<1> DEFINE D == DOMAIN f
           w == [S \in SUBSET D |-> Cardinality(Units(f, S))]
           g == CHOOSE h : IsSum(h, f)
<1>1. IsSum(w, f)
  <2>1. ASSUME NEW S \in SUBSET D
        PROVE  w[S] = IF S = {} THEN 0 ELSE LET x == CHOOSE y \in S : TRUE IN f[x] + w[S \ {x}]
    <3>1. CASE S = {}
      <4>1. Units(f, {}) = {}
        BY DEF Units
      <4> QED
        BY <3>1, <4>1, FS_EmptySet
    <3>2. CASE S # {}
      <4> DEFINE x == CHOOSE y \in S : TRUE
      <4>1. x \in S
        BY <3>2
      <4> HIDE DEF x
      <4>2. IsFiniteSet(S \ {x}) /\ (S \ {x}) \union {x} = S /\ x \notin S \ {x}
        BY <4>1, FS_Subset
      <4>3. Cardinality(Units(f, S)) = Cardinality(Units(f, S \ {x})) + f[x]
        BY <4>1, <4>2, UnitsOfMore
      <4>4. Cardinality(Units(f, S \ {x})) \in Nat /\ f[x] \in Nat
        BY <4>1, <4>2, UnitsAreFinite
      <4>5. w[S] = f[x] + w[S \ {x}]
        BY <4>3, <4>4
      <4> HIDE DEF w
      <4> QED
        BY <3>2, <4>5 DEF x
    <3> QED
      BY <3>1, <3>2
  <2>2. w = [S \in SUBSET D |-> w[S]]
    OBVIOUS
  <2> HIDE DEF w
  <2> QED
    BY <2>1, <2>2 DEF IsSum
<1>2. IsSum(g, f)
  BY <1>1
<1>3. SumFunction(f) = g[D]
  BY SumIsSum
<1> HIDE DEF g
<1>4. \A S \in SUBSET D : g[S] = IF S = {} THEN 0
                                 ELSE LET x == CHOOSE y \in S : TRUE IN f[x] + g[S \ {x}]
  BY <1>2 DEF IsSum
<1>5. \A S \in SUBSET D : w[S] = IF S = {} THEN 0
                                 ELSE LET x == CHOOSE y \in S : TRUE IN f[x] + w[S \ {x}]
  <2> HIDE DEF w
  <2> QED
    BY <1>1 DEF IsSum
<1> HIDE DEF w
<1> DEFINE T == {n \in Nat : \A S \in SUBSET D : Cardinality(S) = n => g[S] = w[S]}
<1>6. 0 \in T
  <2>1. \A S \in SUBSET D : Cardinality(S) = 0 => S = {}
    BY FS_Subset, FS_EmptySet
  <2> QED
    BY <1>4, <1>5, <2>1
<1>7. ASSUME NEW n \in Nat, n \in T
      PROVE  n + 1 \in T
  <2> SUFFICES ASSUME NEW S \in SUBSET D, Cardinality(S) = n + 1
               PROVE  g[S] = w[S]
    OBVIOUS
  <2> DEFINE x == CHOOSE y \in S : TRUE
  <2>1. IsFiniteSet(S) /\ S # {}
    BY FS_Subset, FS_EmptySet
  <2>2. x \in S
    BY <2>1
  <2>3. g[S] = f[x] + g[S \ {x}] /\ w[S] = f[x] + w[S \ {x}]
    BY <1>4, <1>5, <2>1
  <2> HIDE DEF x
  <2>4. S \ {x} \in SUBSET D /\ Cardinality(S \ {x}) = n
    <3>1. Cardinality(S \ {x}) = Cardinality(S) - 1
      BY <2>1, <2>2, FS_RemoveElement
    <3> QED
      BY <3>1
  <2> QED
    BY <1>7, <2>3, <2>4
<1> HIDE DEF T
<1>8. Nat \subseteq T
  BY <1>6, <1>7, Induction
<1>9. Cardinality(D) \in T
  BY <1>8, FS_CardinalityType
<1>10. g[D] = w[D]
  BY <1>9 DEF T
<1> QED
  BY <1>3, <1>10 DEF w

\* A sum of natural numbers is one.
LEMMA SumType ==
    ASSUME NEW f, IsFiniteSet(DOMAIN f), \A x \in DOMAIN f : f[x] \in Nat
    PROVE  SumFunction(f) \in Nat /\ (DOMAIN f = {} => SumFunction(f) = 0)
<1>1. Units(f, {}) = {}
  BY DEF Units
<1> QED
  BY <1>1, SumIsUnits, UnitsAreFinite, FS_EmptySet

\* What one more place adds to a sum.
LEMMA SumOfMore ==
    ASSUME NEW f, NEW S, IsFiniteSet(S), NEW x, x \notin S, DOMAIN f = S \union {x},
           \A y \in DOMAIN f : f[y] \in Nat,
           NEW g, DOMAIN g = S, \A y \in S : g[y] = f[y]
    PROVE  SumFunction(f) = SumFunction(g) + f[x]
<1>1. IsFiniteSet(S \union {x})
  BY FS_AddElement
<1>2. Units(g, S) = Units(f, S)
  BY DEF Units
<1>3. SumFunction(f) = Cardinality(Units(f, S \union {x}))
  BY <1>1, SumIsUnits
<1>4. SumFunction(g) = Cardinality(Units(f, S))
  BY <1>2, SumIsUnits
<1> QED
  BY <1>3, <1>4, UnitsOfMore

\* What a changed place changes.
LEMMA SumOfChanged ==
    ASSUME NEW f, IsFiniteSet(DOMAIN f), NEW x \in DOMAIN f, \A y \in DOMAIN f : f[y] \in Nat,
           NEW g, DOMAIN g = DOMAIN f, g[x] \in Nat, \A y \in DOMAIN f \ {x} : g[y] = f[y]
    PROVE  SumFunction(f) \in Nat /\ SumFunction(g) \in Nat
           /\ SumFunction(f) + g[x] = SumFunction(g) + f[x]
<1> DEFINE S == (DOMAIN f) \ {x}
           h == [y \in S |-> f[y]]
<1>1. IsFiniteSet(S) /\ x \notin S /\ DOMAIN f = S \union {x} /\ DOMAIN h = S
  BY FS_Subset
<1>2. \A y \in S : h[y] = f[y] /\ h[y] = g[y] /\ h[y] \in Nat
  OBVIOUS
<1> HIDE DEF S, h
<1>3. SumFunction(f) = SumFunction(h) + f[x]
  BY <1>1, <1>2, SumOfMore
<1>4. \A y \in DOMAIN g : g[y] \in Nat
  BY <1>1, <1>2
<1>5. SumFunction(g) = SumFunction(h) + g[x]
  BY <1>1, <1>2, <1>4, SumOfMore
<1>6. SumFunction(h) \in Nat
  BY <1>1, <1>2, SumType
<1> QED
  BY <1>3, <1>5, <1>6

\* A sum over two sets that have nothing in common.
LEMMA SumOfUnion ==
    ASSUME NEW f, NEW S, NEW T, IsFiniteSet(S), IsFiniteSet(T), S \intersect T = {},
           DOMAIN f = S \union T, \A y \in DOMAIN f : f[y] \in Nat,
           NEW g, DOMAIN g = S, \A y \in S : g[y] = f[y],
           NEW h, DOMAIN h = T, \A y \in T : h[y] = f[y]
    PROVE  SumFunction(f) = SumFunction(g) + SumFunction(h)
           /\ SumFunction(g) \in Nat /\ SumFunction(h) \in Nat
<1>1. Units(g, S) = Units(f, S) /\ Units(h, T) = Units(f, T)
  BY DEF Units
<1>2. IsFiniteSet(S \union T)
  BY FS_Union
<1>3. /\ SumFunction(f) = Cardinality(Units(f, S \union T))
      /\ SumFunction(g) = Cardinality(Units(g, S))
      /\ SumFunction(h) = Cardinality(Units(h, T))
  BY <1>2, SumIsUnits
<1>4. Units(f, S \union T) = Units(f, S) \union Units(f, T)
  BY DEF Units
<1>5. Units(f, S) \intersect Units(f, T) = {}
  BY DEF Units
<1>6. /\ IsFiniteSet(Units(f, S)) /\ Cardinality(Units(f, S)) \in Nat
      /\ IsFiniteSet(Units(f, T)) /\ Cardinality(Units(f, T)) \in Nat
  BY UnitsAreFinite
<1> DEFINE A == Units(f, S)
           B == Units(f, T)
<1> HIDE DEF A, B
<1>7. IsFiniteSet(A) /\ IsFiniteSet(B) /\ A \intersect B = {} /\ Cardinality(A) \in Nat /\ Cardinality(B) \in Nat
  BY <1>5, <1>6 DEF A, B
<1>8. Cardinality(A \union B) = Cardinality(A) + Cardinality(B) - Cardinality(A \intersect B)
  BY <1>7, FS_Union
<1>9. Cardinality(A \intersect B) = 0
  BY <1>7, FS_EmptySet
<1>10. Cardinality(A \union B) = Cardinality(A) + Cardinality(B)
  <2> DEFINE a == Cardinality(A)
             b == Cardinality(B)
             c == Cardinality(A \union B)
             d == Cardinality(A \intersect B)
  <2>1. a \in Nat /\ b \in Nat /\ c = a + b - d /\ d = 0
    BY <1>7, <1>8, <1>9
  <2> HIDE DEF a, b, c, d
  <2>2. c = a + b
    BY <2>1
  <2> QED
    BY <2>2 DEF a, b, c
<1> QED
  BY <1>1, <1>3, <1>4, <1>6, <1>10 DEF A, B

\* The order in which things are counted makes no difference.
LEMMA SumOfPermuted ==
    ASSUME NEW f, IsFiniteSet(DOMAIN f), \A x \in DOMAIN f : f[x] \in Nat,
           NEW D, NEW p \in [D -> DOMAIN f],
           \A x, y \in D : p[x] = p[y] => x = y,
           \A z \in DOMAIN f : \E x \in D : p[x] = z,
           NEW g, DOMAIN g = D, \A x \in D : g[x] = f[p[x]]
    PROVE  SumFunction(g) = SumFunction(f)
<1> DEFINE A == Units(f, DOMAIN f)
           B == Units(g, D)
           h == [u \in B |-> <<p[u[1]], u[2]>>]
<1>1. IsFiniteSet(A)
  BY UnitsAreFinite
<1>2. IsFiniteSet(D)
  <2>1. p \in Injection(D, DOMAIN f)
    BY DEF Injection, IsInjective
  <2> QED
    BY <2>1, FS_Injection
<1>3. h \in Bijection(B, A)
  <2>1. \A u : u \in B <=> \E x \in D : \E i \in 1..f[p[x]] : u = <<x, i>>
    BY DEF Units
  <2>2. \A u : u \in A <=> \E z \in DOMAIN f : \E i \in 1..f[z] : u = <<z, i>>
    BY DEF Units
  <2> HIDE DEF A, B
  <2>3. \A u \in B : h[u] \in A
    BY <2>1, <2>2
  <2>4. ASSUME NEW u \in B, NEW w \in B, h[u] = h[w]
        PROVE  u = w
    BY <2>1, <2>4
  <2>5. ASSUME NEW a \in A
        PROVE  \E u \in B : h[u] = a
    <3>1. PICK z \in DOMAIN f : \E i \in 1..f[z] : a = <<z, i>>
      BY <2>2
    <3>2. PICK i \in 1..f[z] : a = <<z, i>>
      BY <3>1
    <3>3. PICK x \in D : p[x] = z
      OBVIOUS
    <3>4. <<x, i>> \in B
      BY <2>1, <3>2, <3>3
    <3> QED
      BY <3>2, <3>3, <3>4
  <2>6. h \in [B -> A]
    BY <2>3
  <2> HIDE DEF h
  <2> QED
    BY <2>4, <2>5, <2>6 DEF Bijection, Injection, Surjection, IsInjective
<1>4. IsFiniteSet(B)
  BY <1>2, UnitsAreFinite
<1> HIDE DEF A, B, h
<1>5. Cardinality(A) = Cardinality(B)
  BY <1>3, <1>4, FS_Bijection DEF ExistsBijection
<1> QED
  BY <1>2, <1>5, SumIsUnits DEF A, B

-----------------------------------------------------------------------------
(* Recursion                                                               *)

IsRun(f, n, base, step, S) ==
    f \in [0..n -> S] /\ f[0] = base /\ \A i \in 0..(n - 1) : f[i + 1] = step[i][f[i]]

\* There is one run of n steps.
LEMMA RunsExist ==
    ASSUME NEW S, NEW base \in S, NEW step \in [Nat -> [S -> S]], NEW n \in Nat
    PROVE  /\ \E f : IsRun(f, n, base, step, S)
           /\ \A f, g : IsRun(f, n, base, step, S) /\ IsRun(g, n, base, step, S) => f[n] = g[n]
<1> DEFINE T == {m \in Nat : /\ \E f : IsRun(f, m, base, step, S)
                             /\ \A f, g : IsRun(f, m, base, step, S) /\ IsRun(g, m, base, step, S)
                                            => f[m] = g[m]}
<1>1. 0 \in T
  <2>1. IsRun([i \in 0..0 |-> base], 0, base, step, S)
    BY DEF IsRun
  <2>2. \A f, g : IsRun(f, 0, base, step, S) /\ IsRun(g, 0, base, step, S) => f[0] = g[0]
    BY DEF IsRun
  <2> QED
    BY <2>1, <2>2
<1>2. ASSUME NEW m \in Nat, m \in T
      PROVE  m + 1 \in T
  <2>1. ASSUME NEW f, IsRun(f, m + 1, base, step, S)
        PROVE  IsRun([i \in 0..m |-> f[i]], m, base, step, S) /\ f[m + 1] = step[m][f[m]]
    <3>1. \A i \in 0..(m - 1) : i \in 0..(m + 1 - 1) /\ i + 1 \in 0..m /\ i \in 0..m
      OBVIOUS
    <3>2. m \in 0..(m + 1 - 1) /\ 0 \in 0..m /\ \A i \in 0..m : i \in 0..(m + 1)
      OBVIOUS
    <3> QED
      BY <2>1, <3>1, <3>2 DEF IsRun
  <2>2. \E f : IsRun(f, m + 1, base, step, S)
    <3>1. PICK f : IsRun(f, m, base, step, S)
      BY <1>2
    <3> DEFINE g == [i \in 0..(m + 1) |-> IF i = m + 1 THEN step[m][f[m]] ELSE f[i]]
    <3>2. \A i \in 0..m : f[i] \in S
      BY <3>1 DEF IsRun
    <3>3. step[m][f[m]] \in S
      BY <3>2
    <3>4. g \in [0..(m + 1) -> S]
      <4>1. \A i \in 0..(m + 1) : i = m + 1 \/ i \in 0..m
        OBVIOUS
      <4> QED
        BY <3>2, <3>3, <4>1
    <3>5. g[0] = base
      BY <3>1 DEF IsRun
    <3>6. \A i \in 0..(m + 1 - 1) : g[i + 1] = step[i][g[i]]
      <4>1. \A i \in 0..(m + 1 - 1) : i = m \/ i \in 0..(m - 1)
        OBVIOUS
      <4>2. \A i \in 0..(m - 1) : g[i + 1] = f[i + 1] /\ g[i] = f[i]
        OBVIOUS
      <4>3. g[m + 1] = step[m][f[m]] /\ g[m] = f[m]
        OBVIOUS
      <4> HIDE DEF g
      <4> QED
        BY <3>1, <4>1, <4>2, <4>3 DEF IsRun
    <3> HIDE DEF g
    <3>7. IsRun(g, m + 1, base, step, S)
      BY <3>4, <3>5, <3>6 DEF IsRun
    <3> QED
      BY <3>7
  <2>3. ASSUME NEW f, NEW g, IsRun(f, m + 1, base, step, S), IsRun(g, m + 1, base, step, S)
        PROVE  f[m + 1] = g[m + 1]
    <3> DEFINE ff == [i \in 0..m |-> f[i]]
               gg == [i \in 0..m |-> g[i]]
    <3>1. /\ IsRun(ff, m, base, step, S) /\ IsRun(gg, m, base, step, S)
          /\ f[m + 1] = step[m][f[m]] /\ g[m + 1] = step[m][g[m]]
      BY <2>1, <2>3
    <3>2. ff[m] = f[m] /\ gg[m] = g[m]
      OBVIOUS
    <3> HIDE DEF ff, gg
    <3>3. ff[m] = gg[m]
      BY <1>2, <3>1
    <3> QED
      BY <3>1, <3>2, <3>3
  <2>4. m + 1 \in Nat
    OBVIOUS
  <2> QED
    BY <2>2, <2>3, <2>4
<1> HIDE DEF T
<1>3. n \in T
  BY <1>1, <1>2, Induction
<1> QED
  BY <1>3 DEF T

AreSteps(step, S) == step \in [Nat -> [S -> S]]

IsRecursive(f, base, step, S) ==
    f \in [Nat -> S] /\ f[0] = base /\ \A n \in Nat : f[n + 1] = step[n][f[n]]

\* A function on numbers can be defined step by step.
LEMMA Recursion ==
    ASSUME NEW S, NEW base \in S, NEW step, AreSteps(step, S)
    PROVE  \E f : IsRecursive(f, base, step, S)
<1>1. step \in [Nat -> [S -> S]]
  BY DEF AreSteps
<1> DEFINE run == [n \in Nat |-> CHOOSE f : IsRun(f, n, base, step, S)]
           w == [n \in Nat |-> run[n][n]]
<1>2. \A n \in Nat : IsRun(run[n], n, base, step, S)
  BY <1>1, RunsExist
<1>3. \A n \in Nat : w[n] = run[n][n]
  OBVIOUS
<1>4. w = [n \in Nat |-> w[n]]
  OBVIOUS
<1> HIDE DEF run, w
<1>5. w \in [Nat -> S]
  <2>1. \A n \in Nat : run[n][n] \in S
    <3>1. \A n \in Nat : n \in 0..n
      OBVIOUS
    <3> QED
      BY <1>2, <3>1 DEF IsRun
  <2> QED
    BY <1>3, <1>4, <2>1
<1>6. w[0] = base
  BY <1>2, <1>3 DEF IsRun
<1>7. ASSUME NEW n \in Nat
      PROVE  w[n + 1] = step[n][w[n]]
  <2> DEFINE f == run[n + 1]
             g == [i \in 0..n |-> f[i]]
  <2>1. IsRun(f, n + 1, base, step, S) /\ w[n + 1] = f[n + 1]
    BY <1>2, <1>3
  <2>2. g[n] = f[n]
    OBVIOUS
  <2> HIDE DEF f
  <2>3. IsRun(g, n, base, step, S) /\ f[n + 1] = step[n][f[n]]
    <3>1. \A i \in 0..(n - 1) : i \in 0..(n + 1 - 1) /\ i + 1 \in 0..n /\ i \in 0..n
      OBVIOUS
    <3>2. n \in 0..(n + 1 - 1) /\ 0 \in 0..n /\ \A i \in 0..n : i \in 0..(n + 1)
      OBVIOUS
    <3> QED
      BY <2>1, <3>1, <3>2 DEF IsRun
  <2> HIDE DEF g
  <2>4. w[n] = g[n]
    <3>1. \A h, k : IsRun(h, n, base, step, S) /\ IsRun(k, n, base, step, S) => h[n] = k[n]
      BY <1>1, RunsExist
    <3> QED
      BY <1>2, <1>3, <2>3, <3>1
  <2> QED
    BY <2>1, <2>2, <2>3, <2>4
<1> QED
  BY <1>5, <1>6, <1>7 DEF IsRecursive

-----------------------------------------------------------------------------
(* Integers and text in bytes                                              *)

IsPower(f) == f = [n \in Nat |-> IF n = 0 THEN 1 ELSE Base * f[n - 1]]

\* Power is what its definition says, at 0 and at a successor.
LEMMA PowerStep ==
    /\ Power[0] = 1
    /\ \A n \in Nat : Power[n] \in Nat \ {0} /\ Power[n + 1] = Base * Power[n]
<1> DEFINE step == [n \in Nat |-> [x \in Nat \ {0} |-> Base * x]]
<1>1. Base \in Nat \ {0, 1}
  BY FormatAssumption
<1>2. \A x \in Nat \ {0} : Base * x \in Nat \ {0}
  BY <1>1
<1>3. PICK f \in [Nat -> Nat \ {0}] : f[0] = 1 /\ \A n \in Nat : f[n + 1] = step[n][f[n]]
  <2>1. step \in [Nat -> [Nat \ {0} -> Nat \ {0}]]
    BY <1>2
  <2>2. 1 \in Nat \ {0}
    OBVIOUS
  <2> HIDE DEF step
  <2> DEFINE S == Nat \ {0}
  <2>3. AreSteps(step, S) /\ 1 \in S
    BY <2>1, <2>2 DEF AreSteps
  <2> HIDE DEF S
  <2>4. \E f : IsRecursive(f, 1, step, S)
    BY <2>3, Recursion
  <2> QED
    BY <2>4 DEF S, IsRecursive
<1>4. \A n \in Nat : f[n + 1] = Base * f[n]
  BY <1>3
<1> HIDE DEF step
<1>5. IsPower(f)
  <2>1. \A n \in Nat : f[n] = IF n = 0 THEN 1 ELSE Base * f[n - 1]
    <3>1. ASSUME NEW n \in Nat, n # 0
          PROVE  n - 1 \in Nat /\ (n - 1) + 1 = n
      BY <3>1
    <3> QED
      BY <1>3, <1>4, <3>1
  <2>2. f = [n \in Nat |-> f[n]]
    OBVIOUS
  <2> QED
    BY <2>1, <2>2 DEF IsPower
<1>6. IsPower(Power)
  <2>1. Power = CHOOSE g : IsPower(g)
    BY DEF Power, IsPower
  <2> QED
    BY <1>5, <2>1
<1>7. \A n \in Nat : Power[n] = IF n = 0 THEN 1 ELSE Base * Power[n - 1]
  BY <1>6 DEF IsPower
<1>8. Power[0] = 1 /\ \A n \in Nat : Power[n + 1] = Base * Power[n]
  <2>1. \A n \in Nat : n + 1 # 0 /\ (n + 1) - 1 = n /\ n + 1 \in Nat
    OBVIOUS
  <2> QED
    BY <1>7, <2>1
<1> DEFINE T == {n \in Nat : Power[n] \in Nat \ {0}}
<1>9. Nat \subseteq T
  <2>1. 0 \in T
    BY <1>8
  <2>2. \A n \in Nat : n \in T => n + 1 \in T
    BY <1>2, <1>8
  <2> HIDE DEF T
  <2> QED
    BY <2>1, <2>2, Induction
<1> QED
  BY <1>8, <1>9

LEMMA DivideByBase ==
    ASSUME NEW n \in Nat
    PROVE  n % Base \in Byte /\ n \div Base \in Nat /\ n = (n % Base) + Base * (n \div Base)
BY FormatAssumption DEF Byte

IsShifted(f, value) ==
    f = [i \in 0..WordBytes |-> IF i = 0 THEN value % WordSize ELSE f[i - 1] \div Base]

\* Each byte of an integer is the last of what the bytes before leave of it.
LEMMA IntegerBytesShift ==
    ASSUME NEW value \in Int
    PROVE  \E f \in [0..WordBytes -> Nat] :
             /\ f[0] = value % WordSize /\ \A i \in 0..(WordBytes - 1) : f[i + 1] = f[i] \div Base
             /\ IntegerBytes(value) = [i \in 1..WordBytes |-> f[i - 1] % Base]
<1> DEFINE step == [n \in Nat |-> [x \in Nat |-> x \div Base]]
           base == value % WordSize
<1>1. base \in Nat
  BY FormatAssumption, PowerStep DEF WordSize
<1>2. step \in [Nat -> [Nat -> Nat]]
  BY DivideByBase
<1> HIDE DEF step, base
<1>3. PICK g \in [Nat -> Nat] : g[0] = base /\ \A n \in Nat : g[n + 1] = step[n][g[n]]
  <2>1. AreSteps(step, Nat)
    BY <1>2 DEF AreSteps
  <2>2. \E g : IsRecursive(g, base, step, Nat)
    BY <1>1, <2>1, Recursion
  <2> QED
    BY <2>2 DEF IsRecursive
<1>4. \A n \in Nat : g[n + 1] = g[n] \div Base
  BY <1>3 DEF step
<1>5. WordBytes \in Nat
  BY FormatAssumption
<1> DEFINE h == [i \in 0..WordBytes |-> g[i]]
<1>6. IsShifted(h, value)
  <2>1. \A i \in 0..WordBytes : h[i] = IF i = 0 THEN value % WordSize ELSE h[i - 1] \div Base
    <3>1. ASSUME NEW i \in 0..WordBytes, i # 0
          PROVE  i - 1 \in 0..WordBytes /\ i - 1 \in Nat /\ (i - 1) + 1 = i
      BY <1>5, <3>1
    <3>2. 0 \in 0..WordBytes
      BY <1>5
    <3> QED
      BY <1>3, <1>4, <3>1, <3>2 DEF base
  <2>2. h = [i \in 0..WordBytes |-> h[i]]
    OBVIOUS
  <2> HIDE DEF h
  <2> QED
    BY <2>1, <2>2 DEF IsShifted
<1> HIDE DEF h
<1> DEFINE f == CHOOSE k : IsShifted(k, value)
<1>7. IsShifted(f, value)
  BY <1>6
<1>8. IntegerBytes(value) = [i \in 1..WordBytes |-> f[i - 1] % Base]
  BY DEF IntegerBytes, IsShifted
<1> HIDE DEF f
<1>9. \A i \in 0..WordBytes : f[i] = IF i = 0 THEN value % WordSize ELSE f[i - 1] \div Base
  BY <1>7 DEF IsShifted
<1>10. /\ f[0] = value % WordSize /\ \A i \in 0..(WordBytes - 1) : f[i + 1] = f[i] \div Base
  <2>1. \A i \in 0..(WordBytes - 1) : i + 1 \in 0..WordBytes /\ i + 1 # 0 /\ (i + 1) - 1 = i
    BY <1>5
  <2>2. 0 \in 0..WordBytes
    BY <1>5
  <2> QED
    BY <1>9, <2>1, <2>2
<1>11. \A i \in 0..WordBytes : f[i] \in Nat
  <2> DEFINE T == {i \in Nat : i \in 0..WordBytes => f[i] \in Nat}
  <2>1. 0 \in T
    BY <1>1, <1>10 DEF base
  <2>2. ASSUME NEW i \in Nat, i \in T
        PROVE  i + 1 \in T
    <3>1. i + 1 \in 0..WordBytes => i \in 0..WordBytes /\ i \in 0..(WordBytes - 1)
      BY <1>5
    <3> QED
      BY <1>10, <2>2, <3>1, DivideByBase
  <2> HIDE DEF T
  <2>3. Nat \subseteq T
    BY <2>1, <2>2, Induction
  <2> QED
    BY <1>5, <2>3 DEF T
<1>12. f \in [0..WordBytes -> Nat]
  BY <1>7, <1>11 DEF IsShifted
<1> QED
  BY <1>8, <1>10, <1>12

\* An integer takes one word.
LEMMA IntegerBytesType ==
    ASSUME NEW value \in Int
    PROVE  IntegerBytes(value) \in Text /\ Len(IntegerBytes(value)) = WordBytes
<1>1. PICK f \in [0..WordBytes -> Nat] :
        IntegerBytes(value) = [i \in 1..WordBytes |-> f[i - 1] % Base]
  BY IntegerBytesShift
<1>2. WordBytes \in Nat
  BY FormatAssumption
<1>3. \A i \in 1..WordBytes : f[i - 1] % Base \in Byte
  <2>1. \A i \in 1..WordBytes : f[i - 1] \in Nat
    BY <1>2
  <2> QED
    BY <2>1, DivideByBase
<1> QED
  BY <1>1, <1>2, <1>3 DEF Text

\* A text takes a word and its bytes.
LEMMA TextBytesType ==
    ASSUME NEW string \in Text
    PROVE  /\ TextBytes(string) \in Text /\ Len(TextBytes(string)) = WordBytes + Len(string)
           /\ Len(string) \in Nat
<1>1. Len(string) \in Nat /\ string \in Seq(Byte)
  BY DEF Text
<1>2. IntegerBytes(Len(string)) \in Seq(Byte) /\ Len(IntegerBytes(Len(string))) = WordBytes
  BY <1>1, IntegerBytesType DEF Text
<1> QED
  BY <1>1, <1>2, ConcatProperties DEF TextBytes, Text

-----------------------------------------------------------------------------
(* Sequences of sequences                                                  *)

\* K[i] are the first i pieces, joined.
AreJoins(K, f, n, X) ==
    /\ K \in [0..n -> Seq(X)]
    /\ K[0] = <<>> /\ \A i \in 0..(n - 1) : K[i + 1] = K[i] \o f[i + 1]

IsFlattening(g, f) ==
    g = [i \in 1..Len(f) |-> IF i = 1 THEN f[i] ELSE g[i - 1] \o f[i]]

\* The pieces of a sequence can be joined one by one.
LEMMA JoinsExist ==
    ASSUME NEW X, NEW f \in Seq(Seq(X))
    PROVE  \E K : AreJoins(K, f, Len(f), X) /\ FlattenSeq(f) = K[Len(f)]
<1> DEFINE n == Len(f)
           piece == [i \in Nat |-> IF i + 1 \in 1..n THEN f[i + 1] ELSE <<>>]
           step == [i \in Nat |-> [s \in Seq(X) |-> s \o piece[i]]]
<1>1. n \in Nat /\ f \in [1..n -> Seq(X)] /\ <<>> \in Seq(X)
  OBVIOUS
<1>2. AreSteps(step, Seq(X))
  <2>1. piece \in [Nat -> Seq(X)]
    BY <1>1
  <2> HIDE DEF piece
  <2>2. \A s \in Seq(X), t \in Seq(X) : s \o t \in Seq(X)
    OBVIOUS
  <2> QED
    BY <2>1, <2>2 DEF AreSteps
<1>3. PICK G : IsRecursive(G, <<>>, step, Seq(X))
  <2> HIDE DEF step
  <2>1. <<>> \in Seq(X)
    OBVIOUS
  <2> QED
    BY <1>2, <2>1, Recursion
<1>4. /\ G \in [Nat -> Seq(X)] /\ G[0] = <<>>
      /\ \A i \in Nat : G[i + 1] = G[i] \o piece[i]
  <2> HIDE DEF piece
  <2> QED
    BY <1>3 DEF IsRecursive
<1>5. \A i \in 0..(n - 1) : G[i + 1] = G[i] \o f[i + 1]
  <2>1. \A i \in 0..(n - 1) : i \in Nat /\ piece[i] = f[i + 1]
    BY <1>1
  <2> HIDE DEF piece
  <2> QED
    BY <1>4, <2>1
<1> HIDE DEF piece, step
<1> DEFINE h == [i \in 1..n |-> G[i]]
           K == [i \in 0..n |-> G[i]]
<1>6. IsFlattening(h, f)
  <2>1. ASSUME NEW i \in 1..n
        PROVE  h[i] = IF i = 1 THEN f[i] ELSE h[i - 1] \o f[i]
    <3>1. i - 1 \in 0..(n - 1) /\ (i - 1) + 1 = i /\ (i # 1 => i - 1 \in 1..n)
      BY <1>1
    <3>2. G[i] = G[i - 1] \o f[i]
      BY <1>5, <3>1
    <3>3. CASE i = 1
      <4>1. f[1] \in Seq(X) /\ G[i - 1] = <<>>
        BY <1>1, <1>4, <3>3
      <4>2. <<>> \o f[1] = f[1]
        BY <4>1, ConcatEmptySeq
      <4> QED
        BY <3>2, <3>3, <4>1, <4>2
    <3>4. CASE i # 1
      BY <3>1, <3>2, <3>4
    <3> QED
      BY <3>3, <3>4
  <2>2. h = [i \in 1..n |-> h[i]]
    OBVIOUS
  <2> HIDE DEF h
  <2> QED
    BY <2>1, <2>2 DEF IsFlattening
<1> DEFINE g == CHOOSE k : IsFlattening(k, f)
<1>7. IsFlattening(g, f)
  BY <1>6
<1>8. FlattenSeq(f) = IF n = 0 THEN f ELSE g[n]
  BY DEF FlattenSeq, IsFlattening
<1> HIDE DEF g, h
<1>9. \A i \in 1..n : g[i] = IF i = 1 THEN f[i] ELSE g[i - 1] \o f[i]
  BY <1>7 DEF IsFlattening
<1> DEFINE T == {i \in Nat : i \in 1..n => g[i] = G[i]}
<1>10. Nat \subseteq T
  <2>1. 0 \in T
    OBVIOUS
  <2>2. ASSUME NEW i \in Nat, i \in T
        PROVE  i + 1 \in T
    <3> SUFFICES ASSUME i + 1 \in 1..n
                 PROVE  g[i + 1] = G[i + 1]
      OBVIOUS
    <3>1. i \in 0..(n - 1) /\ (i # 0 => i \in 1..n /\ i + 1 # 1) /\ (i + 1) - 1 = i
      BY <1>1
    <3>2. G[i + 1] = G[i] \o f[i + 1]
      BY <1>5, <3>1
    <3>3. CASE i = 0
      <4>1. f[1] \in Seq(X) /\ G[i] = <<>> /\ i + 1 = 1
        BY <1>1, <1>4, <3>3
      <4>2. <<>> \o f[1] = f[1]
        BY <4>1, ConcatEmptySeq
      <4> QED
        BY <1>9, <3>2, <3>3, <4>1, <4>2
    <3>4. CASE i # 0
      <4>1. g[i + 1] = g[i] \o f[i + 1]
        BY <1>9, <3>1, <3>4
      <4>2. g[i] = G[i]
        BY <2>2, <3>1, <3>4
      <4> QED
        BY <3>2, <4>1, <4>2
    <3> QED
      BY <3>3, <3>4
  <2> HIDE DEF T
  <2> QED
    BY <2>1, <2>2, Induction
<1>11. FlattenSeq(f) = K[n]
  <2>1. CASE n = 0
    <3>1. f = <<>>
      BY <2>1
    <3> QED
      BY <1>1, <1>4, <1>8, <2>1, <3>1
  <2>2. CASE n # 0
    BY <1>1, <1>8, <1>10, <2>2
  <2> QED
    BY <2>1, <2>2
<1>12. AreJoins(K, f, n, X)
  <2>1. K \in [0..n -> Seq(X)]
    BY <1>4
  <2>2. \A i \in 0..(n - 1) : K[i + 1] = G[i + 1] /\ K[i] = G[i]
    <3>1. \A i \in 0..(n - 1) : i \in 0..n /\ i + 1 \in 0..n
      BY <1>1
    <3> QED
      BY <3>1
  <2>3. K[0] = <<>>
    BY <1>1, <1>4
  <2> HIDE DEF K
  <2>4. \A i \in 0..(n - 1) : K[i + 1] = K[i] \o f[i + 1]
    BY <1>5, <2>2
  <2> QED
    BY <2>1, <2>3, <2>4 DEF AreJoins
<1> QED
  BY <1>11, <1>12

\* What is joined is as long as the pieces together.
LEMMA FlattenLength ==
    ASSUME NEW X, NEW f \in Seq(Seq(X))
    PROVE  /\ FlattenSeq(f) \in Seq(X)
           /\ Len(FlattenSeq(f)) = SumFunction([i \in DOMAIN f |-> Len(f[i])])
<1> DEFINE n == Len(f)
           Lens(k) == [i \in 1..k |-> Len(f[i])]
<1>1. n \in Nat /\ f \in [1..n -> Seq(X)] /\ DOMAIN f = 1..n
  OBVIOUS
<1>2. PICK K : AreJoins(K, f, n, X) /\ FlattenSeq(f) = K[n]
  BY JoinsExist
<1>3. \A i \in 0..n : K[i] \in Seq(X)
  BY <1>2 DEF AreJoins
<1> DEFINE T == {k \in Nat : k \in 0..n => Len(K[k]) = SumFunction(Lens(k))}
<1>4. 0 \in T
  <2>1. DOMAIN Lens(0) = {} /\ IsFiniteSet({})
    BY FS_EmptySet
  <2>2. SumFunction(Lens(0)) = 0
    <3> DEFINE h == Lens(0)
    <3>1. DOMAIN h = {}
      BY <2>1
    <3> HIDE DEF h
    <3>2. SumFunction(h) = 0
      BY <2>1, <3>1, SumType
    <3> QED
      BY <3>2 DEF h
  <2>3. K[0] = <<>>
    BY <1>2 DEF AreJoins
  <2> QED
    BY <2>2, <2>3
<1>5. ASSUME NEW k \in Nat, k \in T
      PROVE  k + 1 \in T
  <2> SUFFICES ASSUME k + 1 \in 0..n
               PROVE  Len(K[k + 1]) = SumFunction(Lens(k + 1))
    OBVIOUS
  <2> DEFINE S == 1..k
             a == Lens(k + 1)
             b == Lens(k)
  <2>1. k \in 0..(n - 1) /\ k \in 0..n /\ k + 1 \in 1..n
    BY <1>1
  <2>2. K[k + 1] = K[k] \o f[k + 1]
    BY <1>2, <2>1 DEF AreJoins
  <2>3. Len(K[k + 1]) = Len(K[k]) + Len(f[k + 1])
    BY <1>1, <1>3, <2>1, <2>2, ConcatProperties
  <2>4. /\ IsFiniteSet(S) /\ k + 1 \notin S /\ DOMAIN a = S \union {k + 1} /\ DOMAIN b = S
        /\ a[k + 1] = Len(f[k + 1])
    <3>1. 1..(k + 1) = (1..k) \union {k + 1}
      OBVIOUS
    <3>2. IsFiniteSet(1..k) /\ k + 1 \notin 1..k /\ k + 1 \in 1..(k + 1)
      BY FS_Interval
    <3> QED
      BY <3>1, <3>2
  <2>5. /\ \A i \in S : b[i] = a[i]
        /\ \A i \in DOMAIN a : a[i] \in Nat
    <3>1. \A i \in 1..(k + 1) : i \in 1..n
      BY <2>1
    <3>2. \A i \in 1..(k + 1) : Len(f[i]) \in Nat
      BY <1>1, <3>1
    <3> QED
      BY <3>2
  <2>6. Len(K[k]) = SumFunction(b)
    BY <1>5, <2>1
  <2> HIDE DEF a, b, S
  <2>7. SumFunction(a) = SumFunction(b) + a[k + 1]
    BY <2>4, <2>5, SumOfMore
  <2>8. Len(K[k + 1]) = SumFunction(a)
    BY <2>3, <2>4, <2>6, <2>7
  <2> QED
    BY <2>8 DEF a
<1>6. Nat \subseteq T
  <2> HIDE DEF T
  <2> QED
    BY <1>4, <1>5, Induction
<1>7. Len(K[n]) = SumFunction(Lens(n))
  BY <1>1, <1>6
<1> QED
  BY <1>1, <1>2, <1>3, <1>7

-----------------------------------------------------------------------------
(* The order of keys and names                                             *)

\* a and b agree in k bytes, and there a ends or is less.
Before(a, b, k) ==
    /\ k \in 0..Len(a) /\ k \in 0..(Len(b) - 1)
    /\ \A j \in 1..k : a[j] = b[j]
    /\ k = Len(a) \/ a[k + 1] < b[k + 1]

\* A text precedes another exactly if it is Before it at some byte.
LEMMA PrecedesBefore ==
    ASSUME NEW a \in Text, NEW b \in Text
    PROVE  Precedes(a, b) <=> \E k \in Nat : Before(a, b, k)
<1>1. /\ Len(a) \in Nat /\ DOMAIN a = 1..Len(a) /\ a \in [1..Len(a) -> Byte] /\ a \in Seq(Byte)
      /\ Len(b) \in Nat /\ DOMAIN b = 1..Len(b) /\ b \in [1..Len(b) -> Byte] /\ b \in Seq(Byte)
  BY LenProperties DEF Text
<1>2. IsStrictPrefix(a, b) <=> Len(a) < Len(b) /\ \A j \in 1..Len(a) : a[j] = b[j]
  <2>1. ASSUME Len(a) <= Len(b)
        PROVE  /\ SubSeq(b, 1, Len(a)) \in Seq(Byte) /\ Len(SubSeq(b, 1, Len(a))) = Len(a)
               /\ \A i \in 1..Len(a) : SubSeq(b, 1, Len(a))[i] = b[i]
    <3>1. \A i \in 1..Len(a) : b[i] \in Byte
      BY <1>1, <2>1
    <3> DEFINE n == Len(a)
               s == SubSeq(b, 1, n)
    <3>2. n \in Int /\ 1 \in Int /\ \A i \in 1..n : b[i] \in Byte
      BY <1>1, <3>1
    <3> HIDE DEF n
    <3>3. /\ s \in Seq(Byte) /\ Len(s) = IF 1 <= n THEN n - 1 + 1 ELSE 0
          /\ \A i \in 1..(n - 1 + 1) : s[i] = b[1 + i - 1]
      BY <3>2, SubSeqProperties
    <3> HIDE DEF s
    <3>4. n \in Nat
      BY <1>1 DEF n
    <3>5. s \in Seq(Byte) /\ Len(s) = n
      BY <3>3, <3>4
    <3>6. \A i \in 1..n : s[i] = b[i]
      <4>1. \A i \in 1..n : 1 + i - 1 = i /\ i \in 1..(n - 1 + 1)
        BY <3>4
      <4> QED
        BY <3>3, <4>1
    <3> QED
      BY <3>5, <3>6 DEF n, s
  <2>2. SubSeq(a, 1, Len(a)) = a
    BY <1>1, SubSeqFull
  <2>3. CASE Len(a) <= Len(b)
    <3> DEFINE s == SubSeq(b, 1, Len(a))
    <3>1. s \in Seq(Byte) /\ Len(s) = Len(a) /\ \A i \in 1..Len(a) : s[i] = b[i]
      BY <2>1, <2>3
    <3> HIDE DEF s
    <3>2. s = a <=> \A j \in 1..Len(a) : a[j] = b[j]
      BY <1>1, <3>1, SeqEqual
    <3>3. Len(a) = Len(b) /\ (\A j \in 1..Len(a) : a[j] = b[j]) => a = b
      BY <1>1, SeqEqual
    <3>4. Len(a) < Len(b) => a # b
      BY <1>1
    <3> DEFINE x == Len(a)
               y == Len(b)
    <3>8. x \in Nat /\ y \in Nat /\ x <= y
      BY <1>1, <2>3
    <3> HIDE DEF x, y
    <3>9. (x = y \/ x < y) /\ (x < y => x # y)
      BY <3>8
    <3>5. Len(a) = Len(b) \/ Len(a) < Len(b)
      BY <3>9 DEF x, y
    <3>6. IsStrictPrefix(a, b) <=> a = s /\ a # b
      BY <2>2, <2>3 DEF IsStrictPrefix, IsPrefix, s
    <3>7. Len(a) < Len(b) => Len(a) # Len(b)
      BY <3>9 DEF x, y
    <3> QED
      BY <3>2, <3>3, <3>4, <3>5, <3>6, <3>7
  <2>4. CASE ~(Len(a) <= Len(b))
    BY <1>1, <2>4 DEF IsStrictPrefix, IsPrefix
  <2> QED
    BY <2>3, <2>4
<1> DEFINE m == Len(a)
           n == Len(b)
<1>3. m \in Nat /\ n \in Nat /\ m = Len(a) /\ n = Len(b)
  BY <1>1
<1>4. Precedes(a, b) <=> \/ m < n /\ \A j \in 1..m : a[j] = b[j]
                         \/ \E i \in (1..m) \intersect (1..n) :
                              a[i] < b[i] /\ \A j \in 1..(i - 1) : a[j] = b[j]
  BY <1>1, <1>2 DEF Precedes
<1> HIDE DEF m, n
<1>5. ASSUME Precedes(a, b)
      PROVE  \E k \in Nat : Before(a, b, k)
  <2>1. CASE m < n /\ \A j \in 1..m : a[j] = b[j]
    <3>1. m \in 0..m /\ m \in 0..(n - 1)
      BY <1>3, <2>1
    <3>2. Before(a, b, m)
      BY <1>3, <2>1, <3>1 DEF Before
    <3> QED
      BY <1>3, <3>2
  <2>2. CASE \E i \in (1..m) \intersect (1..n) : a[i] < b[i] /\ \A j \in 1..(i - 1) : a[j] = b[j]
    <3>1. PICK i \in (1..m) \intersect (1..n) : a[i] < b[i] /\ \A j \in 1..(i - 1) : a[j] = b[j]
      BY <2>2
    <3>2. i - 1 \in Nat /\ i - 1 \in 0..m /\ i - 1 \in 0..(n - 1) /\ (i - 1) + 1 = i
      BY <1>3
    <3>3. Before(a, b, i - 1)
      BY <1>3, <3>1, <3>2 DEF Before
    <3> QED
      BY <3>2, <3>3
  <2> QED
    BY <1>4, <1>5, <2>1, <2>2
<1>6. ASSUME NEW k \in Nat, Before(a, b, k)
      PROVE  Precedes(a, b)
  <2>1. /\ k \in 0..m /\ k \in 0..(n - 1) /\ \A j \in 1..k : a[j] = b[j]
        /\ k = m \/ a[k + 1] < b[k + 1]
    BY <1>3, <1>6 DEF Before
  <2>2. CASE k = m
    <3>1. m < n
      BY <1>3, <2>1, <2>2
    <3> QED
      BY <1>4, <2>1, <2>2, <3>1
  <2>3. CASE k # m
    <3>1. k + 1 \in (1..m) \intersect (1..n) /\ (k + 1) - 1 = k
      BY <1>3, <2>1, <2>3
    <3> QED
      BY <1>4, <2>1, <2>3, <3>1
  <2> QED
    BY <2>2, <2>3
<1> QED
  BY <1>5, <1>6

\* It is the lexical order.
LEMMA PrecedesIsOrder ==
    /\ \A a \in Text : ~Precedes(a, a)
    /\ \A a, b, c \in Text : Precedes(a, b) /\ Precedes(b, c) => Precedes(a, c)
    /\ \A a, b \in Text : a = b \/ Precedes(a, b) \/ Precedes(b, a)
<1>1. \A a \in Text : Len(a) \in Nat /\ \A i \in 1..Len(a) : a[i] \in Int
  BY FormatAssumption, LenProperties, ElementOfSeq DEF Text, Byte
<1>2. ASSUME NEW a \in Text
      PROVE  ~Precedes(a, a)
  <2>1. ASSUME NEW k \in Nat, Before(a, a, k)
        PROVE  FALSE
    <3>1. k + 1 \in 1..Len(a) /\ k # Len(a)
      BY <1>1, <2>1 DEF Before
    <3>2. a[k + 1] \in Int
      BY <1>1, <3>1
    <3> QED
      BY <2>1, <3>1, <3>2 DEF Before
  <2> QED
    BY <2>1, PrecedesBefore
<1>3. ASSUME NEW a \in Text, NEW b \in Text, NEW c \in Text, Precedes(a, b), Precedes(b, c)
      PROVE  Precedes(a, c)
  <2>1. PICK k \in Nat : Before(a, b, k)
    BY <1>3, PrecedesBefore
  <2>2. PICK l \in Nat : Before(b, c, l)
    BY <1>3, PrecedesBefore
  <2> DEFINE x == Len(a)
             y == Len(b)
             z == Len(c)
  <2>3. x \in Nat /\ y \in Nat /\ z \in Nat
    BY <1>1
  <2>4. /\ k \in 0..x /\ k \in 0..(y - 1) /\ \A j \in 1..k : a[j] = b[j]
        /\ k = x \/ a[k + 1] < b[k + 1]
    BY <2>1 DEF Before
  <2>5. /\ l \in 0..y /\ l \in 0..(z - 1) /\ \A j \in 1..l : b[j] = c[j]
        /\ l = y \/ b[l + 1] < c[l + 1]
    BY <2>2 DEF Before
  <2>6. /\ \A i \in 1..x : a[i] \in Int
        /\ \A i \in 1..y : b[i] \in Int
        /\ \A i \in 1..z : c[i] \in Int
    BY <1>1
  <2>7. SUFFICES \E i \in Nat : /\ i \in 0..x /\ i \in 0..(z - 1) /\ \A j \in 1..i : a[j] = c[j]
                                /\ i = x \/ a[i + 1] < c[i + 1]
    BY PrecedesBefore DEF Before
  <2> HIDE DEF x, y, z
  <2>8. CASE k < l
    <3>1. k \in 0..(z - 1) /\ k + 1 \in 1..l /\ (1..k) \subseteq (1..l)
      BY <2>3, <2>5, <2>8
    <3>2. \A j \in 1..k : a[j] = c[j]
      BY <2>4, <2>5, <3>1
    <3>3. b[k + 1] = c[k + 1]
      BY <2>5, <3>1
    <3> QED
      BY <2>4, <3>1, <3>2, <3>3
  <2>9. CASE k = l
    <3>1. \A j \in 1..k : a[j] = c[j]
      BY <2>4, <2>5, <2>9
    <3>2. k # y /\ k + 1 \in 1..y /\ k + 1 \in 1..z /\ (k # x => k + 1 \in 1..x)
      BY <2>3, <2>4, <2>5, <2>9
    <3>3. b[k + 1] < c[k + 1]
      BY <2>5, <2>9, <3>2
    <3>4. k # x => a[k + 1] < c[k + 1]
      <4> SUFFICES ASSUME k # x PROVE a[k + 1] < c[k + 1]
        OBVIOUS
      <4>1. a[k + 1] \in Int /\ b[k + 1] \in Int /\ c[k + 1] \in Int
        BY <2>6, <3>2
      <4>2. a[k + 1] < b[k + 1]
        BY <2>4
      <4> QED
        BY <3>3, <4>1, <4>2
    <3> QED
      BY <2>4, <2>5, <2>9, <3>1, <3>4
  <2>10. CASE l < k
    <3>1. l \in 0..x /\ l + 1 \in 1..k /\ (1..l) \subseteq (1..k) /\ l # y
      BY <2>3, <2>4, <2>10
    <3>2. \A j \in 1..l : a[j] = c[j]
      BY <2>4, <2>5, <3>1
    <3>3. a[l + 1] = b[l + 1] /\ b[l + 1] < c[l + 1]
      BY <2>4, <2>5, <3>1
    <3> QED
      BY <2>5, <3>1, <3>2, <3>3
  <2> QED
    BY <2>8, <2>9, <2>10
<1>4. ASSUME NEW a \in Text, NEW b \in Text
      PROVE  a = b \/ Precedes(a, b) \/ Precedes(b, a)
  <2> DEFINE x == Len(a)
             y == Len(b)
             D == {i \in Nat : i < x /\ i < y /\ a[i + 1] # b[i + 1]}
  <2>1. x \in Nat /\ y \in Nat /\ x = Len(a) /\ y = Len(b)
    BY <1>1
  <2>2. CASE D = {}
    <3>1. \A j : j \in 1..x /\ j \in 1..y => a[j] = b[j]
      <4>1. \A j : j \in 1..x /\ j \in 1..y => j - 1 \in Nat /\ j - 1 < x /\ j - 1 < y /\ (j - 1) + 1 = j
        BY <2>1
      <4> QED
        BY <2>2, <4>1
    <3> HIDE DEF x, y
    <3>2. CASE x = y
      <4>1. a = b
        BY <2>1, <3>1, <3>2, SeqEqual DEF Text
      <4> QED
        BY <4>1
    <3>3. CASE x < y
      <4>1. x \in 0..x /\ x \in 0..(y - 1) /\ \A j \in 1..x : j \in 1..y
        BY <2>1, <3>3
      <4>2. Before(a, b, x)
        BY <2>1, <3>1, <4>1 DEF Before
      <4> QED
        BY <2>1, <4>2, PrecedesBefore
    <3>4. CASE y < x
      <4>1. y \in 0..y /\ y \in 0..(x - 1) /\ \A j \in 1..y : j \in 1..x
        BY <2>1, <3>4
      <4>2. Before(b, a, y)
        BY <2>1, <3>1, <4>1 DEF Before
      <4> QED
        BY <2>1, <4>2, PrecedesBefore
    <3> QED
      BY <2>1, <3>2, <3>3, <3>4
  <2>3. CASE D # {}
    <3>1. D \in SUBSET Nat
      OBVIOUS
    <3>2. PICK k \in D : \A i \in D : k <= i
      <4> HIDE DEF D
      <4> QED
        BY <2>3, <3>1, LeastNumber
    <3>3. k \in Nat /\ k < x /\ k < y /\ a[k + 1] # b[k + 1]
      OBVIOUS
    <3>4. \A j \in 1..k : a[j] = b[j]
      <4> SUFFICES ASSUME NEW j \in 1..k, a[j] # b[j]
                   PROVE  FALSE
        OBVIOUS
      <4>1. j - 1 \in Nat /\ j - 1 < x /\ j - 1 < y /\ (j - 1) + 1 = j /\ ~(k <= j - 1)
        BY <2>1, <3>3
      <4>2. j - 1 \in D
        BY <4>1
      <4> QED
        BY <3>2, <4>1, <4>2
    <3> HIDE DEF D, x, y
    <3>5. k \in 0..x /\ k \in 0..(x - 1) /\ k \in 0..y /\ k \in 0..(y - 1) /\ k + 1 \in 1..x /\ k + 1 \in 1..y
      BY <2>1, <3>3
    <3>6. a[k + 1] \in Int /\ b[k + 1] \in Int
      BY <1>1, <2>1, <3>5
    <3>7. a[k + 1] < b[k + 1] \/ b[k + 1] < a[k + 1]
      BY <3>3, <3>6
    <3>8. Before(a, b, k) \/ Before(b, a, k)
      BY <2>1, <3>3, <3>4, <3>5, <3>7 DEF Before
    <3> QED
      BY <3>3, <3>8, PrecedesBefore
  <2> QED
    BY <2>2, <2>3
<1> QED
  BY <1>2, <1>3, <1>4

\* Lexical order is a strict order on names.
LEMMA NamesAreOrdered ==
    ASSUME NEW S \in SUBSET Text
    PROVE  IsStrictOrder({pair \in S \X S : Precedes(pair[1], pair[2])}, S)
<1> DEFINE before == {pair \in S \X S : Precedes(pair[1], pair[2])}
<1>1. \A a, b \in S : <<a, b>> \in before <=> Precedes(a, b)
  OBVIOUS
<1> HIDE DEF before
<1>2. IsStrictOrder(before, S)
  BY <1>1, PrecedesIsOrder DEF IsStrictOrder
<1> QED
  BY <1>2 DEF before

\* Key objects are ordered strictly, those with one string by their place.
LEMMA KeysAreOrdered ==
    ASSUME NEW strings \in Seq(Text)
    PROVE  IsStrictOrder(KeyOrder(strings), DOMAIN strings)
<1> DEFINE D == DOMAIN strings
           before == KeyOrder(strings)
<1>1. \A i \in D : strings[i] \in Text /\ i \in Int
  OBVIOUS
<1>2. \A i, j \in D : <<i, j>> \in before <=>
        Precedes(strings[i], strings[j]) \/ (strings[i] = strings[j] /\ i < j)
  BY DEF KeyOrder
<1> HIDE DEF before, D
<1>3. \A i \in D : <<i, i>> \notin before
  BY <1>1, <1>2, PrecedesIsOrder
<1>4. ASSUME NEW i \in D, NEW j \in D, NEW k \in D, <<i, j>> \in before, <<j, k>> \in before
      PROVE  <<i, k>> \in before
  <2>1. i < j /\ j < k => i < k
    BY <1>1
  <2> QED
    BY <1>1, <1>2, <1>4, <2>1, PrecedesIsOrder
<1>5. ASSUME NEW i \in D, NEW j \in D
      PROVE  i = j \/ <<i, j>> \in before \/ <<j, i>> \in before
  <2>1. i = j \/ i < j \/ j < i
    BY <1>1
  <2> QED
    BY <1>1, <1>2, <2>1, PrecedesIsOrder
<1>6. IsStrictOrder(before, D)
  BY <1>3, <1>4, <1>5 DEF IsStrictOrder
<1> QED
  BY <1>6 DEF before, D

-----------------------------------------------------------------------------
(* Two measures of an index: the bytes it takes in a payload, and the text *)
(* in it.  They are what position and charged of the reader count.         *)

Measures == {"position", "charged"}

Word(m) == IF m = "position" THEN WordBytes ELSE 0

\* What a key takes apart from its string: its length and ID, or the copy of
\* its group.
Extra(m, g) == IF m = "position" THEN 2 * WordBytes ELSE Len(g)

KeysUse(m, g, strings) == SumOver(DOMAIN strings, LAMBDA i : Len(strings[i]) + Extra(m, g))

GroupUse(m, g, strings) == Len(g) + 2 * Word(m) + KeysUse(m, g, strings)

GroupsUse(m, groups) == SumOver(DOMAIN groups, LAMBDA g : GroupUse(m, g, groups[g]))

ValueUse(type, value) == IF type = "string" THEN Len(value) ELSE 0

KindUse(m, type, properties) ==
    SumOver(DOMAIN properties, LAMBDA name :
        Len(name) + 2 * Word(m) + ValueUse(type, properties[name]))

PropertiesUse(m, properties) ==
    SumOver(ToSet(PropertyKinds), LAMBDA type : KindUse(m, type, properties[type]))

DocumentUse(m, doc) ==
    7 * Word(m) + GroupsUse(m, doc.groups) + PropertiesUse(m, doc.properties)

IndexUse(m, i) ==
    2 * Word(m) + Len(i.implicit)
      + SumOver(DOMAIN i.docs, LAMBDA d : DocumentUse(m, i.docs[d]))

IsGroups(groups) ==
    /\ IsFiniteSet(DOMAIN groups) /\ DOMAIN groups \subseteq Text
    /\ groups \in [DOMAIN groups -> Seq(Text)]

IsKind(type, properties) ==
    /\ IsFiniteSet(DOMAIN properties) /\ DOMAIN properties \subseteq Text
    /\ properties \in [DOMAIN properties -> PropertyValues(type)]

IsProperties(properties) ==
    /\ properties = [type \in ToSet(PropertyKinds) |-> properties[type]]
    /\ \A type \in ToSet(PropertyKinds) : IsKind(type, properties[type])

LEMMA DocumentParts ==
    ASSUME NEW doc
    PROVE  IsDocument(doc) <=>
             /\ doc = [groups |-> doc.groups, properties |-> doc.properties]
             /\ IsGroups(doc.groups) /\ IsProperties(doc.properties)
BY DEF IsDocument, IsGroups, IsProperties, IsKind

\* The five kinds, in order.
LEMMA KindsAre ==
    /\ ToSet(PropertyKinds) = {"bool", "byte", "int", "long", "string"}
    /\ IsFiniteSet(ToSet(PropertyKinds))
    /\ Len(PropertyKinds) = 5 /\ DOMAIN PropertyKinds = 1..5
    /\ \A i \in 1..5 : PropertyKinds[i] \in ToSet(PropertyKinds)
<1>1. Len(PropertyKinds) = 5 /\ DOMAIN PropertyKinds = 1..5
  BY DEF PropertyKinds
<1>2. \A i : i \in 1..5 <=> i \in {1, 2, 3, 4, 5}
  OBVIOUS
<1>3. ToSet(PropertyKinds) = {"bool", "byte", "int", "long", "string"}
  BY <1>1, <1>2 DEF PropertyKinds, ToSet
<1>4. IsFiniteSet({"bool", "byte", "int", "long", "string"})
  <2> DEFINE A == {"bool"}
             B == A \union {"byte"}
             C == B \union {"int"}
             D == C \union {"long"}
             E == D \union {"string"}
  <2>1. IsFiniteSet(A)
    BY FS_Singleton
  <2>2. IsFiniteSet(B)
    BY <2>1, FS_AddElement
  <2>3. IsFiniteSet(C)
    BY <2>2, FS_AddElement
  <2>4. IsFiniteSet(D)
    BY <2>3, FS_AddElement
  <2>5. IsFiniteSet(E)
    BY <2>4, FS_AddElement
  <2>6. E = {"bool", "byte", "int", "long", "string"}
    OBVIOUS
  <2> QED
    BY <2>5, <2>6
<1> QED
  BY <1>1, <1>3, <1>4 DEF ToSet

LEMMA TextLength == \A t \in Text : Len(t) \in Nat
BY DEF Text

LEMMA WordType ==
    ASSUME NEW m \in Measures
    PROVE  /\ Word(m) \in Nat /\ 2 * Word(m) \in Nat
           /\ \A g \in Text : Extra(m, g) \in Nat
BY FormatAssumption, TextLength DEF Word, Extra

LEMMA KeysUseType ==
    ASSUME NEW m \in Measures, NEW g \in Text, NEW strings \in Seq(Text)
    PROVE  KeysUse(m, g, strings) \in Nat
<1> DEFINE f == [i \in DOMAIN strings |-> Len(strings[i]) + Extra(m, g)]
<1>1. IsFiniteSet(DOMAIN strings)
  BY FS_Interval, LenProperties
<1>2. \A i \in DOMAIN strings : f[i] \in Nat
  BY WordType, TextLength
<1>3. KeysUse(m, g, strings) = SumFunction(f)
  BY DEF KeysUse, SumOver
<1>4. DOMAIN f = DOMAIN strings
  OBVIOUS
<1> HIDE DEF f
<1> QED
  BY <1>1, <1>2, <1>3, <1>4, SumType

LEMMA KeysUseEmpty ==
    ASSUME NEW m, NEW g
    PROVE  KeysUse(m, g, <<>>) = 0
<1> DEFINE e == <<>>
           f == [i \in DOMAIN e |-> Len(e[i]) + Extra(m, g)]
<1>1. DOMAIN e = {}
  OBVIOUS
<1>2. KeysUse(m, g, e) = SumFunction(f)
  BY DEF KeysUse, SumOver
<1>3. DOMAIN f = {} /\ \A x \in {} : f[x] \in Nat
  BY <1>1
<1> HIDE DEF f
<1> QED
  BY <1>2, <1>3, SumType, FS_EmptySet

\* One more key adds what it takes to the keys of a group.
LEMMA KeysUseMore ==
    ASSUME NEW m \in Measures, NEW g \in Text, NEW strings \in Seq(Text), NEW s \in Text
    PROVE  KeysUse(m, g, Append(strings, s)) = KeysUse(m, g, strings) + Len(s) + Extra(m, g)
<1> DEFINE n == Len(strings)
           more == Append(strings, s)
           f == [i \in DOMAIN strings |-> Len(strings[i]) + Extra(m, g)]
           h == [i \in DOMAIN more |-> Len(more[i]) + Extra(m, g)]
           S == DOMAIN strings
<1>1. /\ n \in Nat /\ S = 1..n /\ more \in Seq(Text)
      /\ DOMAIN more = 1..(n + 1)
      /\ \A i \in 1..n : more[i] = strings[i]
      /\ more[n + 1] = s
  OBVIOUS
<1>2. IsFiniteSet(S) /\ n + 1 \notin S /\ DOMAIN more = S \union {n + 1}
  <2>1. IsFiniteSet(1..n)
    <3>1. \A k \in Nat : IsFiniteSet(1..k)
      BY FS_Interval
    <3> QED
      BY <1>1, <3>1
  <2>2. 1..(n + 1) = (1..n) \union {n + 1} /\ n + 1 \notin 1..n
    BY <1>1
  <2> QED
    BY <1>1, <2>1, <2>2
<1>3. KeysUse(m, g, strings) = SumFunction(f) /\ KeysUse(m, g, more) = SumFunction(h)
  BY DEF KeysUse, SumOver
<1>4. h[n + 1] = Len(s) + Extra(m, g)
  BY <1>1
<1>5. DOMAIN f = S /\ DOMAIN h = S \union {n + 1} /\ \A i \in S : f[i] = h[i]
  BY <1>1, <1>2
<1>6. \A i \in DOMAIN h : h[i] \in Nat
  <2>1. \A i \in 1..(n + 1) : more[i] \in Text
    BY <1>1
  <2> HIDE DEF more
  <2> QED
    BY <1>1, <2>1, WordType, TextLength
<1>7. KeysUse(m, g, strings) \in Nat /\ Len(s) \in Nat /\ Extra(m, g) \in Nat
  BY KeysUseType, WordType, TextLength
<1> HIDE DEF f, h, S, n
<1>8. SumFunction(h) = SumFunction(f) + h[n + 1]
  BY <1>2, <1>5, <1>6, SumOfMore
<1> HIDE DEF more
<1>9. KeysUse(m, g, more) = KeysUse(m, g, strings) + Len(s) + Extra(m, g)
  BY <1>3, <1>4, <1>7, <1>8
<1> QED
  BY <1>9 DEF more

LEMMA GroupUseType ==
    ASSUME NEW m \in Measures, NEW g \in Text, NEW strings \in Seq(Text)
    PROVE  GroupUse(m, g, strings) \in Nat
<1>1. KeysUse(m, g, strings) \in Nat /\ Len(g) \in Nat /\ 2 * Word(m) \in Nat
  BY KeysUseType, WordType, TextLength
<1> QED
  BY <1>1 DEF GroupUse

LEMMA GroupsUseType ==
    ASSUME NEW m \in Measures, NEW groups, IsGroups(groups)
    PROVE  GroupsUse(m, groups) \in Nat /\ (DOMAIN groups = {} => GroupsUse(m, groups) = 0)
<1> DEFINE f == [g \in DOMAIN groups |-> GroupUse(m, g, groups[g])]
<1>1. \A g \in DOMAIN groups : g \in Text /\ groups[g] \in Seq(Text)
  BY DEF IsGroups
<1>2. \A g \in DOMAIN groups : f[g] \in Nat
  BY <1>1, GroupUseType
<1>3. GroupsUse(m, groups) = SumFunction(f) /\ DOMAIN f = DOMAIN groups
  BY DEF GroupsUse, SumOver
<1> HIDE DEF f
<1> QED
  BY <1>2, <1>3, SumType DEF IsGroups

LEMMA ValueUseType ==
    ASSUME NEW type \in ToSet(PropertyKinds), NEW value \in PropertyValues(type)
    PROVE  ValueUse(type, value) \in Nat
BY TextLength DEF ValueUse, PropertyValues

LEMMA KindUseType ==
    ASSUME NEW m \in Measures, NEW type \in ToSet(PropertyKinds), NEW properties, IsKind(type, properties)
    PROVE  /\ KindUse(m, type, properties) \in Nat
           /\ DOMAIN properties = {} => KindUse(m, type, properties) = 0
<1> DEFINE f == [name \in DOMAIN properties |->
                   Len(name) + 2 * Word(m) + ValueUse(type, properties[name])]
<1>1. \A name \in DOMAIN properties : name \in Text /\ properties[name] \in PropertyValues(type)
  BY DEF IsKind
<1>2. \A name \in DOMAIN properties : f[name] \in Nat
  BY <1>1, ValueUseType, WordType, TextLength
<1>3. KindUse(m, type, properties) = SumFunction(f) /\ DOMAIN f = DOMAIN properties
  BY DEF KindUse, SumOver
<1> HIDE DEF f
<1> QED
  BY <1>2, <1>3, SumType DEF IsKind

LEMMA PropertiesUseType ==
    ASSUME NEW m \in Measures, NEW properties, IsProperties(properties)
    PROVE  PropertiesUse(m, properties) \in Nat
<1> DEFINE f == [type \in ToSet(PropertyKinds) |-> KindUse(m, type, properties[type])]
<1>1. \A type \in ToSet(PropertyKinds) : f[type] \in Nat
  BY KindUseType DEF IsProperties
<1>2. PropertiesUse(m, properties) = SumFunction(f) /\ DOMAIN f = ToSet(PropertyKinds)
  BY DEF PropertiesUse, SumOver
<1> HIDE DEF f
<1> QED
  BY <1>1, <1>2, KindsAre, SumType

LEMMA DocumentUseType ==
    ASSUME NEW m \in Measures, NEW doc, IsDocument(doc)
    PROVE  DocumentUse(m, doc) \in Nat
<1>1. GroupsUse(m, doc.groups) \in Nat /\ PropertiesUse(m, doc.properties) \in Nat /\ Word(m) \in Nat
  BY DocumentParts, GroupsUseType, PropertiesUseType, WordType
<1> QED
  BY <1>1 DEF DocumentUse

LEMMA IndexUseType ==
    ASSUME NEW m \in Measures, NEW i, IsIndex(i)
    PROVE  IndexUse(m, i) \in Nat /\ (DOMAIN i.docs = {} => IndexUse(m, i) = 2 * Word(m) + Len(i.implicit))
<1> DEFINE f == [d \in DOMAIN i.docs |-> DocumentUse(m, i.docs[d])]
<1>1. \A d \in DOMAIN i.docs : f[d] \in Nat
  BY DocumentUseType DEF IsIndex
<1>2. IndexUse(m, i) = 2 * Word(m) + Len(i.implicit) + SumFunction(f) /\ DOMAIN f = DOMAIN i.docs
  BY DEF IndexUse, SumOver
<1>3. 2 * Word(m) \in Nat /\ Len(i.implicit) \in Nat
  BY WordType, TextLength DEF IsIndex
<1> HIDE DEF f
<1>4. SumFunction(f) \in Nat /\ (DOMAIN i.docs = {} => SumFunction(f) = 0)
  BY <1>1, <1>2, SumType DEF IsIndex
<1> QED
  BY <1>2, <1>3, <1>4

-----------------------------------------------------------------------------
(* How long an encoding is                                                 *)

\* seq has every element of S once.
Lists(seq, S) ==
    /\ seq \in [1..Cardinality(S) -> S]
    /\ \A i, j \in 1..Cardinality(S) : seq[i] = seq[j] => i = j
    /\ \A x \in S : \E i \in 1..Cardinality(S) : seq[i] = x

\* A set in order has each element once.
LEMMA InOrderLists ==
    ASSUME NEW S, IsFiniteSet(S), NEW before, IsStrictOrder(before, S)
    PROVE  Lists(InOrder(S, before), S)
<1>1. /\ InOrder(S, before) \in [1..Cardinality(S) -> S]
      /\ \A i, j \in 1..Cardinality(S) :
           InOrder(S, before)[i] = InOrder(S, before)[j] => i = j
      /\ \A a \in S : \E i \in 1..Cardinality(S) : InOrder(S, before)[i] = a
  BY InOrderProperties
<1> QED
  BY <1>1 DEF Lists

\* The code of the elements of a set, in any order.
LEMMA ListedLength ==
    ASSUME NEW S, IsFiniteSet(S), NEW seq, Lists(seq, S),
           NEW code, \A x \in S : code[x] \in Text
    PROVE  /\ FlattenSeq([i \in DOMAIN seq |-> code[seq[i]]]) \in Text
           /\ Len(FlattenSeq([i \in DOMAIN seq |-> code[seq[i]]])) = SumFunction([x \in S |-> Len(code[x])])
<1> DEFINE n == Cardinality(S)
           pieces == [i \in DOMAIN seq |-> code[seq[i]]]
           f == [x \in S |-> Len(code[x])]
           g == [i \in DOMAIN pieces |-> Len(pieces[i])]
<1>1. n \in Nat /\ seq \in [1..n -> S] /\ DOMAIN seq = 1..n
  BY FS_CardinalityType DEF Lists
<1>2. pieces \in [1..n -> Text] /\ DOMAIN pieces = 1..n /\ \A i \in 1..n : pieces[i] = code[seq[i]]
  BY <1>1
<1> HIDE DEF pieces
<1>3. pieces \in Seq(Seq(Byte))
  BY <1>1, <1>2 DEF Text
<1>4. FlattenSeq(pieces) \in Text /\ Len(FlattenSeq(pieces)) = SumFunction(g)
  BY <1>3, FlattenLength DEF Text
<1>5. /\ DOMAIN f = S /\ \A x \in S : f[x] \in Nat
      /\ DOMAIN g = 1..n /\ \A i \in 1..n : g[i] = f[seq[i]]
  BY <1>1, <1>2, TextLength
<1> HIDE DEF f, g
<1>6. /\ \A i, j \in 1..n : seq[i] = seq[j] => i = j
      /\ \A x \in S : \E i \in 1..n : seq[i] = x
  BY DEF Lists
<1> HIDE DEF n
<1>7. SumFunction(g) = SumFunction(f)
  BY <1>1, <1>5, <1>6, SumOfPermuted
<1> QED
  BY <1>4, <1>7 DEF pieces, f

LEMMA JoinType ==
    ASSUME NEW a \in Text, NEW b \in Text
    PROVE  a \o b \in Text /\ Len(a \o b) = Len(a) + Len(b) /\ Len(a) \in Nat /\ Len(b) \in Nat
BY ConcatProperties, LenProperties DEF Text

IdsFit(groups) ==
    \A g \in DOMAIN groups : \A i \in DOMAIN groups[g] : KeyId(g, groups[g][i]) \in Long

LEMMA LongIsInt == Long \subseteq Int
BY DEF Long

\* The bytes of a group are its measure position.
LEMMA GroupLength ==
    ASSUME NEW g \in Text, NEW strings \in Seq(Text),
           \A i \in DOMAIN strings : KeyId(g, strings[i]) \in Long
    PROVE  /\ GroupBytes(g, strings) \in Text
           /\ Len(GroupBytes(g, strings)) = GroupUse("position", g, strings)
<1> DEFINE S == DOMAIN strings
           KeyBytes(string) == TextBytes(string) \o IntegerBytes(KeyId(g, string))
           order == InOrder(S, KeyOrder(strings))
           written == SortedKeys(strings)
           code == [i \in S |-> KeyBytes(strings[i])]
           f == [i \in S |-> Len(code[i])]
           m == "position"
<1>1. S = 1..Len(strings) /\ Len(strings) \in Nat /\ IsFiniteSet(S) /\ Cardinality(S) = Len(strings)
  <2>1. \A n \in Nat : IsFiniteSet(1..n) /\ Cardinality(1..n) = n
    BY FS_Interval
  <2>2. S = 1..Len(strings) /\ Len(strings) \in Nat
    BY LenProperties
  <2> QED
    BY <2>1, <2>2
<1>2. Lists(order, S)
  BY <1>1, KeysAreOrdered, InOrderLists
<1>3. order \in [S -> S] /\ DOMAIN order = S
  BY <1>1, <1>2 DEF Lists
<1>4. written = [i \in S |-> strings[order[i]]]
  BY DEF SortedKeys
<1>5. \A i \in S : strings[i] \in Text /\ KeyId(g, strings[i]) \in Int
  <2>1. \A i \in S : strings[i] \in Text
    OBVIOUS
  <2>2. \A i \in S : KeyId(g, strings[i]) \in Long
    OBVIOUS
  <2> QED
    BY <2>1, <2>2, LongIsInt
<1>6. \A i \in S : code[i] \in Text /\ Len(code[i]) = Len(strings[i]) + 2 * WordBytes
  <2> TAKE i \in S
  <2>1. /\ TextBytes(strings[i]) \in Text /\ Len(TextBytes(strings[i])) = WordBytes + Len(strings[i])
        /\ Len(strings[i]) \in Nat
    BY <1>5, TextBytesType
  <2>2. /\ IntegerBytes(KeyId(g, strings[i])) \in Text
        /\ Len(IntegerBytes(KeyId(g, strings[i]))) = WordBytes
    BY <1>5, IntegerBytesType
  <2>3. code[i] = TextBytes(strings[i]) \o IntegerBytes(KeyId(g, strings[i]))
    OBVIOUS
  <2>4. code[i] \in Text /\ Len(code[i]) = WordBytes + Len(strings[i]) + WordBytes
    <3> HIDE DEF code
    <3> QED
      BY <2>1, <2>2, <2>3, JoinType
  <2>5. WordBytes \in Nat
    BY FormatAssumption
  <2> HIDE DEF code
  <2> QED
    BY <2>1, <2>4, <2>5
<1>7. Each(written, KeyBytes) = FlattenSeq([i \in DOMAIN order |-> code[order[i]]])
  <2>1. DOMAIN written = S /\ \A i \in S : written[i] = strings[order[i]] /\ order[i] \in S
    BY <1>3, <1>4
  <2>2. \A i \in S : KeyBytes(written[i]) = code[order[i]]
    <3> HIDE DEF written, order, S
    <3> QED
      BY <2>1
  <2>3. [i \in DOMAIN written |-> KeyBytes(written[i])] = [i \in DOMAIN order |-> code[order[i]]]
    <3> HIDE DEF written, order, S, KeyBytes, code
    <3> QED
      BY <1>3, <2>1, <2>2
  <2> QED
    BY <2>3 DEF Each
<1>8. /\ Each(written, KeyBytes) \in Text
      /\ Len(Each(written, KeyBytes)) = SumFunction(f)
  <2>1. \A i \in S : code[i] \in Text
    BY <1>6
  <2>2. IsFiniteSet(S)
    BY <1>1
  <2> HIDE DEF order, code, written, S, KeyBytes
  <2>3. /\ FlattenSeq([i \in DOMAIN order |-> code[order[i]]]) \in Text
        /\ Len(FlattenSeq([i \in DOMAIN order |-> code[order[i]]])) = SumFunction([i \in S |-> Len(code[i])])
    BY <1>2, <2>1, <2>2, ListedLength
  <2> QED
    BY <1>7, <2>3
<1>9. SumFunction(f) = KeysUse(m, g, strings)
  <2> DEFINE h == [i \in S |-> Len(strings[i]) + Extra(m, g)]
  <2>1. \A i \in S : Len(code[i]) = Len(strings[i]) + Extra(m, g)
    BY <1>6 DEF Extra
  <2> HIDE DEF code
  <2>2. f = h
    BY <2>1
  <2> QED
    BY <2>2 DEF KeysUse, SumOver
<1>10. Len(written) = Len(strings)
  BY <1>1, <1>4
<1> DEFINE each == Each(written, KeyBytes)
           count == IntegerBytes(Len(written))
<1>11. GroupBytes(g, strings) = (TextBytes(g) \o count) \o each
  BY DEF GroupBytes
<1>12. count \in Text /\ Len(count) = WordBytes
  BY <1>1, <1>10, IntegerBytesType
<1>13. /\ TextBytes(g) \in Text /\ Len(TextBytes(g)) = WordBytes + Len(g) /\ Len(g) \in Nat
  BY TextBytesType
<1>14. each \in Text /\ Len(each) = KeysUse(m, g, strings)
  BY <1>8, <1>9
<1> HIDE DEF each, count, written, order
<1>15. /\ TextBytes(g) \o count \in Text
       /\ Len(TextBytes(g) \o count) = WordBytes + Len(g) + WordBytes
  BY <1>12, <1>13, JoinType
<1>16. /\ GroupBytes(g, strings) \in Text
       /\ Len(GroupBytes(g, strings)) = (WordBytes + Len(g) + WordBytes) + KeysUse(m, g, strings)
  BY <1>11, <1>14, <1>15, JoinType
<1>17. WordBytes \in Nat /\ KeysUse(m, g, strings) \in Nat
  BY FormatAssumption, KeysUseType DEF Measures
<1> QED
  BY <1>13, <1>16, <1>17 DEF GroupUse, Word

LEMMA NamesLists ==
    ASSUME NEW S \in SUBSET Text, IsFiniteSet(S)
    PROVE  Lists(SortedNames(S), S)
BY NamesAreOrdered, InOrderLists DEF SortedNames

LEMMA ValueLength ==
    ASSUME NEW type \in ToSet(PropertyKinds), NEW value \in PropertyValues(type)
    PROVE  LET bytes == IF type = "string" THEN TextBytes(value) ELSE IntegerBytes(value)
           IN bytes \in Text /\ Len(bytes) = WordBytes + ValueUse(type, value)
<1>1. CASE type = "string"
  <2>1. value \in Text
    BY <1>1 DEF PropertyValues
  <2> QED
    BY <1>1, <2>1, TextBytesType DEF ValueUse
<1>2. CASE type # "string"
  <2>1. PropertyValues(type) \subseteq Int
    BY <1>2, KindsAre, LongIsInt DEF PropertyValues, Byte
  <2>2. value \in Int
    BY <2>1
  <2> QED
    BY <1>2, <2>2, IntegerBytesType, FormatAssumption DEF ValueUse
<1> QED
  BY <1>1, <1>2

\* The bytes of the properties of a kind are its measure position.
LEMMA KindLength ==
    ASSUME NEW type \in ToSet(PropertyKinds), NEW properties, IsKind(type, properties)
    PROVE  /\ PropertyBytes(type, properties) \in Text
           /\ Len(PropertyBytes(type, properties)) = WordBytes + KindUse("position", type, properties)
<1> DEFINE S == DOMAIN properties
           EntryBytes(name) ==
             TextBytes(name) \o (IF type = "string" THEN TextBytes(properties[name])
                                 ELSE IntegerBytes(properties[name]))
           order == SortedNames(S)
           code == [name \in S |-> EntryBytes(name)]
           f == [name \in S |-> Len(code[name])]
           m == "position"
<1>1. IsFiniteSet(S) /\ S \subseteq Text /\ \A name \in S : properties[name] \in PropertyValues(type)
  BY DEF IsKind
<1>2. Lists(order, S) /\ Cardinality(S) \in Nat
  BY <1>1, NamesLists, FS_CardinalityType
<1>3. \A i \in DOMAIN order : order[i] \in S
  <2> HIDE DEF order, S
  <2> QED
    BY <1>2 DEF Lists
<1>4. \A name \in S :
        code[name] \in Text /\ Len(code[name]) = Len(name) + 2 * Word(m) + ValueUse(type, properties[name])
  <2> TAKE name \in S
  <2> DEFINE bytes == IF type = "string" THEN TextBytes(properties[name])
                      ELSE IntegerBytes(properties[name])
  <2>1. /\ TextBytes(name) \in Text /\ Len(TextBytes(name)) = WordBytes + Len(name) /\ Len(name) \in Nat
    BY <1>1, TextBytesType
  <2>2. bytes \in Text /\ Len(bytes) = WordBytes + ValueUse(type, properties[name])
    BY <1>1, ValueLength
  <2>3. code[name] = TextBytes(name) \o bytes
    OBVIOUS
  <2> HIDE DEF bytes, code
  <2>4. code[name] \in Text /\ Len(code[name]) = Len(TextBytes(name)) + Len(bytes)
    BY <2>1, <2>2, <2>3, JoinType
  <2>5. WordBytes \in Nat /\ ValueUse(type, properties[name]) \in Nat
    BY <1>1, FormatAssumption, ValueUseType
  <2> DEFINE v == ValueUse(type, properties[name])
  <2> HIDE DEF v, S
  <2>6. Len(code[name]) = Len(name) + 2 * WordBytes + v
    BY <2>1, <2>2, <2>4, <2>5 DEF v
  <2> QED
    BY <2>4, <2>6 DEF Word, v
<1>5. Each(order, EntryBytes) = FlattenSeq([i \in DOMAIN order |-> code[order[i]]])
  <2>1. \A i \in DOMAIN order : EntryBytes(order[i]) = code[order[i]]
    <3> HIDE DEF order
    <3> QED
      BY <1>3
  <2>2. [i \in DOMAIN order |-> EntryBytes(order[i])] = [i \in DOMAIN order |-> code[order[i]]]
    <3> HIDE DEF order, EntryBytes, code
    <3> QED
      BY <2>1
  <2> QED
    BY <2>2 DEF Each
<1>6. /\ Each(order, EntryBytes) \in Text
      /\ Len(Each(order, EntryBytes)) = SumFunction(f)
  <2> HIDE DEF order, code, S, EntryBytes
  <2> QED
    BY <1>1, <1>2, <1>4, <1>5, ListedLength
<1>7. SumFunction(f) = KindUse(m, type, properties)
  <2> DEFINE h == [name \in S |-> Len(name) + 2 * Word(m) + ValueUse(type, properties[name])]
  <2> HIDE DEF code
  <2>2. f = h
    BY <1>4
  <2> QED
    BY <2>2 DEF KindUse, SumOver
<1> DEFINE each == Each(order, EntryBytes)
           count == IntegerBytes(Cardinality(S))
<1>8. PropertyBytes(type, properties) = count \o each
  BY DEF PropertyBytes
<1>9. count \in Text /\ Len(count) = WordBytes
  BY <1>2, IntegerBytesType
<1>10. each \in Text /\ Len(each) = KindUse(m, type, properties)
  BY <1>6, <1>7
<1> HIDE DEF each, count, order, S
<1> QED
  BY <1>8, <1>9, <1>10, JoinType

\* The bytes of a document are its measure position.
LEMMA DocumentLength ==
    ASSUME NEW d \in Int, NEW doc, IsDocument(doc), IdsFit(doc.groups)
    PROVE  /\ DocumentBytes(d, doc) \in Text
           /\ Len(DocumentBytes(d, doc)) = DocumentUse("position", doc)
<1> DEFINE groups == doc.groups
           properties == doc.properties
           S == DOMAIN groups
           K == ToSet(PropertyKinds)
           OneGroup(g) == GroupBytes(g, groups[g])
           OneKind(type) == PropertyBytes(type, properties[type])
           order == SortedNames(S)
           groupCode == [g \in S |-> OneGroup(g)]
           kindCode == [type \in K |-> OneKind(type)]
           m == "position"
<1>1. IsGroups(groups) /\ IsProperties(properties)
  BY DocumentParts
<1>2. /\ IsFiniteSet(S) /\ S \subseteq Text /\ \A g \in S : groups[g] \in Seq(Text)
      /\ Lists(order, S) /\ Cardinality(S) \in Nat
  BY <1>1, NamesLists, FS_CardinalityType DEF IsGroups
<1>3. \A g \in S : groupCode[g] \in Text /\ Len(groupCode[g]) = GroupUse(m, g, groups[g])
  BY <1>2, GroupLength DEF IdsFit
<1>4. /\ Each(order, OneGroup) \in Text
      /\ Len(Each(order, OneGroup)) = GroupsUse(m, groups)
  <2>1. \A i \in DOMAIN order : order[i] \in S
    <3> HIDE DEF order, S
    <3> QED
      BY <1>2 DEF Lists
  <2>2. Each(order, OneGroup) = FlattenSeq([i \in DOMAIN order |-> groupCode[order[i]]])
    <3>1. \A i \in DOMAIN order : OneGroup(order[i]) = groupCode[order[i]]
      <4> HIDE DEF order
      <4> QED
        BY <2>1
    <3>2. [i \in DOMAIN order |-> OneGroup(order[i])] = [i \in DOMAIN order |-> groupCode[order[i]]]
      <4> HIDE DEF order, OneGroup, groupCode
      <4> QED
        BY <3>1
    <3> QED
      BY <3>2 DEF Each
  <2> DEFINE f == [g \in S |-> Len(groupCode[g])]
             h == [g \in S |-> GroupUse(m, g, groups[g])]
  <2>3. f = h
    <3> HIDE DEF groupCode
    <3> QED
      BY <1>3
  <2>4. GroupsUse(m, groups) = SumFunction(h)
    BY DEF GroupsUse, SumOver
  <2>5. /\ Each(order, OneGroup) \in Text
        /\ Len(Each(order, OneGroup)) = SumFunction(f)
    <3> HIDE DEF order, groupCode, S, OneGroup
    <3> QED
      BY <1>2, <1>3, <2>2, ListedLength
  <2> HIDE DEF f, h
  <2> QED
    BY <2>3, <2>4, <2>5
<1>5. \A type \in K :
        kindCode[type] \in Text /\ Len(kindCode[type]) = WordBytes + KindUse(m, type, properties[type])
  BY <1>1, KindLength DEF IsProperties
<1>6. Lists(PropertyKinds, K) /\ IsFiniteSet(K) /\ Cardinality(K) = 5
  <2> DEFINE P == PropertyKinds
  <2>1. P \in [1..5 -> K] /\ \A i, j \in 1..5 : P[i] = P[j] => i = j
    <3>1. \A i : i \in 1..5 <=> i \in {1, 2, 3, 4, 5}
      OBVIOUS
    <3>2. P[1] = "bool" /\ P[2] = "byte" /\ P[3] = "int" /\ P[4] = "long" /\ P[5] = "string"
      BY DEF PropertyKinds
    <3>3. P = [i \in 1..5 |-> P[i]]
      BY DEF PropertyKinds
    <3> HIDE DEF P
    <3>4. \A i, j \in 1..5 : P[i] = P[j] => i = j
      BY <3>1, <3>2
    <3>5. \A i \in 1..5 : P[i] \in K
      BY KindsAre DEF P
    <3> QED
      BY <3>3, <3>4, <3>5
  <2>2. \A x \in K : \E i \in 1..5 : P[i] = x
    BY KindsAre DEF ToSet
  <2> HIDE DEF P, K
  <2>3. P \in Injection(1..5, K) /\ P \in Surjection(1..5, K)
    BY <2>1, <2>2 DEF Injection, Surjection, IsInjective
  <2>4. ExistsBijection(1..5, K)
    BY <2>3 DEF ExistsBijection, Bijection
  <2>5. IsFiniteSet(K) /\ Cardinality(K) = 5
    BY <2>4, FS_CountingElements, KindsAre DEF K
  <2> QED
    BY <2>1, <2>2, <2>5 DEF Lists, P
<1>7. /\ Each(PropertyKinds, OneKind) \in Text
      /\ Len(Each(PropertyKinds, OneKind)) = PropertiesUse(m, properties) + 5 * WordBytes
  <2> DEFINE P == PropertyKinds
             f == [type \in K |-> Len(kindCode[type])]
             h == [type \in K |-> KindUse(m, type, properties[type])]
  <2>1. \A i \in DOMAIN P : OneKind(P[i]) = kindCode[P[i]]
    BY DEF ToSet
  <2>2. Each(P, OneKind) = FlattenSeq([i \in DOMAIN P |-> kindCode[P[i]]])
    <3>1. [i \in DOMAIN P |-> OneKind(P[i])] = [i \in DOMAIN P |-> kindCode[P[i]]]
      <4> HIDE DEF OneKind, kindCode, P
      <4> QED
        BY <2>1
    <3> QED
      BY <3>1 DEF Each
  <2>3. Each(P, OneKind) \in Text /\ Len(Each(P, OneKind)) = SumFunction(f)
    <3> HIDE DEF kindCode, K, OneKind, P
    <3> QED
      BY <1>5, <1>6, <2>2, ListedLength DEF P
  <2>4. PropertiesUse(m, properties) = SumFunction(h)
    BY DEF PropertiesUse, SumOver
  <2>5. \A type \in K : h[type] \in Nat /\ f[type] = WordBytes + h[type]
    <3>1. \A type \in K : KindUse(m, type, properties[type]) \in Nat
      BY <1>1, KindUseType DEF IsProperties, Measures
    <3> HIDE DEF kindCode
    <3> QED
      BY <1>5, <3>1
  <2>6. SumFunction(f) = SumFunction(h) + 5 * WordBytes
    <3> DEFINE a == h["bool"]
               b == h["byte"]
               c == h["int"]
               d0 == h["long"]
               e == h["string"]
    <3>1. \A g : (g = [t \in K |-> g[t]] /\ \A t \in K : g[t] \in Nat) =>
            SumFunction(g) = g["bool"] + g["byte"] + g["int"] + g["long"] + g["string"]
      <4> SUFFICES ASSUME NEW g, g = [t \in K |-> g[t]], \A t \in K : g[t] \in Nat
                   PROVE  SumFunction(g) = g["bool"] + g["byte"] + g["int"] + g["long"] + g["string"]
        OBVIOUS
      <4> DEFINE K0 == {}
                 K1 == {"bool"}
                 K2 == {"bool", "byte"}
                 K3 == {"bool", "byte", "int"}
                 K4 == {"bool", "byte", "int", "long"}
                 On(T) == [t \in T |-> g[t]]
      <4>1. K = K4 \union {"string"} /\ "string" \notin K4
        BY KindsAre
      <4>2. /\ K1 = K0 \union {"bool"} /\ "bool" \notin K0
            /\ K2 = K1 \union {"byte"} /\ "byte" \notin K1
            /\ K3 = K2 \union {"int"} /\ "int" \notin K2
            /\ K4 = K3 \union {"long"} /\ "long" \notin K3
        OBVIOUS
      <4> HIDE DEF K0, K1, K2, K3, K4, K
      <4>3. IsFiniteSet(K0) /\ IsFiniteSet(K1) /\ IsFiniteSet(K2) /\ IsFiniteSet(K3) /\ IsFiniteSet(K4)
        <5>1. IsFiniteSet(K0)
          BY FS_EmptySet DEF K0
        <5>2. IsFiniteSet(K1)
          BY <4>2, <5>1, FS_AddElement
        <5>3. IsFiniteSet(K2)
          BY <4>2, <5>2, FS_AddElement
        <5>4. IsFiniteSet(K3)
          BY <4>2, <5>3, FS_AddElement
        <5>5. IsFiniteSet(K4)
          BY <4>2, <5>4, FS_AddElement
        <5> QED
          BY <5>1, <5>2, <5>3, <5>4, <5>5
      <4>4. \A T \in SUBSET K : DOMAIN On(T) = T /\ \A t \in T : On(T)[t] = g[t] /\ On(T)[t] \in Nat
        OBVIOUS
      <4>5. ASSUME NEW T \in SUBSET K, NEW x \in K, x \notin T, IsFiniteSet(T)
            PROVE  SumFunction(On(T \union {x})) = SumFunction(On(T)) + g[x]
        <5> DEFINE u == On(T \union {x})
                   v == On(T)
        <5>1. /\ DOMAIN u = T \union {x} /\ DOMAIN v = T
              /\ \A t \in T : v[t] = u[t] /\ u[x] = g[x]
              /\ \A t \in DOMAIN u : u[t] \in Nat
          BY <4>4, <4>5
        <5> HIDE DEF u, v
        <5>2. SumFunction(u) = SumFunction(v) + u[x]
          BY <4>5, <5>1, SumOfMore
        <5>3. u[x] = g[x]
          BY <4>4, <4>5 DEF u
        <5> QED
          BY <5>2, <5>3 DEF u, v
      <4>6. SumFunction(On(K0)) = 0
        <5> DEFINE u == On(K0)
        <5>1. DOMAIN u = {}
          BY DEF K0
        <5> HIDE DEF u
        <5>2. SumFunction(u) = 0
          BY <5>1, FS_EmptySet, SumType
        <5> QED
          BY <5>2 DEF u
      <4>7. On(K) = g
        OBVIOUS
      <4> HIDE DEF On
      <4>8. /\ K0 \in SUBSET K /\ K1 \in SUBSET K /\ K2 \in SUBSET K /\ K3 \in SUBSET K /\ K4 \in SUBSET K
            /\ "bool" \in K /\ "byte" \in K /\ "int" \in K /\ "long" \in K /\ "string" \in K
        BY KindsAre DEF K0, K1, K2, K3, K4, K
      <4>9. /\ SumFunction(On(K1)) = SumFunction(On(K0)) + g["bool"]
            /\ SumFunction(On(K2)) = SumFunction(On(K1)) + g["byte"]
            /\ SumFunction(On(K3)) = SumFunction(On(K2)) + g["int"]
            /\ SumFunction(On(K4)) = SumFunction(On(K3)) + g["long"]
            /\ SumFunction(On(K)) = SumFunction(On(K4)) + g["string"]
        <5>1. SumFunction(On(K1)) = SumFunction(On(K0)) + g["bool"]
          <6>1. SumFunction(On(K0 \union {"bool"})) = SumFunction(On(K0)) + g["bool"]
            BY <4>1, <4>2, <4>3, <4>5, <4>8
          <6>2. K1 = K0 \union {"bool"}
            BY <4>1, <4>2
          <6> QED
            BY <6>1, <6>2
        <5>2. SumFunction(On(K2)) = SumFunction(On(K1)) + g["byte"]
          <6>1. SumFunction(On(K1 \union {"byte"})) = SumFunction(On(K1)) + g["byte"]
            BY <4>1, <4>2, <4>3, <4>5, <4>8
          <6>2. K2 = K1 \union {"byte"}
            BY <4>1, <4>2
          <6> QED
            BY <6>1, <6>2
        <5>3. SumFunction(On(K3)) = SumFunction(On(K2)) + g["int"]
          <6>1. SumFunction(On(K2 \union {"int"})) = SumFunction(On(K2)) + g["int"]
            BY <4>1, <4>2, <4>3, <4>5, <4>8
          <6>2. K3 = K2 \union {"int"}
            BY <4>1, <4>2
          <6> QED
            BY <6>1, <6>2
        <5>4. SumFunction(On(K4)) = SumFunction(On(K3)) + g["long"]
          <6>1. SumFunction(On(K3 \union {"long"})) = SumFunction(On(K3)) + g["long"]
            BY <4>1, <4>2, <4>3, <4>5, <4>8
          <6>2. K4 = K3 \union {"long"}
            BY <4>1, <4>2
          <6> QED
            BY <6>1, <6>2
        <5>5. SumFunction(On(K)) = SumFunction(On(K4)) + g["string"]
          <6>1. SumFunction(On(K4 \union {"string"})) = SumFunction(On(K4)) + g["string"]
            BY <4>1, <4>2, <4>3, <4>5, <4>8
          <6>2. K = K4 \union {"string"}
            BY <4>1, <4>2
          <6> QED
            BY <6>1, <6>2
        <5> QED
          BY <5>1, <5>2, <5>3, <5>4, <5>5
      <4>10. g["bool"] \in Nat /\ g["byte"] \in Nat /\ g["int"] \in Nat /\ g["long"] \in Nat /\ g["string"] \in Nat
        BY <4>8
      <4> QED
        BY <4>6, <4>7, <4>9, <4>10
    <3>2. f = [t \in K |-> f[t]] /\ h = [t \in K |-> h[t]] /\ WordBytes \in Nat
      BY FormatAssumption
    <3>3. \A t \in K : f[t] \in Nat /\ h[t] \in Nat
      <4> HIDE DEF f, h
      <4> QED
        BY <2>5, <3>2
    <3>4. "bool" \in K /\ "byte" \in K /\ "int" \in K /\ "long" \in K /\ "string" \in K
      BY KindsAre
    <3> HIDE DEF f, h, K
    <3>5. /\ SumFunction(f) = f["bool"] + f["byte"] + f["int"] + f["long"] + f["string"]
          /\ SumFunction(h) = a + b + c + d0 + e
      BY <3>1, <3>2, <3>3
    <3>6. /\ f["bool"] = WordBytes + a /\ f["byte"] = WordBytes + b /\ f["int"] = WordBytes + c
          /\ f["long"] = WordBytes + d0 /\ f["string"] = WordBytes + e
      BY <2>5, <3>4
    <3>7. a \in Nat /\ b \in Nat /\ c \in Nat /\ d0 \in Nat /\ e \in Nat
      BY <2>5, <3>4
    <3> HIDE DEF a, b, c, d0, e
    <3> QED
      BY <3>2, <3>5, <3>6, <3>7
  <2> QED
    BY <2>3, <2>4, <2>6
<1> DEFINE A == IntegerBytes(d)
           B == IntegerBytes(Cardinality(S))
           C == Each(order, OneGroup)
           D == Each(PropertyKinds, OneKind)
<1>8. DocumentBytes(d, doc) = ((A \o B) \o C) \o D
  BY DEF DocumentBytes
<1>9. A \in Text /\ Len(A) = WordBytes /\ B \in Text /\ Len(B) = WordBytes
  BY <1>2, IntegerBytesType
<1>10. /\ C \in Text /\ Len(C) = GroupsUse(m, groups)
       /\ D \in Text /\ Len(D) = PropertiesUse(m, properties) + 5 * WordBytes
  BY <1>4, <1>7
<1> HIDE DEF A, B, C, D
<1>11. A \o B \in Text /\ Len(A \o B) = WordBytes + WordBytes
  BY <1>9, JoinType
<1>12. /\ (A \o B) \o C \in Text
       /\ Len((A \o B) \o C) = (WordBytes + WordBytes) + GroupsUse(m, groups)
  BY <1>10, <1>11, JoinType
<1>13. /\ DocumentBytes(d, doc) \in Text
       /\ Len(DocumentBytes(d, doc)) =
            ((WordBytes + WordBytes) + GroupsUse(m, groups)) + (PropertiesUse(m, properties) + 5 * WordBytes)
  BY <1>8, <1>10, <1>12, JoinType
<1>14. WordBytes \in Nat /\ GroupsUse(m, groups) \in Nat /\ PropertiesUse(m, properties) \in Nat
  BY <1>1, FormatAssumption, GroupsUseType, PropertiesUseType DEF Measures
<1> DEFINE w == WordBytes
           x == GroupsUse(m, groups)
           y == PropertiesUse(m, properties)
           z == Len(DocumentBytes(d, doc))
<1>15. z = ((w + w) + x) + (y + 5 * w) /\ w \in Nat /\ x \in Nat /\ y \in Nat
  BY <1>13, <1>14
<1>16. DocumentUse(m, doc) = 7 * w + x + y
  BY DEF DocumentUse, Word
<1> HIDE DEF w, x, y, z
<1>17. z = DocumentUse(m, doc)
  BY <1>15, <1>16
<1> QED
  BY <1>13, <1>17 DEF z

\* How long the payload of an index is.
LEMMA PayloadLength ==
    ASSUME NEW i, IsIndex(i), \A d \in DOMAIN i.docs : IdsFit(i.docs[d].groups)
    PROVE  Payload(i) \in Text /\ Len(Payload(i)) = IndexUse("position", i)
<1> DEFINE S == DOMAIN i.docs
           m == "position"
           OneDocument(d) == DocumentBytes(d, i.docs[d])
           order == Ascending(S)
           code == [d \in S |-> OneDocument(d)]
           f == [d \in S |-> Len(code[d])]
           h == [d \in S |-> DocumentUse(m, i.docs[d])]
<1>1. /\ IsFiniteSet(S) /\ S \subseteq Int /\ i.implicit \in Text
      /\ \A d \in S : IsDocument(i.docs[d])
  BY LongIsInt DEF IsIndex
<1>2. Lists(order, S) /\ Cardinality(S) \in Nat
  BY <1>1, NumbersAreOrdered, InOrderLists, FS_CardinalityType DEF Ascending
<1>3. \A d \in S : code[d] \in Text /\ Len(code[d]) = DocumentUse(m, i.docs[d])
  BY <1>1, DocumentLength
<1>4. Each(order, OneDocument) = FlattenSeq([j \in DOMAIN order |-> code[order[j]]])
  <2>1. \A j \in DOMAIN order : order[j] \in S
    <3> HIDE DEF order, S
    <3> QED
      BY <1>2 DEF Lists
  <2>2. \A j \in DOMAIN order : OneDocument(order[j]) = code[order[j]]
    <3> HIDE DEF order
    <3> QED
      BY <2>1
  <2>3. [j \in DOMAIN order |-> OneDocument(order[j])] = [j \in DOMAIN order |-> code[order[j]]]
    <3> HIDE DEF order, OneDocument, code
    <3> QED
      BY <2>2
  <2> QED
    BY <2>3 DEF Each
<1>5. f = h
  <2> HIDE DEF code
  <2> QED
    BY <1>3
<1>6. Each(order, OneDocument) \in Text /\ Len(Each(order, OneDocument)) = SumFunction(f)
  <2>1. \A d \in S : code[d] \in Text
    BY <1>3
  <2>2. IsFiniteSet(S)
    BY <1>1
  <2> HIDE DEF order, code, S, OneDocument
  <2>3. /\ FlattenSeq([j \in DOMAIN order |-> code[order[j]]]) \in Text
        /\ Len(FlattenSeq([j \in DOMAIN order |-> code[order[j]]])) = SumFunction([d \in S |-> Len(code[d])])
    BY <1>2, <2>1, <2>2, ListedLength
  <2> QED
    BY <1>4, <2>3
<1>7. IndexUse(m, i) = 2 * WordBytes + Len(i.implicit) + SumFunction(h)
  BY DEF IndexUse, SumOver, Word
<1> DEFINE A == TextBytes(i.implicit)
           B == IntegerBytes(Cardinality(S))
           C == Each(order, OneDocument)
<1>8. Payload(i) = (A \o B) \o C
  BY DEF Payload
<1>9. /\ A \in Text /\ Len(A) = WordBytes + Len(i.implicit) /\ Len(i.implicit) \in Nat
      /\ B \in Text /\ Len(B) = WordBytes
  <2>1. A \in Text /\ Len(A) = WordBytes + Len(i.implicit) /\ Len(i.implicit) \in Nat
    BY <1>1, TextBytesType
  <2>2. \A n \in Nat : IntegerBytes(n) \in Text /\ Len(IntegerBytes(n)) = WordBytes
    BY IntegerBytesType
  <2> QED
    BY <1>2, <2>1, <2>2
<1>10. C \in Text /\ Len(C) = SumFunction(h)
  <2> HIDE DEF f, h
  <2> QED
    BY <1>5, <1>6
<1> HIDE DEF A, B, C, h
<1>11. A \o B \in Text /\ Len(A \o B) = (WordBytes + Len(i.implicit)) + WordBytes
  BY <1>9, JoinType
<1>12. /\ Payload(i) \in Text /\ Len(Payload(i)) = ((WordBytes + Len(i.implicit)) + WordBytes) + SumFunction(h)
       /\ SumFunction(h) \in Nat
  BY <1>8, <1>10, <1>11, JoinType
<1>13. WordBytes \in Nat
  BY FormatAssumption
<1> DEFINE z == Len(Payload(i))
           s == SumFunction(h)
           l == Len(i.implicit)
<1>14. z = ((WordBytes + l) + WordBytes) + s /\ s \in Nat /\ l \in Nat /\ IndexUse(m, i) = 2 * WordBytes + l + s
  BY <1>7, <1>9, <1>12
<1> HIDE DEF z, s, l
<1>15. z = IndexUse(m, i)
  BY <1>13, <1>14
<1> QED
  BY <1>12, <1>15 DEF z

-----------------------------------------------------------------------------
(* The names of groups, and the text that an index retains                 *)

\* A name takes what its copy in a reverse index does.
NamesUse(m, names) == IF m = "position" THEN 0 ELSE SumOver(names, LAMBDA g : Len(g))

NewNameUse(m, g, names) == IF m = "position" \/ g \in names THEN 0 ELSE Len(g)

LEMMA NamesUseType ==
    ASSUME NEW m \in Measures, NEW names \in SUBSET Text, IsFiniteSet(names)
    PROVE  NamesUse(m, names) \in Nat
<1> DEFINE f == [g \in names |-> Len(g)]
<1>1. DOMAIN f = names /\ \A g \in names : f[g] \in Nat
  BY TextLength
<1>2. NamesUse(m, names) = IF m = "position" THEN 0 ELSE SumFunction(f)
  BY DEF NamesUse, SumOver
<1> HIDE DEF f
<1> QED
  BY <1>1, <1>2, SumType

LEMMA NoNamesUse ==
    ASSUME NEW m \in Measures
    PROVE  NamesUse(m, {}) = 0
<1> DEFINE f == [g \in {} |-> Len(g)]
<1>1. DOMAIN f = {}
  OBVIOUS
<1>2. NamesUse(m, {}) = IF m = "position" THEN 0 ELSE SumFunction(f)
  BY DEF NamesUse, SumOver
<1> HIDE DEF f
<1>3. IsFiniteSet({})
  BY FS_EmptySet
<1> QED
  BY <1>1, <1>2, <1>3, SumType

\* A name that is new adds its copy.
LEMMA NamesUseMore ==
    ASSUME NEW m \in Measures, NEW names \in SUBSET Text, IsFiniteSet(names),
           NEW g \in Text, g \notin names
    PROVE  NamesUse(m, names \union {g}) = NamesUse(m, names) + NewNameUse(m, g, names)
<1> DEFINE f == [h \in names |-> Len(h)]
           k == [h \in names \union {g} |-> Len(h)]
<1>1. /\ DOMAIN f = names /\ DOMAIN k = names \union {g}
      /\ \A h \in names : f[h] = k[h]
      /\ k[g] = Len(g)
      /\ \A h \in DOMAIN k : k[h] \in Nat
  BY TextLength
<1>2. /\ NamesUse(m, names) = IF m = "position" THEN 0 ELSE SumFunction(f)
      /\ NamesUse(m, names \union {g}) = IF m = "position" THEN 0 ELSE SumFunction(k)
  BY DEF NamesUse, SumOver
<1> HIDE DEF f, k
<1>3. SumFunction(k) = SumFunction(f) + k[g]
  BY <1>1, SumOfMore
<1> QED
  BY <1>1, <1>2, <1>3 DEF NewNameUse

\* The text in an index, as the invariant counts it.
LEMMA RetainedUse ==
    ASSUME NEW i, IsIndex(i), IsFiniteSet(GroupsNamed(i)), GroupsNamed(i) \subseteq Text
    PROVE  RetainedText(i) = IndexUse("charged", i) + NamesUse("charged", GroupsNamed(i))
<1> DEFINE m == "charged"
<1>1. Word(m) = 0 /\ \A g : Extra(m, g) = Len(g)
  BY DEF Word, Extra
<1>2. ASSUME NEW d \in DOMAIN i.docs
      PROVE  DocumentUse(m, i.docs[d]) = GroupsText(i.docs[d].groups) + PropertiesText(i.docs[d].properties)
  <2> DEFINE doc == i.docs[d]
  <2>1. IsDocument(doc) /\ IsGroups(doc.groups) /\ IsProperties(doc.properties)
    BY DocumentParts DEF IsIndex
  <2> HIDE DEF doc
  <2>2. GroupsUse(m, doc.groups) = GroupsText(doc.groups)
    <3> DEFINE groups == doc.groups
               f == [g \in DOMAIN groups |-> GroupUse(m, g, groups[g])]
               h == [g \in DOMAIN groups |-> Len(g) + KeysText(g, groups[g])]
    <3>1. ASSUME NEW g \in DOMAIN groups
          PROVE  GroupUse(m, g, groups[g]) = Len(g) + KeysText(g, groups[g])
      <4>1. KeysUse(m, g, groups[g]) = KeysText(g, groups[g])
        BY <1>1 DEF KeysUse, KeysText, SumOver
      <4>2. g \in Text /\ groups[g] \in Seq(Text)
        BY <2>1 DEF IsGroups
      <4>3. Len(g) \in Nat /\ KeysUse(m, g, groups[g]) \in Nat
        BY <4>2, TextLength, KeysUseType DEF Measures
      <4> QED
        BY <1>1, <4>1, <4>3 DEF GroupUse
    <3>2. f = h
      BY <3>1
    <3> QED
      BY <3>2 DEF GroupsUse, GroupsText, SumOver
  <2>3. PropertiesUse(m, doc.properties) = PropertiesText(doc.properties)
    <3> DEFINE properties == doc.properties
               K == ToSet(PropertyKinds)
               f == [type \in K |-> KindUse(m, type, properties[type])]
               h == [type \in K |-> KindText(type, properties[type])]
    <3>1. ASSUME NEW type \in K
          PROVE  KindUse(m, type, properties[type]) = KindText(type, properties[type])
      <4> DEFINE p == properties[type]
                 fk == [name \in DOMAIN p |-> Len(name) + 2 * Word(m) + ValueUse(type, p[name])]
                 hk == [name \in DOMAIN p |-> Len(name) + (IF type = "string" THEN Len(p[name]) ELSE 0)]
      <4>1. \A name \in DOMAIN p : Len(name) \in Nat
        BY <2>1, TextLength DEF IsProperties, IsKind
      <4>2. \A name \in DOMAIN p : Len(name) + 2 * Word(m) = Len(name)
        BY <1>1, <4>1
      <4>3. fk = hk
        <5> HIDE DEF p
        <5> QED
          BY <4>2 DEF ValueUse
      <4> QED
        BY <4>3 DEF KindUse, KindText, SumOver
    <3>2. f = h
      <4> HIDE DEF K
      <4> QED
        BY <3>1
    <3> QED
      BY <3>2 DEF PropertiesUse, PropertiesText, SumOver
  <2>4. GroupsUse(m, doc.groups) \in Nat /\ PropertiesUse(m, doc.properties) \in Nat
    BY <2>1, GroupsUseType, PropertiesUseType DEF Measures
  <2> QED
    BY <1>1, <2>2, <2>3, <2>4 DEF DocumentUse, doc
<1> DEFINE f == [d \in DOMAIN i.docs |-> DocumentUse(m, i.docs[d])]
           h == [d \in DOMAIN i.docs |-> GroupsText(i.docs[d].groups) + PropertiesText(i.docs[d].properties)]
           names == NamesUse(m, GroupsNamed(i))
           l == Len(i.implicit)
<1>3. f = h
  BY <1>2
<1>4. IndexUse(m, i) = 0 + l + SumFunction(f)
  BY <1>1 DEF IndexUse, SumOver
<1>5. names = SumOver(GroupsNamed(i), LAMBDA g : Len(g))
  BY DEF NamesUse
<1>6. RetainedText(i) = l + names + SumFunction(h)
  BY <1>5 DEF RetainedText, SumOver
<1>7. l \in Nat /\ names \in Nat
  BY TextLength, NamesUseType DEF IsIndex, Measures
<1>8. SumFunction(f) \in Nat
  <2>1. \A d \in DOMAIN i.docs : f[d] \in Nat
    BY DocumentUseType DEF IsIndex, Measures
  <2>2. DOMAIN f = DOMAIN i.docs
    OBVIOUS
  <2> HIDE DEF f
  <2> QED
    BY <2>1, <2>2, SumType DEF IsIndex
<1> HIDE DEF f, h, names, l
<1> QED
  BY <1>3, <1>4, <1>6, <1>7, <1>8 DEF names

-----------------------------------------------------------------------------
(* Reading is the inverse of writing                                       *)

LEMMA DivideLess ==
    ASSUME NEW n \in Nat, NEW m \in Nat, n < Base * m
    PROVE  n \div Base < m
<1> DEFINE q == n \div Base
<1>1. q \in Nat /\ n = (n % Base) + Base * q /\ n % Base \in Nat
  BY DivideByBase, FormatAssumption DEF Byte
<1>2. Base \in Nat /\ Base > 0
  BY FormatAssumption
<1> SUFFICES ASSUME m <= q
             PROVE  FALSE
  BY <1>1
<1> HIDE DEF q
<1>3. PICK d \in Nat : q = m + d
  BY <1>1
<1>4. Base * q = Base * m + Base * d /\ Base * d \in Nat /\ Base * m \in Nat
  BY <1>2, <1>3
<1> QED
  BY <1>1, <1>4

IsBehind(h, bytes) ==
    h = [i \in 0..WordBytes |-> IF i = Len(bytes) THEN 0 ELSE bytes[i + 1] + Base * h[i + 1]]

\* The bytes of an integer are read as its value in a word.
LEMMA ReadIsWritten ==
    ASSUME NEW value \in Int
    PROVE  Number(IntegerBytes(value)) = value % WordSize
<1> DEFINE w == WordBytes
           bytes == IntegerBytes(value)
<1>1. PICK f \in [0..w -> Nat] :
        /\ f[0] = value % WordSize /\ \A i \in 0..(w - 1) : f[i + 1] = f[i] \div Base
        /\ bytes = [i \in 1..w |-> f[i - 1] % Base]
  BY IntegerBytesShift
<1>2. w \in Nat /\ WordSize \in Nat \ {0} /\ Base \in Nat
  BY FormatAssumption, PowerStep DEF WordSize
<1>3. Len(bytes) = w
  BY IntegerBytesType
<1> DEFINE T == {i \in Nat : i \in 0..w => f[i] < Power[w - i]}
<1>4. Nat \subseteq T
  <2>1. 0 \in T
    <3>1. value % WordSize < WordSize
      BY <1>2
    <3>2. Power[w - 0] = WordSize
      BY <1>2 DEF WordSize
    <3> QED
      BY <1>1, <3>1, <3>2
  <2>2. ASSUME NEW i \in Nat, i \in T
        PROVE  i + 1 \in T
    <3> SUFFICES ASSUME i + 1 \in 0..w
                 PROVE  f[i + 1] < Power[w - (i + 1)]
      OBVIOUS
    <3> DEFINE k == w - (i + 1)
    <3>1. i \in 0..w /\ i \in 0..(w - 1) /\ k \in Nat /\ w - i = k + 1
      BY <1>2
    <3>2. f[i] \in Nat /\ f[i] < Base * Power[k] /\ Power[k] \in Nat
      BY <2>2, <3>1, PowerStep
    <3>3. f[i] \div Base < Power[k]
      BY <3>2, DivideLess
    <3> QED
      BY <1>1, <3>1, <3>3
  <2> HIDE DEF T
  <2> QED
    BY <2>1, <2>2, Induction
<1>5. f[w] = 0
  <2>1. w \in 0..w /\ w - w = 0
    BY <1>2
  <2>2. f[w] < 1
    BY <1>2, <1>4, <2>1, PowerStep
  <2> QED
    BY <2>1, <2>2
<1> HIDE DEF T
<1>6. \A i \in 0..(w - 1) : f[i] = bytes[i + 1] + Base * f[i + 1]
  <2> SUFFICES ASSUME NEW i \in 0..(w - 1)
               PROVE  f[i] = bytes[i + 1] + Base * f[i + 1]
    OBVIOUS
  <2>1. i + 1 \in 1..w /\ (i + 1) - 1 = i /\ i \in 0..w
    BY <1>2
  <2>2. bytes[i + 1] = f[i] % Base
    <3> HIDE DEF bytes
    <3> QED
      BY <1>1, <2>1
  <2>3. f[i] \in Nat
    BY <2>1
  <2> HIDE DEF bytes
  <2> QED
    BY <1>1, <2>2, <2>3, DivideByBase
<1> HIDE DEF bytes
<1>7. IsBehind(f, bytes)
  <2>1. \A i \in 0..w : f[i] = IF i = Len(bytes) THEN 0 ELSE bytes[i + 1] + Base * f[i + 1]
    <3>1. \A i \in 0..w : i = w \/ i \in 0..(w - 1)
      BY <1>2
    <3>2. \A i \in 0..(w - 1) : i # w
      BY <1>2
    <3> QED
      BY <1>3, <1>5, <1>6, <3>1, <3>2
  <2>2. f = [i \in 0..w |-> f[i]]
    OBVIOUS
  <2> QED
    BY <1>3, <2>1, <2>2 DEF IsBehind
<1> DEFINE h == CHOOSE k : IsBehind(k, bytes)
<1>8. IsBehind(h, bytes)
  BY <1>7
<1>9. Number(bytes) = h[0]
  BY <1>3 DEF Number, IsBehind
<1> HIDE DEF h
<1>10. \A i \in 0..w : h[i] = IF i = w THEN 0 ELSE bytes[i + 1] + Base * h[i + 1]
  BY <1>3, <1>8 DEF IsBehind
<1> DEFINE U == {i \in Nat : i \in 0..w => h[w - i] = f[w - i]}
<1>11. Nat \subseteq U
  <2>1. 0 \in U
    BY <1>2, <1>5, <1>10
  <2>2. ASSUME NEW i \in Nat, i \in U
        PROVE  i + 1 \in U
    <3> SUFFICES ASSUME i + 1 \in 0..w
                 PROVE  h[w - (i + 1)] = f[w - (i + 1)]
      OBVIOUS
    <3> DEFINE k == w - (i + 1)
    <3>1. i \in 0..w /\ k \in 0..(w - 1) /\ k \in 0..w /\ k # w /\ w - i = k + 1
      BY <1>2
    <3>2. h[k + 1] = f[k + 1]
      BY <2>2, <3>1
    <3> QED
      BY <1>6, <1>10, <3>1, <3>2
  <2> HIDE DEF U
  <2> QED
    BY <2>1, <2>2, Induction
<1>12. h[0] = f[0]
  <2>1. w \in 0..w /\ w - w = 0
    BY <1>2
  <2> QED
    BY <1>2, <1>11, <2>1
<1> QED
  BY <1>1, <1>9, <1>12 DEF bytes

\* The bounds of words and of numbers.
LEMMA WordProperties ==
    /\ WordSize \in Nat /\ WordSize >= Base /\ Base >= 2 /\ Base \in Nat /\ WordBytes \in Nat
    /\ LongMax \in Nat /\ IntMax \in 0..LongMax
    /\ 2 * (LongMax + 1) <= WordSize /\ WordSize <= 2 * (LongMax + 1) + 1
<1>1. Base \in Nat /\ Base >= 2 /\ WordBytes \in Nat /\ WordBytes >= 1 /\ IntMax \in 0..LongMax
  BY FormatAssumption
<1>2. WordSize = Base * Power[WordBytes - 1] /\ Power[WordBytes - 1] \in Nat \ {0}
  <2>1. WordBytes - 1 \in Nat /\ (WordBytes - 1) + 1 = WordBytes
    BY <1>1
  <2> QED
    BY <2>1, PowerStep DEF WordSize
<1>3. \A p \in Nat \ {0} : Base * p >= Base /\ Base * p \in Nat
  <2>1. \A p \in Nat \ {0} : \E q \in Nat : p = q + 1
    <3>1. \A p \in Nat \ {0} : p - 1 \in Nat /\ p = (p - 1) + 1
      OBVIOUS
    <3> QED
      BY <3>1
  <2>2. \A q \in Nat : Base * (q + 1) = Base * q + Base /\ Base * q \in Nat
    BY <1>1
  <2> QED
    BY <1>1, <2>1, <2>2
<1>4. WordSize \in Nat /\ WordSize >= Base
  BY <1>2, <1>3
<1> QED
  BY <1>1, <1>4 DEF LongMax

\* A signed integer is restored from its word.
LEMMA SignedIsRestored ==
    ASSUME NEW v \in Long
    PROVE  Signed(v % WordSize) = v
<1>1. v \in Int /\ -LongMax - 1 <= v /\ v <= LongMax
  BY WordProperties DEF Long
<1>2. CASE v >= 0
  <2>1. v % WordSize = v
    BY <1>1, <1>2, WordProperties
  <2> QED
    BY <1>1, <2>1 DEF Signed
<1>3. CASE v < 0
  <2>1. v % WordSize = v + WordSize
    <3> DEFINE W == WordSize
    <3>1. W \in Nat /\ W > 0 /\ 0 <= v + W /\ v + W < W
      BY <1>1, <1>3, WordProperties
    <3> HIDE DEF W
    <3>2. v % W = v + W
      BY <1>1, <3>1
    <3> QED
      BY <3>2 DEF W
  <2>2. v + WordSize > LongMax
    BY <1>1, WordProperties
  <2> QED
    BY <1>1, <2>1, <2>2, WordProperties DEF Signed
<1> QED
  BY <1>1, <1>2, <1>3

LEMMA SmallWord ==
    ASSUME NEW v \in 0..(WordSize - 1)
    PROVE  v % WordSize = v
BY WordProperties

-----------------------------------------------------------------------------
(* What is left of joined pieces after the first k                         *)

AreTails(T, f, n) ==
    /\ T \in [0..n -> Text] /\ T[n] = <<>>
    /\ \A i \in 0..(n - 1) : T[i] = f[i + 1] \o T[i + 1]

PiecesFrom(f, k) == (CHOOSE T : AreTails(T, f, Len(f)) /\ T[0] = FlattenSeq(f))[k]

\* The pieces of a text, from every one of them on.
LEMMA TailsExist ==
    ASSUME NEW f \in Seq(Text)
    PROVE  \E T : AreTails(T, f, Len(f)) /\ T[0] = FlattenSeq(f)
<1> DEFINE n == Len(f)
<1>1. n \in Nat /\ f \in [1..n -> Text] /\ <<>> \in Text
  BY DEF Text
<1>2. PICK K : AreJoins(K, f, n, Byte) /\ FlattenSeq(f) = K[n]
  BY JoinsExist DEF Text
<1>3. K[0] = <<>> /\ \A i \in 0..(n - 1) : K[i + 1] = K[i] \o f[i + 1]
  BY <1>2 DEF AreJoins
<1> DEFINE M == {m \in Nat : m \in 0..n => \E T : AreTails(T, f, m) /\ T[0] = K[m]}
<1>4. 0 \in M
  <2> DEFINE T == [i \in 0..0 |-> <<>>]
  <2>1. AreTails(T, f, 0) /\ T[0] = K[0]
    BY <1>1, <1>3 DEF AreTails
  <2> HIDE DEF T
  <2> QED
    BY <2>1
<1>5. ASSUME NEW m \in Nat, m \in M
      PROVE  m + 1 \in M
  <2> SUFFICES ASSUME m + 1 \in 0..n
               PROVE  \E T : AreTails(T, f, m + 1) /\ T[0] = K[m + 1]
    OBVIOUS
  <2>1. m \in 0..n /\ m \in 0..(n - 1) /\ m + 1 \in 1..n
    BY <1>1
  <2>2. PICK T : AreTails(T, f, m) /\ T[0] = K[m]
    BY <1>5, <2>1
  <2> DEFINE a == f[m + 1]
             U == [i \in 0..(m + 1) |-> IF i = m + 1 THEN <<>> ELSE T[i] \o a]
  <2>3. a \in Text
    BY <1>1, <2>1
  <2>4. \A i \in 0..m : T[i] \in Text
    BY <2>2 DEF AreTails
  <2>5. \A i \in 0..m : T[i] \o a \in Text
    BY <2>3, <2>4, JoinType
  <2>6. U \in [0..(m + 1) -> Text] /\ U[m + 1] = <<>>
    <3>1. \A i \in 0..(m + 1) : i = m + 1 \/ i \in 0..m
      OBVIOUS
    <3>2. m + 1 \in 0..(m + 1)
      OBVIOUS
    <3> HIDE DEF a
    <3> QED
      BY <1>1, <2>5, <3>1, <3>2
  <2>7. \A i \in 0..m : U[i] = T[i] \o a
    <3>1. \A i \in 0..m : i \in 0..(m + 1) /\ i # m + 1
      OBVIOUS
    <3> HIDE DEF a
    <3> QED
      BY <3>1
  <2> HIDE DEF U
  <2>8. \A i \in 0..((m + 1) - 1) : U[i] = f[i + 1] \o U[i + 1]
    <3>0. 0..((m + 1) - 1) = 0..m
      OBVIOUS
    <3> SUFFICES ASSUME NEW i \in 0..m
                 PROVE  U[i] = f[i + 1] \o U[i + 1]
      BY <3>0
    <3>1. CASE i = m
      <4>1. T[m] = <<>> /\ U[i + 1] = <<>>
        BY <2>2, <2>6, <3>1 DEF AreTails
      <4>2. <<>> \o a = a /\ a \o <<>> = a
        BY <2>3, ConcatEmptySeq DEF Text
      <4> HIDE DEF a
      <4>3. U[i] = a
        BY <2>7, <3>1, <4>1, <4>2
      <4> QED
        BY <3>1, <4>1, <4>2, <4>3 DEF a
    <3>2. CASE i # m
      <4>1. i \in 0..(m - 1) /\ i + 1 \in 0..m /\ i + 1 \in 1..n
        BY <1>1, <2>1, <3>2
      <4>2. T[i] = f[i + 1] \o T[i + 1]
        BY <2>2, <4>1 DEF AreTails
      <4>3. f[i + 1] \in Text /\ T[i + 1] \in Text
        BY <1>1, <2>4, <4>1
      <4>4. (f[i + 1] \o T[i + 1]) \o a = f[i + 1] \o (T[i + 1] \o a)
        <5> DEFINE x == f[i + 1]
                   y == T[i + 1]
        <5>1. x \in Text /\ y \in Text /\ a \in Text
          BY <2>3, <4>3
        <5> HIDE DEF a, x, y
        <5>2. (x \o y) \o a = x \o (y \o a)
          BY <5>1, ConcatAssociative DEF Text
        <5> QED
          BY <5>2 DEF x, y
      <4> QED
        BY <2>7, <4>1, <4>2, <4>4
    <3> QED
      BY <3>1, <3>2
  <2>9. U[0] = K[m + 1]
    <3>1. 0 \in 0..m
      OBVIOUS
    <3> QED
      BY <1>3, <2>1, <2>2, <2>7, <3>1
  <2>10. AreTails(U, f, m + 1)
    BY <2>6, <2>8 DEF AreTails
  <2> QED
    BY <2>9, <2>10
<1>6. Nat \subseteq M
  <2> HIDE DEF M
  <2> QED
    BY <1>4, <1>5, Induction
<1>7. n \in M /\ n \in 0..n
  BY <1>1, <1>6
<1> QED
  BY <1>2, <1>7

\* Pieces go one by one, the first first.
LEMMA TailProperties ==
    ASSUME NEW f \in Seq(Text)
    PROVE  /\ Len(f) \in Nat
           /\ PiecesFrom(f, 0) = FlattenSeq(f) /\ PiecesFrom(f, Len(f)) = <<>>
           /\ \A i \in 0..Len(f) : PiecesFrom(f, i) \in Text
           /\ \A i \in 0..(Len(f) - 1) : f[i + 1] \in Text /\ PiecesFrom(f, i) = f[i + 1] \o PiecesFrom(f, i + 1)
<1> DEFINE T == CHOOSE T : AreTails(T, f, Len(f)) /\ T[0] = FlattenSeq(f)
<1>1. AreTails(T, f, Len(f)) /\ T[0] = FlattenSeq(f)
  BY TailsExist
<1>2. \A i : PiecesFrom(f, i) = T[i]
  BY DEF PiecesFrom
<1> HIDE DEF T
<1>3. /\ Len(f) \in Nat /\ T \in [0..Len(f) -> Text] /\ T[Len(f)] = <<>>
      /\ \A i \in 0..(Len(f) - 1) : T[i] = f[i + 1] \o T[i + 1]
  BY <1>1 DEF AreTails
<1>4. \A i \in 0..(Len(f) - 1) : f[i + 1] \in Text
  <2>1. \A i \in 0..(Len(f) - 1) : i + 1 \in 1..Len(f)
    BY <1>3
  <2> QED
    BY <2>1
<1> QED
  BY <1>1, <1>2, <1>3, <1>4

\* What is joined first does not matter.
LEMMA JoinsAssociate ==
    ASSUME NEW a \in Text, NEW b \in Text, NEW c \in Text
    PROVE  (a \o b) \o c = a \o (b \o c) /\ a \o b \in Text /\ b \o c \in Text /\ a \o (b \o c) \in Text
<1>1. a \o b \in Text /\ b \o c \in Text
  BY JoinType
<1>2. a \o (b \o c) \in Text
  BY <1>1, JoinType
<1>3. (a \o b) \o c = a \o (b \o c)
  BY ConcatAssociative DEF Text
<1> QED
  BY <1>1, <1>2, <1>3

\* Pieces are regrouped.
LEMMA JoinsRegroup ==
    ASSUME NEW a \in Text, NEW b \in Text, NEW c \in Text
    PROVE  (a \o b) \o c = a \o (b \o c)
BY JoinsAssociate

LEMMA JoinThree ==
    ASSUME NEW a \in Text, NEW b \in Text, NEW c \in Text
    PROVE  a \o (b \o c) \in Text
<1> DEFINE x == b \o c
<1>1. x \in Text
  BY JoinType
<1> HIDE DEF x
<1> QED
  BY <1>1, JoinType DEF x

\* n things of c bytes in m bytes are at most m \div c.
LEMMA ProductIsMonotonic ==
    ASSUME NEW c \in Nat, NEW n \in Nat, NEW m \in Nat, n * c <= m, c > 0
    PROVE  n <= m \div c
<1>1. m \div c \in Nat /\ m = (m % c) + c * (m \div c) /\ m % c \in 0..(c - 1)
  OBVIOUS
<1> SUFFICES ASSUME n >= (m \div c) + 1
             PROVE  FALSE
  BY <1>1
<1> DEFINE q == m \div c
           r == m % c
<1>2. q \in Nat /\ m = r + c * q /\ r \in Nat /\ r < c /\ n >= q + 1
  BY <1>1
<1> HIDE DEF q, r
<1>3. PICK d \in Nat : n = q + 1 + d
  <2>1. n - (q + 1) \in Nat /\ n = q + 1 + (n - (q + 1))
    BY <1>2
  <2> QED
    BY <2>1
<1>4. n * c = c * q + c + c * d /\ c * d \in Nat /\ c * q \in Nat
  BY <1>2, <1>3
<1> QED
  BY <1>2, <1>4

\* Pieces that are long make a long rest.
LEMMA PiecesLength ==
    ASSUME NEW f \in Seq(Text), NEW c \in Nat, \A i \in 1..Len(f) : Len(f[i]) >= c
    PROVE  Len(PiecesFrom(f, 0)) >= Len(f) * c /\ Len(PiecesFrom(f, 0)) \in Nat
<1> DEFINE n == Len(f)
           T == {i \in Nat : i \in 0..n => Len(PiecesFrom(f, n - i)) >= i * c}
<1>1. /\ n \in Nat /\ PiecesFrom(f, n) = <<>>
      /\ \A i \in 0..n : PiecesFrom(f, i) \in Text
      /\ \A i \in 0..(n - 1) : f[i + 1] \in Text /\ PiecesFrom(f, i) = f[i + 1] \o PiecesFrom(f, i + 1)
  BY TailProperties
<1>2. 0 \in T
  <2>1. Len(PiecesFrom(f, n - 0)) = 0 /\ 0 * c = 0
    BY <1>1
  <2> QED
    BY <2>1
<1>3. ASSUME NEW i \in Nat, i \in T
      PROVE  i + 1 \in T
  <2> SUFFICES ASSUME i + 1 \in 0..n
               PROVE  Len(PiecesFrom(f, n - (i + 1))) >= (i + 1) * c
    OBVIOUS
  <2> DEFINE k == n - (i + 1)
             a == Len(f[k + 1])
             b == Len(PiecesFrom(f, k + 1))
  <2>1. k \in 0..(n - 1) /\ k + 1 \in 0..n /\ k + 1 \in 1..n /\ n - i = k + 1 /\ i \in 0..n
    BY <1>1
  <2>2. Len(PiecesFrom(f, k)) = a + b /\ a \in Nat /\ b \in Nat
    BY <1>1, <2>1, JoinType
  <2>3. b >= i * c /\ a >= c
    BY <1>3, <2>1
  <2>4. (i + 1) * c = i * c + c /\ i * c \in Nat
    OBVIOUS
  <2> HIDE DEF a, b
  <2> QED
    BY <2>2, <2>3, <2>4
<1>4. n \in T /\ n \in 0..n /\ n - n = 0
  <2> HIDE DEF T
  <2>1. Nat \subseteq T
    BY <1>2, <1>3, Induction
  <2> QED
    BY <1>1, <2>1
<1>5. PiecesFrom(f, 0) \in Text
  BY <1>1
<1> QED
  BY <1>4, <1>5, TextLength

LEMMA NothingJoined ==
    ASSUME NEW a \in Text
    PROVE  a \o <<>> = a /\ <<>> \o a = a /\ <<>> \in Text
BY ConcatEmptySeq DEF Text

-----------------------------------------------------------------------------
(* The pieces of the payload of an index                                   *)

\* What encode writes of a property value, or of a text and what goes with it.
ValueBytes(type, value) == IF type = "string" THEN TextBytes(value) ELSE IntegerBytes(value)

KeyCodes(g, strings) ==
    LET written == SortedKeys(strings)
    IN [j \in DOMAIN written |-> TextBytes(written[j]) \o IntegerBytes(KeyId(g, written[j]))]

EntryCodes(type, properties) ==
    LET names == SortedNames(DOMAIN properties)
    IN [j \in DOMAIN names |-> TextBytes(names[j]) \o ValueBytes(type, properties[names[j]])]

GroupCodes(doc) ==
    LET names == SortedNames(DOMAIN doc.groups)
    IN [j \in DOMAIN names |-> GroupBytes(names[j], doc.groups[names[j]])]

KindCodes(doc) ==
    [j \in DOMAIN PropertyKinds |-> PropertyBytes(PropertyKinds[j], doc.properties[PropertyKinds[j]])]

DocumentCodes(i) ==
    LET order == Ascending(DOMAIN i.docs)
    IN [j \in DOMAIN order |-> DocumentBytes(order[j], i.docs[order[j]])]

\* The keys of a group in order are its keys.
LEMMA SortedKeysType ==
    ASSUME NEW strings \in Seq(Text)
    PROVE  /\ SortedKeys(strings) \in Seq(Text) /\ Len(SortedKeys(strings)) = Len(strings)
           /\ DOMAIN SortedKeys(strings) = 1..Len(strings) /\ Len(strings) \in Nat
           /\ DOMAIN strings = 1..Len(strings)
           /\ \A i \in 1..Len(strings) : \E j \in 1..Len(strings) : SortedKeys(strings)[i] = strings[j]
<1> DEFINE S == DOMAIN strings
           n == Len(strings)
           order == InOrder(S, KeyOrder(strings))
           written == SortedKeys(strings)
<1>1. S = 1..n /\ n \in Nat /\ IsFiniteSet(S) /\ Cardinality(S) = n
  <2>1. \A k \in Nat : IsFiniteSet(1..k) /\ Cardinality(1..k) = k
    BY FS_Interval
  <2>2. S = 1..n /\ n \in Nat
    BY LenProperties
  <2> QED
    BY <2>1, <2>2
<1>2. order \in [1..n -> 1..n]
  BY <1>1, KeysAreOrdered, InOrderLists DEF Lists
<1>3. written = [i \in 1..n |-> strings[order[i]]]
  BY <1>1 DEF SortedKeys
<1> HIDE DEF order, written
<1>4. \A i \in 1..n : order[i] \in 1..n /\ written[i] = strings[order[i]]
  BY <1>2, <1>3
<1>5. \A i \in 1..n : strings[i] \in Text
  BY <1>1
<1>6. written \in [1..n -> Text]
  BY <1>3, <1>4, <1>5
<1>7. written \in Seq(Text) /\ Len(written) = n /\ DOMAIN written = 1..n
  BY <1>1, <1>6
<1> QED
  BY <1>1, <1>4, <1>7 DEF written

\* its five property maps one by one,
LEMMA KindsCode ==
    ASSUME NEW doc, IsDocument(doc)
    PROVE  /\ KindCodes(doc) \in Seq(Text) /\ Len(KindCodes(doc)) = 5
           /\ \A i \in 1..5 :
                /\ PropertyKinds[i] \in ToSet(PropertyKinds)
                /\ IsKind(PropertyKinds[i], doc.properties[PropertyKinds[i]])
                /\ KindCodes(doc)[i] = PropertyBytes(PropertyKinds[i], doc.properties[PropertyKinds[i]])
                /\ Len(KindCodes(doc)[i]) >= WordBytes
<1> DEFINE codes == KindCodes(doc)
           Code(i) == PropertyBytes(PropertyKinds[i], doc.properties[PropertyKinds[i]])
<1>1. codes = [i \in 1..5 |-> Code(i)]
  BY KindsAre DEF KindCodes
<1>2. \A i \in 1..5 : /\ PropertyKinds[i] \in ToSet(PropertyKinds)
                      /\ IsKind(PropertyKinds[i], doc.properties[PropertyKinds[i]])
  BY KindsAre, DocumentParts DEF IsProperties
<1>3. ASSUME NEW i \in 1..5
      PROVE  Code(i) \in Text /\ Len(Code(i)) >= WordBytes
  <2> DEFINE t == PropertyKinds[i]
             p == doc.properties[t]
             m == "position"
  <2>1. t \in ToSet(PropertyKinds) /\ IsKind(t, p)
    BY <1>2
  <2>2. m \in Measures
    BY DEF Measures
  <2>3. Code(i) = PropertyBytes(t, p)
    OBVIOUS
  <2> HIDE DEF t, p, Code, m
  <2>4. PropertyBytes(t, p) \in Text /\ Len(PropertyBytes(t, p)) = WordBytes + KindUse("position", t, p)
    BY <2>1, KindLength
  <2>5. KindUse("position", t, p) \in Nat /\ WordBytes \in Nat
    BY <2>1, <2>2, KindUseType, FormatAssumption DEF m
  <2> QED
    BY <2>3, <2>4, <2>5
<1> HIDE DEF codes, Code
<1>4. \A i \in 1..5 : codes[i] = Code(i)
  BY <1>1
<1>5. codes \in [1..5 -> Text]
  BY <1>1, <1>3
<1>6. codes \in Seq(Text) /\ Len(codes) = 5
  <2> DEFINE n == 5
  <2>1. n \in Nat /\ codes \in [1..n -> Text]
    BY <1>5
  <2> HIDE DEF n
  <2>2. codes \in Seq(Text) /\ Len(codes) = n
    BY <2>1
  <2> QED
    BY <2>2 DEF n
<1> QED
  BY <1>2, <1>3, <1>4, <1>6 DEF codes, Code

\* The kth kind of a document.
LEMMA KindFacts ==
    ASSUME NEW doc, IsDocument(doc), NEW k \in 1..5,
           NEW type, type = PropertyKinds[k], NEW properties, properties = doc.properties[type]
    PROVE  /\ type \in ToSet(PropertyKinds) /\ IsKind(type, properties)
           /\ PiecesFrom(KindCodes(doc), k) \in Text
           /\ PiecesFrom(KindCodes(doc), k - 1) = PropertyBytes(type, properties) \o PiecesFrom(KindCodes(doc), k)
<1> DEFINE f == KindCodes(doc)
<1>1. /\ f \in Seq(Text) /\ Len(f) = 5 /\ type \in ToSet(PropertyKinds) /\ IsKind(type, properties)
      /\ f[k] = PropertyBytes(type, properties)
  BY KindsCode
<1> HIDE DEF f
<1>2. /\ \A i \in 0..Len(f) : PiecesFrom(f, i) \in Text
      /\ \A i \in 0..(Len(f) - 1) : f[i + 1] \in Text /\ PiecesFrom(f, i) = f[i + 1] \o PiecesFrom(f, i + 1)
  BY <1>1, TailProperties
<1>3. k \in 0..Len(f) /\ k - 1 \in 0..(Len(f) - 1) /\ (k - 1) + 1 = k
  BY <1>1
<1>4. PiecesFrom(f, k) \in Text
  BY <1>2, <1>3
<1>5. PiecesFrom(f, k - 1) = f[k] \o PiecesFrom(f, k)
  BY <1>2, <1>3
<1> QED
  BY <1>1, <1>4, <1>5 DEF f

-----------------------------------------------------------------------------
(* The first part of a document, and the order of its keys                 *)

Firsts(seq, n) == {seq[j] : j \in 1..n}

\* What loading makes of a document.
Kept(doc) ==
    [groups |-> [g \in DOMAIN doc.groups |-> SortedKeys(doc.groups[g])],
     properties |-> doc.properties]

\* The first n of a set are the first n - 1 and one that is not among them.
LEMMA FirstsMore ==
    ASSUME NEW S, Cardinality(S) \in Nat, NEW seq, Lists(seq, S), NEW n \in 1..Cardinality(S)
    PROVE  /\ seq[n] \in S /\ seq[n] \notin Firsts(seq, n - 1)
           /\ Firsts(seq, n) = Firsts(seq, n - 1) \union {seq[n]}
<1> DEFINE m == Cardinality(S)
<1>1. seq \in [1..m -> S] /\ \A i, j \in 1..m : seq[i] = seq[j] => i = j
  BY DEF Lists
<1>2. m \in Nat /\ n \in 1..m
  OBVIOUS
<1> HIDE DEF m
<1>3. \A j \in 1..(n - 1) : j \in 1..m /\ j # n
  BY <1>2
<1>4. \A j : j \in 1..n <=> j \in 1..(n - 1) \/ j = n
  BY <1>2
<1> QED
  BY <1>1, <1>2, <1>3, <1>4 DEF Firsts

\* None is among the first 0, and all are among the first as many as there are.
LEMMA FirstsAll ==
    ASSUME NEW S, NEW seq, Lists(seq, S)
    PROVE  Firsts(seq, 0) = {} /\ Firsts(seq, Cardinality(S)) = S
<1>1. \A j : j \notin 1..0
  OBVIOUS
<1> DEFINE n == Cardinality(S)
<1>2. seq \in [1..n -> S] /\ \A x \in S : \E i \in 1..n : seq[i] = x
  BY DEF Lists
<1> HIDE DEF n
<1>3. Firsts(seq, n) = S
  BY <1>2 DEF Firsts
<1> QED
  BY <1>1, <1>3 DEF Firsts, n

\* The first k + 1 of a sequence.
LEMMA FirstsAppended ==
    ASSUME NEW w, NEW k \in Nat, \A j \in 1..(k + 1) : w[j] \in Text
    PROVE  Append([j \in 1..k |-> w[j]], w[k + 1]) = [j \in 1..(k + 1) |-> w[j]]
<1> PICK old : old = [j \in 1..k |-> w[j]]
  OBVIOUS
<1>1. old \in Seq(Text) /\ Len(old) = k /\ \A j \in 1..k : old[j] = w[j]
  OBVIOUS
<1> PICK more : more = Append(old, w[k + 1])
  OBVIOUS
<1>2. more \in Seq(Text) /\ Len(more) = k + 1
  BY <1>1
<1>3. \A j \in 1..(k + 1) : more[j] = w[j]
  BY <1>1
<1>4. more = [j \in 1..(k + 1) |-> more[j]]
  BY <1>2
<1> QED
  BY <1>3, <1>4

\* Keys that are in order stay as they are.
LEMMA SortedKeysStay ==
    ASSUME NEW strings \in Seq(Text)
    PROVE  SortedKeys(SortedKeys(strings)) = SortedKeys(strings)
<1> DEFINE n == Len(strings)
           S == DOMAIN strings
           order == InOrder(S, KeyOrder(strings))
<1>1. PICK w : w = SortedKeys(strings)
  OBVIOUS
<1>2. w \in Seq(Text) /\ Len(w) = n /\ DOMAIN w = 1..n /\ n \in Nat /\ S = 1..n
  BY <1>1, SortedKeysType
<1>3. IsFiniteSet(1..n) /\ Cardinality(1..n) = n
  <2>1. \A k \in Nat : IsFiniteSet(1..k) /\ Cardinality(1..k) = k
    BY FS_Interval
  <2> QED
    BY <1>2, <2>1
<1>4. /\ order \in [1..n -> 1..n]
      /\ \A i, j \in 1..n : <<order[i], order[j]>> \in KeyOrder(strings) <=> i < j
  BY <1>2, <1>3, KeysAreOrdered, InOrderProperties
<1>5. \A i \in 1..n : w[i] = strings[order[i]]
  BY <1>1, <1>2 DEF SortedKeys
<1> HIDE DEF order, S
<1>6. ASSUME NEW i \in 1..n, NEW j \in 1..n, i < j
      PROVE  <<i, j>> \in KeyOrder(w)
  <2>1. <<order[i], order[j]>> \in KeyOrder(strings) /\ order[i] \in 1..n /\ order[j] \in 1..n
    BY <1>4, <1>6
  <2>2. Precedes(strings[order[i]], strings[order[j]]) \/ strings[order[i]] = strings[order[j]]
    BY <2>1 DEF KeyOrder
  <2>3. Precedes(w[i], w[j]) \/ w[i] = w[j]
    BY <1>5, <2>2
  <2>4. i \in DOMAIN w /\ j \in DOMAIN w
    BY <1>2
  <2> QED
    BY <1>6, <2>3, <2>4 DEF KeyOrder
<1> DEFINE same == [i \in 1..n |-> i]
<1> HIDE DEF n
<1>7. IsInOrder(same, 1..n, KeyOrder(w))
  <2>1. same \in [1..n -> 1..n] /\ \A i \in 1..n : same[i] = i
    OBVIOUS
  <2> HIDE DEF same
  <2> QED
    BY <1>3, <1>6, <2>1 DEF IsInOrder
<1>8. same = InOrder(DOMAIN w, KeyOrder(w))
  <2>1. IsStrictOrder(KeyOrder(w), 1..n)
    BY <1>2, KeysAreOrdered
  <2> QED
    BY <1>2, <1>3, <1>7, <2>1, InOrderIsUnique
<1>9. SortedKeys(w) = [i \in 1..n |-> w[i]]
  <2>1. \A i \in 1..n : same[i] = i
    OBVIOUS
  <2> HIDE DEF same
  <2>2. SortedKeys(w) = [i \in 1..n |-> w[same[i]]]
    BY <1>2, <1>8 DEF SortedKeys
  <2> QED
    BY <2>1, <2>2
<1>10. w = [i \in 1..n |-> w[i]]
  BY <1>2
<1> QED
  BY <1>1, <1>9, <1>10

\* Keys are written in one order, in whichever they are kept.
LEMMA GroupIsWrittenAlike ==
    ASSUME NEW g, NEW strings \in Seq(Text)
    PROVE  GroupBytes(g, SortedKeys(strings)) = GroupBytes(g, strings)
<1> PICK w : w = SortedKeys(strings)
  OBVIOUS
<1>1. SortedKeys(w) = SortedKeys(strings)
  BY SortedKeysStay
<1>2. GroupBytes(g, w) = GroupBytes(g, strings)
  BY <1>1 DEF GroupBytes, Each
<1> QED
  BY <1>2

-----------------------------------------------------------------------------
(* What is counted of the keys and of the properties                       *)

\* A part of a sum leaves room for what is not in it.
LEMMA SumRoom ==
    ASSUME NEW f, IsFiniteSet(DOMAIN f), \A x \in DOMAIN f : f[x] \in Nat,
           NEW g, DOMAIN g \subseteq DOMAIN f, \A x \in DOMAIN g : g[x] = f[x]
    PROVE  /\ SumFunction(f) \in Nat /\ SumFunction(g) \in Nat /\ SumFunction(g) <= SumFunction(f)
           /\ \A x \in DOMAIN f : x \notin DOMAIN g => SumFunction(g) + f[x] <= SumFunction(f)
<1>1. ASSUME NEW h, DOMAIN h \subseteq DOMAIN f, \A x \in DOMAIN h : h[x] = f[x]
      PROVE  SumFunction(f) \in Nat /\ SumFunction(h) \in Nat /\ SumFunction(h) <= SumFunction(f)
  <2> DEFINE S == DOMAIN h
             T == (DOMAIN f) \ S
             rest == [x \in T |-> f[x]]
  <2>1. /\ IsFiniteSet(S) /\ IsFiniteSet(T) /\ S \intersect T = {} /\ DOMAIN f = S \union T
        /\ DOMAIN rest = T /\ \A x \in T : rest[x] = f[x]
    BY <1>1, FS_Subset
  <2> HIDE DEF T, rest
  <2>2. /\ SumFunction(f) = SumFunction(h) + SumFunction(rest)
        /\ SumFunction(h) \in Nat /\ SumFunction(rest) \in Nat
    BY <1>1, <2>1, SumOfUnion
  <2> QED
    BY <2>2
<1>2. ASSUME NEW x \in DOMAIN f, x \notin DOMAIN g
      PROVE  SumFunction(g) + f[x] <= SumFunction(f)
  <2> DEFINE S == DOMAIN g
             h == [y \in S \union {x} |-> f[y]]
  <2>1. /\ IsFiniteSet(S) /\ DOMAIN h = S \union {x} /\ \A y \in DOMAIN h : h[y] = f[y] /\ h[y] \in Nat
        /\ \A y \in S : g[y] = h[y]
    BY FS_Subset
  <2> HIDE DEF h
  <2>2. SumFunction(h) = SumFunction(g) + h[x]
    BY <1>2, <2>1, SumOfMore
  <2>3. SumFunction(h) <= SumFunction(f)
    BY <1>1, <2>1
  <2> QED
    BY <2>1, <2>2, <2>3
<1> QED
  BY <1>1, <1>2

KeysIn(groups) == SumOver(DOMAIN groups, LAMBDA g : Len(groups[g]))

EntriesIn(properties) ==
    SumOver(ToSet(PropertyKinds), LAMBDA type : Cardinality(DOMAIN properties[type]))

LEMMA KeysInType ==
    ASSUME NEW groups, IsGroups(groups)
    PROVE  KeysIn(groups) \in Nat /\ (DOMAIN groups = {} => KeysIn(groups) = 0)
<1> DEFINE f == [g \in DOMAIN groups |-> Len(groups[g])]
<1>1. IsFiniteSet(DOMAIN f) /\ DOMAIN f = DOMAIN groups /\ \A g \in DOMAIN f : f[g] \in Nat
  BY DEF IsGroups
<1>2. KeysIn(groups) = SumFunction(f)
  BY DEF KeysIn, SumOver
<1> HIDE DEF f
<1> QED
  BY <1>1, <1>2, SumType

LEMMA EntriesInType ==
    ASSUME NEW properties, IsProperties(properties)
    PROVE  /\ EntriesIn(properties) \in Nat
           /\ \A type \in ToSet(PropertyKinds) : Cardinality(DOMAIN properties[type]) \in Nat
<1> DEFINE f == [type \in ToSet(PropertyKinds) |-> Cardinality(DOMAIN properties[type])]
<1>1. \A type \in ToSet(PropertyKinds) : Cardinality(DOMAIN properties[type]) \in Nat
  BY FS_CardinalityType DEF IsProperties, IsKind
<1>2. DOMAIN f = ToSet(PropertyKinds) /\ \A type \in DOMAIN f : f[type] \in Nat
  BY <1>1
<1>3. EntriesIn(properties) = SumFunction(f)
  BY DEF EntriesIn, SumOver
<1> HIDE DEF f
<1> QED
  BY <1>1, <1>2, <1>3, SumType, KindsAre

\* The counts of an index are sums over its documents.
LEMMA CountsType ==
    ASSUME NEW i, IsIndex(i)
    PROVE  /\ KeyCount(i) = SumFunction([d \in DOMAIN i.docs |-> KeysIn(i.docs[d].groups)])
           /\ PropertyCount(i) = SumFunction([d \in DOMAIN i.docs |-> EntriesIn(i.docs[d].properties)])
           /\ \A d \in DOMAIN i.docs : /\ KeysIn(i.docs[d].groups) \in Nat
                                       /\ EntriesIn(i.docs[d].properties) \in Nat
           /\ KeyCount(i) \in Nat /\ PropertyCount(i) \in Nat
           /\ DOMAIN i.docs = {} => KeyCount(i) = 0 /\ PropertyCount(i) = 0
<1> DEFINE f == [d \in DOMAIN i.docs |-> KeysIn(i.docs[d].groups)]
           h == [d \in DOMAIN i.docs |-> EntriesIn(i.docs[d].properties)]
<1>1. KeyCount(i) = SumFunction(f) /\ PropertyCount(i) = SumFunction(h)
  BY DEF KeyCount, PropertyCount, KeysIn, EntriesIn, SumOver
<1>2. \A d \in DOMAIN i.docs : KeysIn(i.docs[d].groups) \in Nat /\ EntriesIn(i.docs[d].properties) \in Nat
  BY KeysInType, EntriesInType, DocumentParts DEF IsIndex
<1>3. /\ DOMAIN f = DOMAIN i.docs /\ DOMAIN h = DOMAIN i.docs /\ IsFiniteSet(DOMAIN i.docs)
      /\ \A d \in DOMAIN f : f[d] \in Nat /\ h[d] \in Nat
  BY <1>2 DEF IsIndex
<1> HIDE DEF f, h
<1>4. /\ SumFunction(f) \in Nat /\ SumFunction(h) \in Nat
      /\ DOMAIN i.docs = {} => SumFunction(f) = 0 /\ SumFunction(h) = 0
  BY <1>3, SumType
<1> QED
  BY <1>1, <1>2, <1>4 DEF f, h

-----------------------------------------------------------------------------
(* The strings of an index                                                 *)

DocumentStrings(doc) ==
    DOMAIN doc.groups
      \union (UNION {ToSet(doc.groups[g]) : g \in DOMAIN doc.groups})
      \union (UNION {DOMAIN doc.properties[type] : type \in ToSet(PropertyKinds)})
      \union {doc.properties["string"][name] : name \in DOMAIN doc.properties["string"]}

\* The strings of an index are its implicit group and those of its documents.
LEMMA StringsAre ==
    ASSUME NEW i
    PROVE  StringsOf(i) = {i.implicit} \union UNION {DocumentStrings(i.docs[d]) : d \in DOMAIN i.docs}
BY DEF StringsOf, DocumentStrings, GroupsNamed

\* Each name, key, property name and string value is one of them.
LEMMA IsStringOf ==
    ASSUME NEW doc, NEW s
    PROVE  s \in DocumentStrings(doc) <=>
             \/ \E g \in DOMAIN doc.groups : s = g \/ s \in ToSet(doc.groups[g])
             \/ \E type \in ToSet(PropertyKinds) : s \in DOMAIN doc.properties[type]
             \/ \E name \in DOMAIN doc.properties["string"] : s = doc.properties["string"][name]
<1> DEFINE A == DOMAIN doc.groups
           B == {ToSet(doc.groups[g]) : g \in DOMAIN doc.groups}
           C == {DOMAIN doc.properties[type] : type \in ToSet(PropertyKinds)}
           D == {doc.properties["string"][name] : name \in DOMAIN doc.properties["string"]}
<1>1. s \in UNION B <=> \E g \in DOMAIN doc.groups : s \in ToSet(doc.groups[g])
  OBVIOUS
<1>2. s \in UNION C <=> \E type \in ToSet(PropertyKinds) : s \in DOMAIN doc.properties[type]
  OBVIOUS
<1>3. s \in D <=> \E name \in DOMAIN doc.properties["string"] : s = doc.properties["string"][name]
  OBVIOUS
<1>4. s \in A <=> \E g \in DOMAIN doc.groups : s = g
  OBVIOUS
<1>5. DocumentStrings(doc) = A \union (UNION B) \union (UNION C) \union D
  BY DEF DocumentStrings
<1> HIDE DEF A, B, C, D
<1>6. s \in DocumentStrings(doc) <=> s \in A \/ s \in UNION B \/ s \in UNION C \/ s \in D
  BY <1>5
<1>7. (\E g \in DOMAIN doc.groups : s = g \/ s \in ToSet(doc.groups[g])) <=>
        \/ \E g \in DOMAIN doc.groups : s = g
        \/ \E g \in DOMAIN doc.groups : s \in ToSet(doc.groups[g])
  OBVIOUS
<1> QED
  BY <1>1, <1>2, <1>3, <1>4, <1>6, <1>7

-----------------------------------------------------------------------------
(* An index as it is loaded: the order of the keys changes no size         *)

KeptIndex(i) == [implicit |-> i.implicit, docs |-> [d \in DOMAIN i.docs |-> Kept(i.docs[d])]]

\* A group uses as much with its keys in order.
LEMMA SortedKeysSize ==
    ASSUME NEW strings \in Seq(Text)
    PROVE  /\ \A m \in Measures : \A g \in Text : KeysUse(m, g, SortedKeys(strings)) = KeysUse(m, g, strings)
           /\ ToSet(SortedKeys(strings)) = ToSet(strings)
<1> DEFINE S == DOMAIN strings
           n == Len(strings)
           order == InOrder(S, KeyOrder(strings))
           written == SortedKeys(strings)
<1>1. S = 1..n /\ n \in Nat /\ IsFiniteSet(S) /\ Cardinality(S) = n
  <2>1. \A k \in Nat : IsFiniteSet(1..k) /\ Cardinality(1..k) = k
    BY FS_Interval
  <2>2. S = 1..n /\ n \in Nat
    BY LenProperties
  <2> QED
    BY <2>1, <2>2
<1>2. /\ order \in [1..n -> 1..n]
      /\ \A i, j \in 1..n : order[i] = order[j] => i = j
      /\ \A k \in 1..n : \E i \in 1..n : order[i] = k
  <2>1. Lists(order, S)
    BY <1>1, KeysAreOrdered, InOrderLists
  <2> HIDE DEF order, S
  <2> QED
    BY <1>1, <2>1 DEF Lists
<1>3. written = [i \in 1..n |-> strings[order[i]]]
  BY <1>1 DEF SortedKeys
<1> HIDE DEF order, written
<1>4. ASSUME NEW m \in Measures, NEW g \in Text
      PROVE  KeysUse(m, g, written) = KeysUse(m, g, strings)
  <2> DEFINE f == [i \in S |-> Len(strings[i]) + Extra(m, g)]
             h == [i \in 1..n |-> Len(written[i]) + Extra(m, g)]
  <2>1. DOMAIN f = 1..n /\ IsFiniteSet(1..n) /\ DOMAIN h = 1..n
    BY <1>1
  <2>2. \A i \in 1..n : f[i] \in Nat
    <3>1. \A i \in 1..n : Len(strings[i]) \in Nat
      BY <1>1
    <3>2. Extra(m, g) \in Nat
      BY WordType
    <3> QED
      BY <1>1, <3>1, <3>2
  <2>3. \A i \in 1..n : h[i] = f[order[i]]
    BY <1>1, <1>2, <1>3
  <2>4. KeysUse(m, g, strings) = SumFunction(f)
    BY DEF KeysUse, SumOver
  <2>5. KeysUse(m, g, written) = SumFunction(h)
    <3>1. DOMAIN written = 1..n
      BY <1>3
    <3> QED
      BY <3>1 DEF KeysUse, SumOver
  <2> HIDE DEF f, h
  <2>6. SumFunction(h) = SumFunction(f)
    <3>1. IsFiniteSet(DOMAIN f) /\ \A x \in DOMAIN f : f[x] \in Nat
      BY <2>1, <2>2
    <3>2. /\ order \in [1..n -> DOMAIN f]
          /\ \A x, y \in 1..n : order[x] = order[y] => x = y
          /\ \A z \in DOMAIN f : \E x \in 1..n : order[x] = z
      BY <1>2, <2>1
    <3>3. DOMAIN h = 1..n /\ \A x \in 1..n : h[x] = f[order[x]]
      BY <2>1, <2>3
    <3> QED
      BY <3>1, <3>2, <3>3, SumOfPermuted
  <2> QED
    BY <2>4, <2>5, <2>6
<1>5. ToSet(written) = ToSet(strings)
  <2>1. ToSet(written) = {written[i] : i \in 1..n}
    <3>1. DOMAIN written = 1..n
      BY <1>3
    <3> QED
      BY <3>1 DEF ToSet
  <2>2. ToSet(strings) = {strings[i] : i \in 1..n}
    BY <1>1 DEF ToSet
  <2>3. ASSUME NEW i \in 1..n PROVE written[i] \in {strings[j] : j \in 1..n}
    BY <1>2, <1>3
  <2>4. ASSUME NEW j \in 1..n PROVE strings[j] \in {written[i] : i \in 1..n}
    <3>1. PICK i \in 1..n : order[i] = j
      BY <1>2
    <3> QED
      BY <1>3, <3>1
  <2> QED
    BY <2>1, <2>2, <2>3, <2>4
<1> QED
  BY <1>4, <1>5 DEF written

\* A document as it is loaded is a document,
LEMMA KeptIsDocument ==
    ASSUME NEW doc, IsDocument(doc), IdsFit(doc.groups)
    PROVE  /\ IsDocument(Kept(doc)) /\ IdsFit(Kept(doc).groups)
           /\ Kept(doc).properties = doc.properties /\ DOMAIN Kept(doc).groups = DOMAIN doc.groups
           /\ \A g \in DOMAIN doc.groups :
                /\ g \in Text /\ doc.groups[g] \in Seq(Text)
                /\ Kept(doc).groups[g] = SortedKeys(doc.groups[g])
<1> PICK groups, kept : groups = doc.groups /\ kept = [g \in DOMAIN groups |-> SortedKeys(groups[g])]
  OBVIOUS
<1>1. Kept(doc) = [groups |-> kept, properties |-> doc.properties]
  BY DEF Kept
<1>2. IsGroups(groups) /\ IsProperties(doc.properties) /\ IdsFit(groups)
  BY DocumentParts
<1>3. \A g \in DOMAIN groups : g \in Text /\ groups[g] \in Seq(Text)
  BY <1>2 DEF IsGroups
<1>4. \A g \in DOMAIN groups : kept[g] = SortedKeys(groups[g]) /\ kept[g] \in Seq(Text)
  BY <1>3, SortedKeysType
<1>5. IsGroups(kept)
  BY <1>2, <1>4 DEF IsGroups
<1>6. IdsFit(kept)
  <2> SUFFICES ASSUME NEW g \in DOMAIN groups, NEW i \in DOMAIN kept[g]
               PROVE  KeyId(g, kept[g][i]) \in Long
    BY DEF IdsFit
  <2> PICK strings : strings = groups[g]
    OBVIOUS
  <2>1. strings \in Seq(Text) /\ kept[g] = SortedKeys(strings)
    BY <1>3, <1>4
  <2>2. \E j \in DOMAIN strings : kept[g][i] = strings[j]
    <3>1. /\ DOMAIN SortedKeys(strings) = 1..Len(strings) /\ DOMAIN strings = 1..Len(strings)
          /\ \A k \in 1..Len(strings) : \E j \in 1..Len(strings) : SortedKeys(strings)[k] = strings[j]
      BY <2>1, SortedKeysType
    <3>2. i \in 1..Len(strings) /\ kept[g][i] = SortedKeys(strings)[i]
      BY <2>1, <3>1
    <3>3. PICK j \in 1..Len(strings) : SortedKeys(strings)[i] = strings[j]
      BY <3>1, <3>2
    <3>4. j \in DOMAIN strings /\ kept[g][i] = strings[j]
      BY <3>1, <3>2, <3>3
    <3> QED
      BY <3>4
  <2> QED
    BY <1>2, <2>2 DEF IdsFit
<1>7. Kept(doc).groups = kept /\ Kept(doc).properties = doc.properties
  BY <1>1
<1>8. IsDocument(Kept(doc))
  BY <1>1, <1>2, <1>5, <1>7, DocumentParts
<1> QED
  BY <1>3, <1>4, <1>6, <1>7, <1>8

\* of the same size and with the same strings,
LEMMA KeptSize ==
    ASSUME NEW doc, IsDocument(doc), IdsFit(doc.groups)
    PROVE  /\ \A m \in Measures : DocumentUse(m, Kept(doc)) = DocumentUse(m, doc)
           /\ KeysIn(Kept(doc).groups) = KeysIn(doc.groups)
           /\ DocumentStrings(Kept(doc)) = DocumentStrings(doc)
<1> PICK kept, groups : kept = Kept(doc).groups /\ groups = doc.groups
  OBVIOUS
<1>1. /\ DOMAIN kept = DOMAIN groups /\ Kept(doc).properties = doc.properties
      /\ \A g \in DOMAIN groups : g \in Text /\ groups[g] \in Seq(Text) /\ kept[g] = SortedKeys(groups[g])
  BY KeptIsDocument
<1>2. ASSUME NEW m \in Measures
      PROVE  DocumentUse(m, Kept(doc)) = DocumentUse(m, doc)
  <2>1. \A g \in DOMAIN groups : GroupUse(m, g, kept[g]) = GroupUse(m, g, groups[g])
    BY <1>1, SortedKeysSize DEF GroupUse
  <2>2. GroupsUse(m, kept) = GroupsUse(m, groups)
    <3> DEFINE f == [g \in DOMAIN groups |-> GroupUse(m, g, groups[g])]
               h == [g \in DOMAIN kept |-> GroupUse(m, g, kept[g])]
    <3>1. f = h
      BY <1>1, <2>1
    <3> QED
      BY <3>1 DEF GroupsUse, SumOver
  <2> QED
    BY <1>1, <2>2 DEF DocumentUse
<1>3. KeysIn(kept) = KeysIn(groups)
  <2> DEFINE f == [g \in DOMAIN groups |-> Len(groups[g])]
             h == [g \in DOMAIN kept |-> Len(kept[g])]
  <2>1. \A g \in DOMAIN groups : Len(kept[g]) = Len(groups[g])
    BY <1>1, SortedKeysType
  <2>2. f = h
    BY <1>1, <2>1
  <2> QED
    BY <2>2 DEF KeysIn, SumOver
<1>4. DocumentStrings(Kept(doc)) = DocumentStrings(doc)
  <2>1. \A g \in DOMAIN groups : ToSet(kept[g]) = ToSet(groups[g])
    BY <1>1, SortedKeysSize
  <2>2. {ToSet(kept[g]) : g \in DOMAIN kept} = {ToSet(groups[g]) : g \in DOMAIN groups}
    BY <1>1, <2>1
  <2>3. DocumentStrings(Kept(doc)) =
          DOMAIN kept
            \union (UNION {ToSet(kept[g]) : g \in DOMAIN kept})
            \union (UNION {DOMAIN doc.properties[type] : type \in ToSet(PropertyKinds)})
            \union {doc.properties["string"][name] : name \in DOMAIN doc.properties["string"]}
    BY <1>1 DEF DocumentStrings
  <2>4. DocumentStrings(doc) =
          DOMAIN groups
            \union (UNION {ToSet(groups[g]) : g \in DOMAIN groups})
            \union (UNION {DOMAIN doc.properties[type] : type \in ToSet(PropertyKinds)})
            \union {doc.properties["string"][name] : name \in DOMAIN doc.properties["string"]}
    BY DEF DocumentStrings
  <2> QED
    BY <1>1, <2>2, <2>3, <2>4
<1> QED
  BY <1>2, <1>3, <1>4

\* and an index as it is loaded is an index.
LEMMA KeptIsIndex ==
    ASSUME NEW i, IsIndex(i), \A d \in DOMAIN i.docs : IdsFit(i.docs[d].groups), NEW j, j = KeptIndex(i)
    PROVE  /\ IsIndex(j) /\ \A d \in DOMAIN j.docs : IdsFit(j.docs[d].groups)
           /\ j.implicit = i.implicit /\ DOMAIN j.docs = DOMAIN i.docs
           /\ \A d \in DOMAIN i.docs : j.docs[d] = Kept(i.docs[d])
<1> PICK docs : docs = [d \in DOMAIN i.docs |-> Kept(i.docs[d])]
  OBVIOUS
<1>1. j = [implicit |-> i.implicit, docs |-> docs]
  BY DEF KeptIndex
<1>2. \A d \in DOMAIN i.docs : docs[d] = Kept(i.docs[d]) /\ IsDocument(docs[d]) /\ IdsFit(docs[d].groups)
  BY KeptIsDocument DEF IsIndex
<1>3. j.implicit = i.implicit /\ j.docs = docs /\ DOMAIN docs = DOMAIN i.docs /\ docs = [d \in DOMAIN docs |-> docs[d]]
  BY <1>1
<1>4. IsIndex(j)
  BY <1>1, <1>2, <1>3 DEF IsIndex
<1> QED
  BY <1>2, <1>3, <1>4

\* The groups of an index are finitely many.
LEMMA NamedGroups ==
    ASSUME NEW i, IsIndex(i)
    PROVE  IsFiniteSet(GroupsNamed(i)) /\ GroupsNamed(i) \in SUBSET Text
<1> DEFINE S == DOMAIN i.docs
           C == {DOMAIN i.docs[d].groups : d \in S}
<1>1. IsFiniteSet(C)
  <2> DEFINE f == [d \in S |-> DOMAIN i.docs[d].groups]
  <2>1. f \in [S -> C] /\ \A x \in C : \E d \in S : f[d] = x
    OBVIOUS
  <2>2. IsFiniteSet(S)
    BY DEF IsIndex
  <2> HIDE DEF f, C
  <2>3. f \in Surjection(S, C)
    BY <2>1 DEF Surjection
  <2> QED
    BY <2>2, <2>3, FS_Surjection
<1>2. \A x \in C : IsFiniteSet(x) /\ x \subseteq Text
  BY DocumentParts DEF IsIndex, IsGroups
<1>3. GroupsNamed(i) = UNION C
  BY DEF GroupsNamed
<1> HIDE DEF C
<1> QED
  BY <1>1, <1>2, <1>3, FS_UNION

-----------------------------------------------------------------------------
(* A part of an index takes no more than the index                         *)

\* A sum over fewer things, each no greater.
LEMMA SumPart ==
    ASSUME NEW f, IsFiniteSet(DOMAIN f), \A x \in DOMAIN f : f[x] \in Nat,
           NEW g, DOMAIN g \subseteq DOMAIN f, \A x \in DOMAIN g : g[x] \in Nat /\ g[x] <= f[x]
    PROVE  SumFunction(g) \in Nat /\ SumFunction(f) \in Nat /\ SumFunction(g) <= SumFunction(f)
<1> PICK S, T : S = DOMAIN f /\ T = DOMAIN g
  OBVIOUS
<1>1. IsFiniteSet(S) /\ IsFiniteSet(T) /\ T \subseteq S
  BY FS_Subset
<1>2. Units(g, T) \subseteq Units(f, S)
  <2> SUFFICES ASSUME NEW u \in Units(g, T) PROVE u \in Units(f, S)
    OBVIOUS
  <2>1. PICK x \in T : u \in {x} \X (1..g[x])
    BY DEF Units
  <2>2. 1..g[x] \subseteq 1..f[x]
    BY <1>1
  <2>3. u \in {x} \X (1..f[x]) /\ x \in S
    BY <1>1, <2>1, <2>2
  <2> QED
    BY <2>3 DEF Units
<1>3. IsFiniteSet(Units(f, S)) /\ Cardinality(Units(f, S)) \in Nat
  BY <1>1, UnitsAreFinite
<1>4. Cardinality(Units(g, T)) <= Cardinality(Units(f, S)) /\ Cardinality(Units(g, T)) \in Nat
  BY <1>2, <1>3, FS_Subset, FS_CardinalityType
<1>5. SumFunction(f) = Cardinality(Units(f, S)) /\ SumFunction(g) = Cardinality(Units(g, T))
  BY <1>1, SumIsUnits
<1> QED
  BY <1>3, <1>4, <1>5

\* A sum of things that count at least one each.
LEMMA SumOfSome ==
    ASSUME NEW f, IsFiniteSet(DOMAIN f), \A x \in DOMAIN f : f[x] \in Nat \ {0}
    PROVE  Cardinality(DOMAIN f) <= SumFunction(f)
<1> PICK S : S = DOMAIN f
  OBVIOUS
<1> DEFINE h == [x \in S |-> <<x, 1>>]
<1>1. IsFiniteSet(Units(f, S)) /\ Cardinality(Units(f, S)) \in Nat
  BY UnitsAreFinite
<1>2. h \in Injection(S, Units(f, S))
  <2>1. \A x \in S : <<x, 1>> \in Units(f, S)
    <3> SUFFICES ASSUME NEW x \in S PROVE <<x, 1>> \in Units(f, S)
      OBVIOUS
    <3>1. 1 \in 1..f[x]
      OBVIOUS
    <3>2. <<x, 1>> \in {x} \X (1..f[x])
      BY <3>1
    <3> QED
      BY <3>2 DEF Units
  <2>2. \A x, y \in S : h[x] = h[y] => x = y
    OBVIOUS
  <2> QED
    BY <2>1, <2>2 DEF Injection, IsInjective
<1> HIDE DEF h
<1>3. Cardinality(S) <= Cardinality(Units(f, S))
  BY <1>1, <1>2, FS_Injection
<1> QED
  BY <1>3, SumIsUnits

PartOfGroups(part, whole) ==
    /\ DOMAIN part \subseteq DOMAIN whole
    /\ \A g \in DOMAIN part :
         /\ Len(part[g]) <= Len(whole[g])
         /\ \A i \in 1..Len(part[g]) : part[g][i] = whole[g][i]

PartOfProperties(part, whole) ==
    \A type \in ToSet(PropertyKinds) :
        /\ DOMAIN part[type] \subseteq DOMAIN whole[type]
        /\ \A name \in DOMAIN part[type] : part[type][name] = whole[type][name]

\* Fewer groups, with as many keys each, use no more.
LEMMA GroupsPart ==
    ASSUME NEW part, NEW whole, IsGroups(part), IsGroups(whole), PartOfGroups(part, whole),
           NEW m \in Measures
    PROVE  GroupsUse(m, part) <= GroupsUse(m, whole) /\ KeysIn(part) <= KeysIn(whole)
<1>1. \A g \in DOMAIN part : /\ g \in DOMAIN whole /\ g \in Text
                             /\ part[g] \in Seq(Text) /\ whole[g] \in Seq(Text)
                             /\ Len(part[g]) <= Len(whole[g])
                             /\ \A i \in 1..Len(part[g]) : part[g][i] = whole[g][i]
  BY DEF IsGroups, PartOfGroups
<1>2. ASSUME NEW g \in Text, NEW a \in Seq(Text), NEW b \in Seq(Text), Len(a) <= Len(b),
             \A i \in 1..Len(a) : a[i] = b[i]
      PROVE  GroupUse(m, g, a) <= GroupUse(m, g, b)
  <2> DEFINE f == [i \in DOMAIN b |-> Len(b[i]) + Extra(m, g)]
             h == [i \in DOMAIN a |-> Len(a[i]) + Extra(m, g)]
  <2>1. /\ Len(a) \in Nat /\ Len(b) \in Nat /\ DOMAIN a = 1..Len(a) /\ DOMAIN b = 1..Len(b)
        /\ DOMAIN a \subseteq DOMAIN b
    BY <1>2
  <2>2. IsFiniteSet(1..Len(b))
    BY <2>1, FS_Interval
  <2>3. \A i \in 1..Len(b) : Len(b[i]) \in Nat /\ Extra(m, g) \in Nat
    BY WordType
  <2>4. /\ IsFiniteSet(DOMAIN f) /\ \A i \in DOMAIN f : f[i] \in Nat
        /\ DOMAIN h \subseteq DOMAIN f /\ \A i \in DOMAIN h : h[i] \in Nat /\ h[i] <= f[i]
    BY <1>2, <2>1, <2>2, <2>3
  <2>5. KeysUse(m, g, a) = SumFunction(h) /\ KeysUse(m, g, b) = SumFunction(f)
    BY DEF KeysUse, SumOver
  <2> HIDE DEF f, h
  <2>6. SumFunction(h) \in Nat /\ SumFunction(f) \in Nat /\ SumFunction(h) <= SumFunction(f)
    BY <2>4, SumPart
  <2> PICK l, w : l = Len(g) /\ w = 2 * Word(m)
    OBVIOUS
  <2>7. l \in Nat /\ w \in Nat
    BY TextLength, WordType
  <2> QED
    BY <2>5, <2>6, <2>7 DEF GroupUse
<1>3. GroupsUse(m, part) <= GroupsUse(m, whole)
  <2> DEFINE f == [g \in DOMAIN whole |-> GroupUse(m, g, whole[g])]
             h == [g \in DOMAIN part |-> GroupUse(m, g, part[g])]
  <2>1. \A g \in DOMAIN whole : GroupUse(m, g, whole[g]) \in Nat
    BY GroupUseType DEF IsGroups
  <2>2. \A g \in DOMAIN part : GroupUse(m, g, part[g]) \in Nat
    BY <1>1, GroupUseType
  <2>3. /\ IsFiniteSet(DOMAIN f) /\ \A g \in DOMAIN f : f[g] \in Nat
        /\ DOMAIN h \subseteq DOMAIN f /\ \A g \in DOMAIN h : h[g] \in Nat /\ h[g] <= f[g]
    BY <1>1, <1>2, <2>1, <2>2 DEF IsGroups
  <2>4. GroupsUse(m, part) = SumFunction(h) /\ GroupsUse(m, whole) = SumFunction(f)
    BY DEF GroupsUse, SumOver
  <2> HIDE DEF f, h
  <2> QED
    BY <2>3, <2>4, SumPart
<1>4. KeysIn(part) <= KeysIn(whole)
  <2> DEFINE f == [g \in DOMAIN whole |-> Len(whole[g])]
             h == [g \in DOMAIN part |-> Len(part[g])]
  <2>1. /\ IsFiniteSet(DOMAIN f) /\ \A g \in DOMAIN f : f[g] \in Nat
        /\ DOMAIN h \subseteq DOMAIN f /\ \A g \in DOMAIN h : h[g] \in Nat /\ h[g] <= f[g]
    BY <1>1 DEF IsGroups
  <2>2. KeysIn(part) = SumFunction(h) /\ KeysIn(whole) = SumFunction(f)
    BY DEF KeysIn, SumOver
  <2> HIDE DEF f, h
  <2> QED
    BY <2>1, <2>2, SumPart
<1> QED
  BY <1>3, <1>4

\* So do fewer properties,
LEMMA PropertiesPart ==
    ASSUME NEW part, NEW whole, IsProperties(part), IsProperties(whole), PartOfProperties(part, whole),
           NEW m \in Measures
    PROVE  PropertiesUse(m, part) <= PropertiesUse(m, whole) /\ EntriesIn(part) <= EntriesIn(whole)
<1> DEFINE K == ToSet(PropertyKinds)
<1>1. ASSUME NEW type \in K
      PROVE  /\ IsKind(type, part[type]) /\ IsKind(type, whole[type])
             /\ KindUse(m, type, part[type]) <= KindUse(m, type, whole[type])
             /\ Cardinality(DOMAIN part[type]) <= Cardinality(DOMAIN whole[type])
  <2> PICK a, b : a = part[type] /\ b = whole[type]
    OBVIOUS
  <2>1. IsKind(type, a) /\ IsKind(type, b) /\ DOMAIN a \subseteq DOMAIN b /\ \A n \in DOMAIN a : a[n] = b[n]
    BY DEF IsProperties, PartOfProperties
  <2> DEFINE f == [n \in DOMAIN b |-> Len(n) + 2 * Word(m) + ValueUse(type, b[n])]
             h == [n \in DOMAIN a |-> Len(n) + 2 * Word(m) + ValueUse(type, a[n])]
  <2>2. \A n \in DOMAIN b : Len(n) + 2 * Word(m) + ValueUse(type, b[n]) \in Nat
    <3> SUFFICES ASSUME NEW n \in DOMAIN b PROVE Len(n) + 2 * Word(m) + ValueUse(type, b[n]) \in Nat
      OBVIOUS
    <3>1. n \in Text /\ b[n] \in PropertyValues(type)
      BY <2>1 DEF IsKind
    <3>2. Len(n) \in Nat /\ 2 * Word(m) \in Nat /\ ValueUse(type, b[n]) \in Nat
      BY <3>1, TextLength, WordType, ValueUseType
    <3> QED
      BY <3>2
  <2>3. /\ IsFiniteSet(DOMAIN f) /\ \A n \in DOMAIN f : f[n] \in Nat
        /\ DOMAIN h \subseteq DOMAIN f /\ \A n \in DOMAIN h : h[n] \in Nat /\ h[n] = f[n]
    BY <2>1, <2>2 DEF IsKind
  <2>4. KindUse(m, type, a) = SumFunction(h) /\ KindUse(m, type, b) = SumFunction(f)
    BY DEF KindUse, SumOver
  <2> HIDE DEF f, h
  <2>5. \A n \in DOMAIN h : h[n] \in Nat /\ h[n] <= f[n]
    BY <2>3
  <2>6. KindUse(m, type, a) <= KindUse(m, type, b)
    BY <2>3, <2>4, <2>5, SumPart
  <2>7. Cardinality(DOMAIN a) <= Cardinality(DOMAIN b)
    BY <2>1, FS_Subset DEF IsKind
  <2> QED
    BY <2>1, <2>6, <2>7
<1>2. PropertiesUse(m, part) <= PropertiesUse(m, whole)
  <2> DEFINE f == [type \in K |-> KindUse(m, type, whole[type])]
             h == [type \in K |-> KindUse(m, type, part[type])]
  <2>1. \A type \in K : KindUse(m, type, whole[type]) \in Nat /\ KindUse(m, type, part[type]) \in Nat
    BY <1>1, KindUseType
  <2>2. /\ IsFiniteSet(DOMAIN f) /\ \A type \in DOMAIN f : f[type] \in Nat
        /\ DOMAIN h \subseteq DOMAIN f /\ \A type \in DOMAIN h : h[type] \in Nat /\ h[type] <= f[type]
    BY <1>1, <2>1, KindsAre
  <2>3. PropertiesUse(m, part) = SumFunction(h) /\ PropertiesUse(m, whole) = SumFunction(f)
    BY DEF PropertiesUse, SumOver
  <2> HIDE DEF f, h
  <2> QED
    BY <2>2, <2>3, SumPart
<1>3. EntriesIn(part) <= EntriesIn(whole)
  <2> DEFINE f == [type \in K |-> Cardinality(DOMAIN whole[type])]
             h == [type \in K |-> Cardinality(DOMAIN part[type])]
  <2>1. \A type \in K : Cardinality(DOMAIN whole[type]) \in Nat /\ Cardinality(DOMAIN part[type]) \in Nat
    BY <1>1, FS_CardinalityType DEF IsKind
  <2>2. /\ IsFiniteSet(DOMAIN f) /\ \A type \in DOMAIN f : f[type] \in Nat
        /\ DOMAIN h \subseteq DOMAIN f /\ \A type \in DOMAIN h : h[type] \in Nat /\ h[type] <= f[type]
    BY <1>1, <2>1, KindsAre
  <2>3. EntriesIn(part) = SumFunction(h) /\ EntriesIn(whole) = SumFunction(f)
    BY DEF EntriesIn, SumOver
  <2> HIDE DEF f, h
  <2> QED
    BY <2>2, <2>3, SumPart
<1> QED
  BY <1>2, <1>3

\* and fewer names.
LEMMA NamesPart ==
    ASSUME NEW part, NEW whole \in SUBSET Text, IsFiniteSet(whole), part \subseteq whole, NEW m \in Measures
    PROVE  NamesUse(m, part) <= NamesUse(m, whole)
<1>1. CASE m = "position"
  <2>1. NamesUse(m, part) = 0 /\ NamesUse(m, whole) = 0
    BY <1>1 DEF NamesUse
  <2> QED
    BY <2>1
<1>2. CASE m # "position"
  <2> DEFINE f == [g \in whole |-> Len(g)]
             h == [g \in part |-> Len(g)]
  <2>1. /\ IsFiniteSet(DOMAIN f) /\ \A g \in DOMAIN f : f[g] \in Nat
        /\ DOMAIN h \subseteq DOMAIN f /\ \A g \in DOMAIN h : h[g] \in Nat /\ h[g] <= f[g]
    BY TextLength
  <2>2. NamesUse(m, part) = SumFunction(h) /\ NamesUse(m, whole) = SumFunction(f)
    BY <1>2 DEF NamesUse, SumOver
  <2> HIDE DEF f, h
  <2> QED
    BY <2>1, <2>2, SumPart
<1> QED
  BY <1>1, <1>2

\* A document that is not in a part of the index leaves room for it.
LEMMA IndexRoom ==
    ASSUME NEW i, IsIndex(i), NEW j, IsIndex(j), i.implicit = j.implicit,
           DOMAIN i.docs \subseteq DOMAIN j.docs, \A d \in DOMAIN i.docs : i.docs[d] = j.docs[d],
           NEW d \in DOMAIN j.docs, d \notin DOMAIN i.docs, NEW m \in Measures
    PROVE  /\ IndexUse(m, i) + DocumentUse(m, j.docs[d]) <= IndexUse(m, j)
           /\ KeyCount(i) + KeysIn(j.docs[d].groups) <= KeyCount(j)
           /\ PropertyCount(i) + EntriesIn(j.docs[d].properties) <= PropertyCount(j)
<1> DEFINE S == DOMAIN i.docs
           T == DOMAIN j.docs
<1>1. IsFiniteSet(T) /\ S \subseteq T /\ d \in T /\ d \notin S /\ \A e \in S : i.docs[e] = j.docs[e]
  BY DEF IsIndex
<1>2. IndexUse(m, i) + DocumentUse(m, j.docs[d]) <= IndexUse(m, j)
  <2> DEFINE f == [e \in T |-> DocumentUse(m, j.docs[e])]
             h == [e \in S |-> DocumentUse(m, i.docs[e])]
  <2>1. \A e \in T : DocumentUse(m, j.docs[e]) \in Nat
    BY DocumentUseType DEF IsIndex
  <2>2. /\ IsFiniteSet(DOMAIN f) /\ \A e \in DOMAIN f : f[e] \in Nat
        /\ DOMAIN h \subseteq DOMAIN f /\ \A e \in DOMAIN h : h[e] = f[e]
        /\ d \in DOMAIN f /\ d \notin DOMAIN h /\ f[d] = DocumentUse(m, j.docs[d])
    BY <1>1, <2>1
  <2> PICK w : w = 2 * Word(m) + Len(i.implicit)
    OBVIOUS
  <2>3. IndexUse(m, i) = w + SumFunction(h) /\ IndexUse(m, j) = w + SumFunction(f)
    BY DEF IndexUse, SumOver
  <2>4. w \in Nat
    <3> PICK l, k : l = Len(i.implicit) /\ k = 2 * Word(m)
      OBVIOUS
    <3>1. l \in Nat /\ k \in Nat
      BY TextLength, WordType DEF IsIndex
    <3> QED
      BY <3>1
  <2> HIDE DEF f, h, S, T
  <2>5. /\ SumFunction(f) \in Nat /\ SumFunction(h) \in Nat /\ f[d] \in Nat
        /\ SumFunction(h) + f[d] <= SumFunction(f)
    BY <2>2, SumRoom
  <2> QED
    BY <2>2, <2>3, <2>4, <2>5
<1>3. KeyCount(i) + KeysIn(j.docs[d].groups) <= KeyCount(j)
  <2> DEFINE f == [e \in T |-> KeysIn(j.docs[e].groups)]
             h == [e \in S |-> KeysIn(i.docs[e].groups)]
  <2>1. \A e \in T : KeysIn(j.docs[e].groups) \in Nat
    BY CountsType
  <2>2. /\ IsFiniteSet(DOMAIN f) /\ \A e \in DOMAIN f : f[e] \in Nat
        /\ DOMAIN h \subseteq DOMAIN f /\ \A e \in DOMAIN h : h[e] = f[e]
        /\ d \in DOMAIN f /\ d \notin DOMAIN h /\ f[d] = KeysIn(j.docs[d].groups)
    BY <1>1, <2>1
  <2>3. KeyCount(i) = SumFunction(h) /\ KeyCount(j) = SumFunction(f)
    BY CountsType
  <2> HIDE DEF f, h, S, T
  <2> QED
    BY <2>2, <2>3, SumRoom
<1>4. PropertyCount(i) + EntriesIn(j.docs[d].properties) <= PropertyCount(j)
  <2> DEFINE f == [e \in T |-> EntriesIn(j.docs[e].properties)]
             h == [e \in S |-> EntriesIn(i.docs[e].properties)]
  <2>1. \A e \in T : EntriesIn(j.docs[e].properties) \in Nat
    BY CountsType
  <2>2. /\ IsFiniteSet(DOMAIN f) /\ \A e \in DOMAIN f : f[e] \in Nat
        /\ DOMAIN h \subseteq DOMAIN f /\ \A e \in DOMAIN h : h[e] = f[e]
        /\ d \in DOMAIN f /\ d \notin DOMAIN h /\ f[d] = EntriesIn(j.docs[d].properties)
    BY <1>1, <2>1
  <2>3. PropertyCount(i) = SumFunction(h) /\ PropertyCount(j) = SumFunction(f)
    BY CountsType
  <2> HIDE DEF f, h, S, T
  <2> QED
    BY <2>2, <2>3, SumRoom
<1> QED
  BY <1>2, <1>3, <1>4

\* The charge for a group that its document and its reverse index do not have.
LEMMA NewNameIsOnce ==
    ASSUME NEW m \in Measures, NEW names \in SUBSET Text, IsFiniteSet(names),
           NEW more \in SUBSET Text, IsFiniteSet(more), NEW g \in Text, g \notin more
    PROVE  NamesUse(m, names \union more \union {g}) = NamesUse(m, names \union more) + NewNameUse(m, g, names)
<1> PICK all : all = names \union more
  OBVIOUS
<1>1. all \in SUBSET Text /\ IsFiniteSet(all)
  BY FS_Union
<1>2. NamesUse(m, all) \in Nat
  BY <1>1, NamesUseType
<1>3. CASE g \in names
  <2>1. all \union {g} = all /\ NewNameUse(m, g, names) = 0
    BY <1>3 DEF NewNameUse
  <2> QED
    BY <1>2, <2>1
<1>4. CASE g \notin names
  <2>1. NamesUse(m, all \union {g}) = NamesUse(m, all) + NewNameUse(m, g, all)
    BY <1>1, <1>4, NamesUseMore
  <2>2. NewNameUse(m, g, all) = NewNameUse(m, g, names)
    BY <1>4 DEF NewNameUse
  <2> QED
    BY <2>1, <2>2
<1> QED
  BY <1>3, <1>4
=============================================================================
