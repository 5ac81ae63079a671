----------------------------- MODULE MCIndexer ------------------------------
(* Small instances of Indexer: the objects d1 and d1x are two documents of *)
(* one ID, and k1 and k1x two key objects that are equal (or collide).     *)
EXTENDS Indexer, TLC

CONSTANTS d1, d1x, d2, k1, k1x, k2, k3, A, B, h1, h2, i1, i2

MCIdOf == [d \in Docs |-> IF d = d2 THEN i2 ELSE i1]
MCGroupOf == [k \in Keys |-> IF k = k3 THEN B ELSE A]
MCHashOf == [k \in Keys |-> IF k = k2 THEN h2 ELSE h1]

\* The two documents of ID i1 and the two equal keys are interchangeable.
MCSymmetry == {p @@ q : p \in Permutations({d1, d1x}), q \in Permutations({k1, k1x})}
=============================================================================
