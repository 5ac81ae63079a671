----------------------------- MODULE MCSharedKeys -----------------------------
(* Three documents with a key object each, and two keywords.               *)
EXTENDS SharedKeys

CONSTANTS d1, d2, d3, k1, k2, k3

MCKeyOf == [d \in Docs |-> IF d = d1 THEN k1 ELSE IF d = d2 THEN k2 ELSE k3]
=============================================================================
