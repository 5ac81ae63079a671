----------------------------- MODULE MCIndexCopy ------------------------------
(* Three documents, d1 and d1x of one ID, with keys of one group, k1 and   *)
(* k1x equal, and an object for each copy: of d1 or d1x, and of d2.        *)
EXTENDS IndexCopy

CONSTANTS d1, d1x, d2, c1, c2, k1, k1x, k2, q1, q1x, q2, r1, r1x, r2, h1, h2, i1, i2

MCIdOf == [d \in Docs |-> IF d \in {d2, c2} THEN i2 ELSE i1]
MCGroupOf == [k \in Keys |-> CHOOSE g \in Groups : TRUE]
MCHashOf == [k \in Keys |-> IF k \in {k2, q2, r2} THEN h2 ELSE h1]
MCDocCopy == [d \in Originals |-> IF d = d2 THEN c2 ELSE c1]
MCKeyCopy == [t \in Ids \X OwnKeys |->
                CASE t[2] = k1 -> IF t[1] = i1 THEN q1 ELSE r1
                  [] t[2] = k1x -> IF t[1] = i1 THEN q1x ELSE r1x
                  [] t[2] = k2 -> IF t[1] = i1 THEN q2 ELSE r2]
=============================================================================
