------------------------------ MODULE MCSearch ------------------------------
(* Small instances of Search: groups A (implicit) and B and keywords v and *)
(* w, with every query of at most MaxTokens tokens, or with a few queries  *)
(* that give the documents equal and different scores.                     *)
EXTENDS Search

CONSTANTS d1, d2, d3, k1, k2, k3, A, B, h1, h2, v, w, MaxTokens

MCIdOf == [d \in Docs |-> IF d = d1 THEN 1 ELSE IF d = d2 THEN 2 ELSE 3]
MCGroupOf == [k \in Keys |-> IF k = k3 THEN B ELSE A]
MCHashOf == [k \in Keys |-> IF k = k2 THEN h2 ELSE h1]
MCWordHash == [t \in Groups \X Words |-> IF t[2] = v THEN h1 ELSE h2]
MCQueries == UNION {[1..n -> Groups \union Words] : n \in 0..MaxTokens}
MCRankedQueries == {<<v>>, <<v, w>>, <<v, v, w>>}
=============================================================================
