------------------------------ MODULE MCSession ------------------------------
(* Small instances of Session: two cells a checkpoint, or three, so that   *)
(* a write can be short and a read can fall between two.                   *)
EXTENDS Session

CONSTANTS s1, l1

MCSize == [f \in Files |-> IF f = Old THEN 3 ELSE 2]
=============================================================================
