---------------------------- MODULE MCCollections ----------------------------
(* Two objects of any classes, two values, and unsigned integers up to 7.    *)
EXTENDS Collections

CONSTANTS c1, c2
=============================================================================
