--------------------------- MODULE MCSnapshotFile ---------------------------
(* Small instances of SnapshotFile and LoadRace: two or three cells a      *)
(* checkpoint, so that a write can be short, two checkpoints can have one  *)
(* length, and a copy can leave cells of a longer one behind it.           *)
EXTENDS LoadRace, TLC

CONSTANTS s1, s2, l1, n1, n2

MCSize == [f \in Files |-> IF f = Old THEN 3 ELSE IF f[1] = s1 THEN 2 ELSE 3]

\* Bound: two savers without other programs, or one with one temporary name
\* and others that copy its checkpoint or the first.
MCCopiesWithOneSaver ==
    copies' > 0 => /\ saves'[s2] = 0 /\ dir'[n2] = NoFile
                   /\ copying' \in {NoFile} \union ({Old, <<s1, 1>>} \X Files \X Nat)

MCNext == LoadRaceNext /\ MCCopiesWithOneSaver

MCSpec == LoadRaceInit /\ [][MCNext]_<<vars, held>> /\ Fairness
=============================================================================
