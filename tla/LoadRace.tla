------------------------------ MODULE LoadRace ------------------------------
(***************************************************************************)
(* Indexer::load while other programs rewrite in place the file that it    *)
(* has opened: SnapshotFile with a record of what the file was meanwhile.  *)
(*                                                                         *)
(* load notes the file's length, reads it cell by cell and asks at the end *)
(* whether it is still over where it was ("snapshot read failed or file    *)
(* changed", src/yuca/snapshot.cpp).  It has no lock.  A program that      *)
(* rewrites the file gets to its end, or falls with the machine.           *)
(***************************************************************************)
EXTENDS SnapshotFile

VARIABLE
    held    \* history: the checkpoints that the file each loader opened has
            \* been since then

HeldNow(l) == {f \in Files : data[opened[l]] = Checkpoint(f)}

RecordHeld ==
    held' = [l \in Loaders |->
                CASE lpc'[l] = "read" -> (IF lpc[l] = "read" THEN held[l] ELSE {}) \union HeldNow(l)'
                  [] lpc'[l] = "loaded" -> held[l]
                  [] OTHER -> {}]

LoadRaceInit == Init /\ held = [l \in Loaders |-> {}]

LoadRaceNext == Next /\ RecordHeld

LoadRaceSpec == LoadRaceInit /\ [][LoadRaceNext]_<<vars, held>>

-----------------------------------------------------------------------------
(* Properties *)

\* A load that throws nothing is atomic, although it reads the file piece by
\* piece: what it returns is a checkpoint which the file it opened was, from
\* beginning to end, at one moment while it ran.
LoadIsAtomic ==
    \A l \in Loaders : lpc[l] = "loaded" => \E f \in held[l] : buffer[l] = Checkpoint(f)
=============================================================================
