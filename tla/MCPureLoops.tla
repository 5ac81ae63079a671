----------------------------- MODULE MCPureLoops -----------------------------
(* One call of levenshteinDistance or of snapshotChecksum: loops over what *)
(* only they can see.  While one runs, the other is a call that has ended. *)
EXTENDS Levenshtein, Checksum

CONSTANTS a, b

MCCycles == {<<0>>, <<3>>, <<1, 2>>, <<0, 1, 2, 3, 3>>}

LoopsInit ==
    \/ /\ Init
       /\ size = 0 /\ bytes = <<>> /\ changed = 0 /\ position = 0 /\ v = <<>>
       /\ result = [saved |-> 0, read |-> 1] /\ stage = "done" /\ consumed = <<>>
    \/ /\ ChecksumInit
       /\ source = <<>> /\ target = <<>> /\ column = [j \in {0} |-> 0]
       /\ x = 0 /\ y = 0 /\ lastDiagonal = 0

LoopsNext ==
    \/ Next /\ UNCHANGED checksumVars
    \/ ChecksumNext /\ UNCHANGED vars

LoopsSpec == LoopsInit /\ [][LoopsNext]_<<vars, checksumVars>>
=============================================================================
