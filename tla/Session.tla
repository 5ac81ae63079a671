------------------------------- MODULE Session -------------------------------
(***************************************************************************)
(* An application that keeps its index in a snapshot: it loads the path    *)
(* when it starts, changes the index, saves it, and may die or lose power  *)
(* at any step (src/yuca/snapshot.cpp, docs/manual.md).  It is one saver   *)
(* and one loader of SnapshotFile; no other program writes the file.       *)
(*                                                                         *)
(* The contents of an index are the set of changes that went into it.  All *)
(* that the application changes between two saves is one change, named by  *)
(* the file of the second.                                                 *)
(***************************************************************************)
EXTENDS SnapshotFile

ASSUME SessionAssumption ==
    /\ \A p, q \in Savers : p = q
    /\ \A l, m \in Loaders : l = m

VARIABLES
    up,        \* the application has its index
    memory,    \* the contents of the index
    contents,  \* the contents saved in each checkpoint
    acked      \* history: the changes in a save that returned

sessionVars == <<up, memory, contents, acked>>
allVars == <<vars, sessionVars>>

Contents(f) == IF f = NoFile THEN {} ELSE contents[f]

SessionInit ==
    /\ Init
    /\ up = FALSE
    /\ memory = {}
    /\ contents = [f \in Files |-> {f} \intersect {Old}]
    /\ acked = Contents(dir[Path])

-----------------------------------------------------------------------------
(* The application (external to the library) calls load and save. *)

\* A load that throws is tried again.  Without a file the index starts empty.
StartEmpty ==
    /\ ~up
    /\ dir[Path] = NoFile
    /\ \A l \in Loaders : LoadEnded(l)
    /\ up' = TRUE
    /\ memory' = {}
    /\ UNCHANGED <<vars, contents, acked>>

LoadStep(l) ==
    /\ ~up
    /\ Open(l) \/ Read(l) \/ LoadFails(l)
    /\ UNCHANGED sessionVars

\* load returns an index with what its payload was encoded from.
LoadReturns(l) ==
    /\ EndRead(l)
    /\ up' = TRUE
    /\ memory' = contents[buffer[l][1][1]]
    /\ UNCHANGED <<contents, acked>>

\* The index is changed, and encoded by save.
ChangeAndSave(p) ==
    /\ up
    /\ BeginSave(p)
    /\ memory' = memory \union {FileOf(p)'}
    /\ contents' = [contents EXCEPT ![FileOf(p)'] = memory']
    /\ UNCHANGED <<up, acked>>

SaveStep(p) ==
    /\ SaverStep(p)
    /\ acked' = IF spc'[p] = "saved" /\ spc[p] # "saved"
                THEN acked \union contents[FileOf(p)] ELSE acked
    /\ UNCHANGED <<up, memory, contents>>

\* The application is killed, in a save or outside, and its memory is gone.
Die ==
    /\ up
    /\ \/ \E p \in Savers : Kill(p)
       \/ (\A p \in Savers : SaveEnded(p)) /\ UNCHANGED vars
    /\ up' = FALSE
    /\ memory' = {}
    /\ UNCHANGED <<contents, acked>>

\* "Completed saves use atomic checkpoint replacement, not [...] directory-entry
\* durability across power loss": what is promised is the directory on disk.
LosePower ==
    /\ PowerLoss
    /\ up' = FALSE
    /\ memory' = {}
    /\ acked' = acked \intersect Contents(diskDir[Path])
    /\ UNCHANGED contents

WritesBack == WriteBack /\ UNCHANGED sessionVars

SessionNext ==
    \/ StartEmpty
    \/ \E l \in Loaders : LoadStep(l) \/ LoadReturns(l)
    \/ \E p \in Savers : ChangeAndSave(p) \/ SaveStep(p)
    \/ Die
    \/ LosePower
    \/ WritesBack

SessionSpec == SessionInit /\ [][SessionNext]_allVars

-----------------------------------------------------------------------------
(* Properties *)

\* While it runs, the application's index has every change of every save that
\* returned: not one is lost over kills, restarts, saves and loads that fail and
\* power losses, other than what the directory on disk had not got yet.
NothingSavedIsLost == up => acked \subseteq memory
=============================================================================
