---------------------------- MODULE SnapshotFile ----------------------------
(***************************************************************************)
(* Indexer::save and Indexer::load on one path (src/yuca/snapshot.cpp),    *)
(* called by several processes, with the file system they run on.          *)
(*                                                                         *)
(* A process may be killed and the machine may lose power between any two  *)
(* system calls, and any call may fail.  A file is a sequence of cells:    *)
(* the first stands for the header, which names the length and checksum of *)
(* the payload, the others for the payload.  Cell i of the checkpoint that *)
(* file f was created for is <<f, i>>.  XXH64 is taken to tell apart any   *)
(* two payloads that meet here.                                            *)
(***************************************************************************)
EXTENDS Integers, Sequences

CONSTANTS
    Savers,     \* processes that save
    Loaders,    \* processes that load
    MaxSaves,   \* bound: save calls of one saver
    MaxCopies,  \* bound: times a foreign program rewrites the file in place
    Old,        \* the file under the path at the start
    Size,       \* the cells of each checkpoint
    Names,      \* temporary names mkstemp can make up
    Path,       \* the checkpoint's name
    NoFile,     \* no directory entry
    NoName      \* an empty TemporaryFile::path

Files == {Old} \union (Savers \X (1..MaxSaves))

ASSUME FilesAssumption ==
    /\ MaxSaves \in Nat /\ MaxCopies \in Nat
    /\ Old \notin Savers \X (1..MaxSaves)
    /\ NoFile \notin Files \union (Files \X Files \X Nat)
    /\ Path \notin Names /\ NoName \notin Names \union {Path}
    /\ Size \in [Files -> Nat \ {0}]

VARIABLES
    dir,        \* the directory: the file each name names
    diskDir,    \* the directory a power loss leaves
    data,       \* the cells of each file
    synced,     \* the files whose cells a power loss leaves
    spc,        \* the step each saver is about to take
    saves,      \* its calls of save so far
    path,       \* TemporaryFile::path
    abandoned,  \* history: files whose saver died before it was done, or could
                \* not remove them
    lpc,        \* the step each loader is about to take
    opened,     \* the file it opened
    length,     \* the length the file had then
    buffer,     \* the cells read so far
    copies,     \* rewrites in place so far
    copying     \* the rewrite under way, if any: the checkpoint, the file it
                \* is written into and the cells written

diskVars == <<dir, diskDir, data, synced>>
saverVars == <<spc, saves, path, abandoned>>
loaderVars == <<lpc, opened, length, buffer>>
copyVars == <<copies, copying>>
vars == <<diskVars, saverVars, loaderVars, copyVars>>

Checkpoint(f) == [i \in 1..Size[f] |-> <<f, i>>]

\* The file of a saver's current call: mkstemp creates a new one each time.
FileOf(p) == <<p, saves[p]>>

SaveEnded(p) == spc[p] \in {"idle", "saved", "failed"}
LoadEnded(l) == lpc[l] \in {"idle", "loaded", "rejected"}

Init ==
    /\ dir \in {[n \in Names \union {Path} |-> IF n = Path THEN f ELSE NoFile] : f \in {NoFile, Old}}
    /\ diskDir = dir
    /\ data = [f \in Files |-> IF f = Old THEN Checkpoint(f) ELSE <<>>]
    /\ synced = {Old}
    /\ spc = [p \in Savers |-> "idle"]
    /\ saves = [p \in Savers |-> 0]
    /\ path = [p \in Savers |-> NoName]
    /\ abandoned = {}
    /\ lpc = [l \in Loaders |-> "idle"]
    /\ opened = [l \in Loaders |-> NoFile]
    /\ length = [l \in Loaders |-> 0]
    /\ buffer = [l \in Loaders |-> <<>>]
    /\ copies = 0
    /\ copying = NoFile

-----------------------------------------------------------------------------
(* Indexer::save *)

SaverGoto(p, step) == spc' = [spc EXCEPT ![p] = step]

\* The index is encoded before any file is touched; encoding may throw.
BeginSave(p) ==
    /\ SaveEnded(p)
    /\ saves[p] < MaxSaves
    /\ saves' = [saves EXCEPT ![p] = @ + 1]
    /\ \E step \in {"create", "failed"} : SaverGoto(p, step)
    /\ UNCHANGED <<diskVars, path, abandoned, loaderVars, copyVars>>

\* mkstemp creates a file under a name nobody uses.  If its name cannot be
\* stored (path.assign throws) the file is removed again.
CreateTemporary(p) ==
    /\ spc[p] = "create"
    /\ \E n \in Names :
        /\ dir[n] = NoFile
        /\ dir' = [dir EXCEPT ![n] = FileOf(p)]
        /\ path' = [path EXCEPT ![p] = n]
    /\ \E step \in {"write", "cleanup"} : SaverGoto(p, step)
    /\ UNCHANGED <<diskDir, data, synced, saves, abandoned, loaderVars, copyVars>>

CreateFails(p) ==
    /\ spc[p] = "create"
    /\ SaverGoto(p, "failed")
    /\ UNCHANGED <<diskVars, saves, path, abandoned, loaderVars, copyVars>>

\* One write() of the loop, which may be short.  (An interrupted one, EINTR,
\* changes nothing and is tried again.)
Write(p) ==
    LET f == FileOf(p) IN
    /\ spc[p] = "write"
    /\ \E upTo \in (Len(data[f]) + 1)..Size[f] :
        data' = [data EXCEPT ![f] = SubSeq(Checkpoint(f), 1, upTo)]
    /\ UNCHANGED <<dir, diskDir, synced, saverVars, loaderVars, copyVars>>

AllWritten(p) == Len(data[FileOf(p)]) = Size[FileOf(p)]

EndWrite(p) ==
    /\ spc[p] = "write"
    /\ AllWritten(p)
    /\ SaverGoto(p, "sync")
    /\ UNCHANGED <<diskVars, saves, path, abandoned, loaderVars, copyVars>>

\* Mutant: the file is only closed.
NothingSynced(p) == {}

\* fsync
NewlySynced(p) == {FileOf(p)}

\* fsync and close
SyncAndClose(p) ==
    /\ spc[p] = "sync"
    /\ synced' = synced \union NewlySynced(p)
    /\ SaverGoto(p, "rename")
    /\ UNCHANGED <<dir, diskDir, data, saves, path, abandoned, loaderVars, copyVars>>

\* Mutant: the name is not forgotten after the rename.
PathKept(p) == path[p]

\* path.clear()
PathCleared(p) == NoName

\* rename() replaces the path's entry in one step; the temporary name is then
\* cleared, so that the destructor does not remove it.
Rename(p) ==
    /\ spc[p] = "rename"
    /\ dir[path[p]] # NoFile
    /\ dir' = [dir EXCEPT ![Path] = dir[path[p]], ![path[p]] = NoFile]
    /\ path' = [path EXCEPT ![p] = PathCleared(p)]
    /\ SaverGoto(p, "cleanup")
    /\ UNCHANGED <<diskDir, data, synced, saves, abandoned, loaderVars, copyVars>>

\* write, fsync, close or rename fails.
PublishFails(p) ==
    /\ spc[p] \in {"write", "sync", "rename"}
    /\ SaverGoto(p, "cleanup")
    /\ UNCHANGED <<diskVars, saves, path, abandoned, loaderVars, copyVars>>

\* Mutant: a save that failed is tried again until it succeeds.
RetriedEnd(p) == IF path[p] = NoName THEN "saved" ELSE "create"

\* Mutant: the exception of a failed save is swallowed.
SwallowedEnd(p) == "saved"

\* How a call that unwinds ends: the name is gone if the file was renamed.
SaveEnd(p) == IF path[p] = NoName THEN "saved" ELSE "failed"

\* Mutant: the file of a failed save is left behind.
RemoveNothing(p) == dir

\* std::remove(path)
RemovePath(p) == [n \in DOMAIN dir |-> IF n = path[p] THEN NoFile ELSE dir[n]]

\* The file of a save that did not get to rename it is removed, by
\* ~TemporaryFile or, when its name could not be stored, by the constructor.
Cleanup(p) ==
    /\ spc[p] = "cleanup"
    /\ SaverGoto(p, SaveEnd(p))
    /\ dir' = RemovePath(p)
    /\ path' = [path EXCEPT ![p] = NoName]
    /\ UNCHANGED <<diskDir, data, synced, saves, abandoned, loaderVars, copyVars>>

\* The system does not remove it: neither place looks at what std::remove returns.
RemoveFails(p) ==
    /\ spc[p] = "cleanup"
    /\ path[p] # NoName
    /\ SaverGoto(p, SaveEnd(p))
    /\ path' = [path EXCEPT ![p] = NoName]
    /\ abandoned' = abandoned \union {FileOf(p)}
    /\ UNCHANGED <<diskVars, saves, loaderVars, copyVars>>

SaverStep(p) ==
    \/ CreateTemporary(p) \/ CreateFails(p) \/ Write(p) \/ EndWrite(p)
    \/ SyncAndClose(p) \/ Rename(p) \/ PublishFails(p)
    \/ Cleanup(p) \/ RemoveFails(p)

-----------------------------------------------------------------------------
(* Indexer::load *)

LoaderGoto(l, step) == lpc' = [lpc EXCEPT ![l] = step]

\* The path is opened and the length of its file noted.
Open(l) ==
    /\ LoadEnded(l)
    /\ dir[Path] # NoFile
    /\ opened' = [opened EXCEPT ![l] = dir[Path]]
    /\ length' = [length EXCEPT ![l] = Len(data[dir[Path]])]
    /\ buffer' = [buffer EXCEPT ![l] = <<>>]
    /\ LoaderGoto(l, "read")
    /\ UNCHANGED <<diskVars, saverVars, copyVars>>

\* Mutant: every read opens the path again.
CellsUnderPath(l) == IF dir[Path] = NoFile THEN <<>> ELSE data[dir[Path]]

CellsOpened(l) == data[opened[l]]

\* Mutant: what follows the noted length is read too.
AnyPosition(l) == 1..(length[l] + 1)

Positions(l) == 1..length[l]

\* The next cell is read; the first must be a header for this length.
Read(l) ==
    LET cells == CellsOpened(l)
        next == Len(buffer[l]) + 1
    IN /\ lpc[l] = "read"
       /\ next \in Positions(l) /\ next <= Len(cells)
       /\ next = 1 => cells[1][2] = 1 /\ Size[cells[1][1]] = length[l]
       /\ buffer' = [buffer EXCEPT ![l] = Append(@, cells[next])]
       /\ UNCHANGED <<diskVars, saverVars, lpc, opened, length, copyVars>>

\* The payload is the one whose checksum the header holds.
ChecksumMatches(cells) == cells = Checkpoint(cells[1][1])

\* Mutant: what follows is not looked for.
AnyEnd(l) == TRUE

\* The file ends where it ended when its length was noted.
AtEnd(l) == Len(CellsOpened(l)) <= length[l]

\* All of it is read, the file ends there and the payload decodes.
EndRead(l) ==
    /\ lpc[l] = "read"
    /\ buffer[l] # <<>>
    /\ Len(buffer[l]) = length[l]
    /\ AtEnd(l)
    /\ ChecksumMatches(buffer[l])
    /\ LoaderGoto(l, "loaded")
    /\ UNCHANGED <<diskVars, saverVars, opened, length, buffer, copyVars>>

\* There is no file, a read fails, or one of the checks above does.
LoadFails(l) ==
    /\ lpc[l] = "read" \/ (LoadEnded(l) /\ dir[Path] = NoFile)
    /\ LoaderGoto(l, "rejected")
    /\ UNCHANGED <<diskVars, saverVars, opened, length, buffer, copyVars>>

-----------------------------------------------------------------------------
(* The world around them (external to the library) *)

\* A process is killed: its temporary file stays.
Kill(p) ==
    /\ ~SaveEnded(p)
    /\ SaverGoto(p, "idle")
    /\ path' = [path EXCEPT ![p] = NoName]
    /\ abandoned' = abandoned \union {FileOf(p)}
    /\ UNCHANGED <<diskVars, saves, loaderVars, copyVars>>

\* The file system writes the directory back when it likes: save does not ask.
WriteBack ==
    /\ diskDir # dir
    /\ diskDir' = dir
    /\ UNCHANGED <<dir, data, synced, saverVars, loaderVars, copyVars>>

\* Every process dies, the directory is the one last written back, and cells
\* that were not synced may be gone.
PowerLoss ==
    /\ dir' = diskDir
    /\ data' \in {[f \in Files |-> IF f \in lost THEN <<>> ELSE data[f]] :
                    lost \in SUBSET (Files \ synced)}
    /\ spc' = [p \in Savers |-> "idle"]
    /\ path' = [p \in Savers |-> NoName]
    /\ abandoned' = abandoned \union ({diskDir[n] : n \in Names} \ {NoFile})
    /\ lpc' = [l \in Loaders |-> "idle"]
    /\ copying' = NoFile
    /\ UNCHANGED <<diskDir, synced, saves, opened, length, buffer, copies>>

\* A program that is not yuca copies another checkpoint into the path's file.
\* It truncates the file first, or writes over what is there.
BeginCopy(f) ==
    /\ copies < MaxCopies
    /\ copying = NoFile
    /\ dir[Path] # NoFile
    /\ \E kept \in {<<>>, data[dir[Path]]} : data' = [data EXCEPT ![dir[Path]] = kept]
    /\ synced' = synced \ {dir[Path]}
    /\ copying' = <<f, dir[Path], 0>>
    /\ copies' = copies + 1
    /\ UNCHANGED <<dir, diskDir, saverVars, loaderVars>>

\* Cell n of a file is written, which may make the file longer.
WrittenAt(cells, n, cell) ==
    IF n <= Len(cells) THEN [cells EXCEPT ![n] = cell] ELSE Append(cells, cell)

CopyCell ==
    /\ copying # NoFile
    /\ LET from == copying[1]
           into == copying[2]
           next == copying[3] + 1
       IN /\ next <= Size[from]
          /\ data' = [data EXCEPT ![into] = WrittenAt(@, next, <<from, next>>)]
          /\ copying' = <<from, into, next>>
    /\ UNCHANGED <<dir, diskDir, synced, saverVars, loaderVars, copies>>

\* What the file had behind the copy is cut off.
EndCopy ==
    /\ copying # NoFile
    /\ copying[3] = Size[copying[1]]
    /\ data' = [data EXCEPT ![copying[2]] = SubSeq(@, 1, copying[3])]
    /\ copying' = NoFile
    /\ UNCHANGED <<dir, diskDir, synced, saverVars, loaderVars, copies>>

-----------------------------------------------------------------------------
\* Only yuca writes the path.
OwnNext ==
    \/ \E p \in Savers : BeginSave(p) \/ SaverStep(p) \/ Kill(p)
    \/ \E l \in Loaders : Open(l) \/ Read(l) \/ EndRead(l) \/ LoadFails(l)
    \/ WriteBack
    \/ PowerLoss

Next ==
    \/ OwnNext
    \/ \E f \in Files : BeginCopy(f)
    \/ CopyCell \/ EndCopy

\* A process that is not killed keeps running.
Fairness == \A p \in Savers : WF_vars(SaverStep(p))

Spec == Init /\ [][Next]_vars /\ Fairness

-----------------------------------------------------------------------------
(* Properties *)

\* The state has its type, and no loader holds more than the length it noted.
TypeOK ==
    /\ dir \in [Names \union {Path} -> Files \union {NoFile}]
    /\ diskDir \in [Names \union {Path} -> Files \union {NoFile}]
    /\ data \in [Files -> Seq(Files \X Nat)]
    /\ synced \subseteq Files
    /\ spc \in [Savers -> {"idle", "create", "write", "sync", "rename", "cleanup",
                           "saved", "failed"}]
    /\ saves \in [Savers -> 0..MaxSaves]
    /\ path \in [Savers -> Names \union {NoName}]
    /\ abandoned \subseteq Files
    /\ lpc \in [Loaders -> {"idle", "read", "loaded", "rejected"}]
    /\ opened \in [Loaders -> Files \union {NoFile}]
    /\ length \in [Loaders -> Nat]
    /\ buffer \in [Loaders -> Seq(Files \X Nat)]
    /\ \A l \in Loaders : Len(buffer[l]) <= length[l]
    /\ copies \in 0..MaxCopies
    /\ copying \in (Files \X Files \X Nat) \union {NoFile}

\* The path names no file, or a whole checkpoint: while a save runs, after it
\* failed, after its process was killed and after a power loss at any point, as
\* long as no other program writes the file.
PathIsComplete ==
    copies = 0 /\ dir[Path] # NoFile => data[dir[Path]] = Checkpoint(dir[Path])

\* A running save has its temporary file under its name until it renames or
\* removes it: no other save, on its way out, removes a file it did not create.
TempIsOwn ==
    \A p \in Savers : spc[p] \in {"write", "sync", "rename"} => dir[path[p]] = FileOf(p)

\* A temporary file belongs to a save that is still running, or was cut short
\* from outside, or asked the system to remove it in vain: at whichever step a
\* save throws, it tries.
NoLitter ==
    \A n \in Names :
        dir[n] # NoFile =>
            \/ dir[n] \in abandoned
            \/ \E p \in Savers : ~SaveEnded(p) /\ path[p] = n /\ dir[n] = FileOf(p)

\* A load that returns has read the checkpoint that the path named when it was
\* opened, whatever saves replace meanwhile, without foreign rewrites.
LoadIsWhatWasOpened ==
    copies = 0 => \A l \in Loaders : lpc[l] = "loaded" => buffer[l] = Checkpoint(opened[l])

\* Every call of save ends, however often its writes are short.
SaveTerminates == \A p \in Savers : ~SaveEnded(p) ~> SaveEnded(p)
=============================================================================
