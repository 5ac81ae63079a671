---------------------------- MODULE SessionProofs ----------------------------
(***************************************************************************)
(* Proofs about SnapshotFile, LoadRace and Session, for any number of      *)
(* savers, loaders, calls, temporary names and rewrites: whatever fails or *)
(* dies, and when, the path names a whole checkpoint, no save loses its    *)
(* temporary file to another, a load is atomic, and what a save returned   *)
(* for survives every failure, kill and restart of the application.        *)
(***************************************************************************)
EXTENDS Session, LoadRace, TLAPS

LEMMA CheckpointType ==
    ASSUME NEW f \in Files
    PROVE  /\ Checkpoint(f) \in Seq(Files \X Nat)
           /\ Len(Checkpoint(f)) = Size[f]
           /\ \A n \in 1..Size[f] :
                /\ SubSeq(Checkpoint(f), 1, n) \in Seq(Files \X Nat)
                /\ Len(SubSeq(Checkpoint(f), 1, n)) = n
<1>1. Size[f] \in Nat
  BY FilesAssumption
<1>2. \A i \in 1..Size[f] : <<f, i>> \in Files \X Nat
  BY <1>1
<1>3. Checkpoint(f) \in Seq(Files \X Nat) /\ Len(Checkpoint(f)) = Size[f]
  BY <1>1, <1>2 DEF Checkpoint
<1> QED
  BY <1>1, <1>3

LEMMA WholeCheckpoint ==
    ASSUME NEW f \in Files
    PROVE  SubSeq(Checkpoint(f), 1, Size[f]) = Checkpoint(f)
<1>1. Size[f] \in Nat
  BY FilesAssumption
<1> QED
  BY <1>1, CheckpointType

-----------------------------------------------------------------------------
(* Types *)

\* A saver in the middle of a call has a file.
HasFile == \A p \in Savers : ~SaveEnded(p) => saves[p] \in 1..MaxSaves

\* A loader in the middle of a call has opened a file.
HasOpened == \A l \in Loaders : lpc[l] = "read" => opened[l] \in Files

\* A saver that has created its temporary file knows its name.
HasName == \A p \in Savers : spc[p] \in {"write", "sync", "rename"} => path[p] \in Names

\* A foreign program has written what it says it has.
HasCopied == copying # NoFile => copying[3] <= Len(data[copying[2]])

TypeInv == TypeOK /\ HasFile /\ HasOpened /\ HasName /\ HasCopied

LEMMA FileOfSaver ==
    ASSUME TypeInv, NEW p \in Savers, ~SaveEnded(p)
    PROVE  FileOf(p) \in Files
  BY FilesAssumption DEF TypeInv, HasFile, Files, FileOf

LEMMA InitTypeInv == Init => TypeInv
<1> SUFFICES ASSUME Init
             PROVE  TypeInv
  OBVIOUS
<1>1. Old \in Files
  BY DEF Files
<1>2. data \in [Files -> Seq(Files \X Nat)]
  <2>1. <<>> \in Seq(Files \X Nat)
    OBVIOUS
  <2> QED
    BY <1>1, <2>1, CheckpointType DEF Init
<1>3. HasFile /\ HasOpened /\ HasName /\ HasCopied
  BY DEF Init, HasFile, HasOpened, HasName, HasCopied, SaveEnded
<1>4. buffer \in [Loaders -> Seq(Files \X Nat)] /\ \A l \in Loaders : Len(buffer[l]) <= length[l]
  BY DEF Init
<1> QED
  BY <1>1, <1>2, <1>3, <1>4, FilesAssumption DEF Init, TypeInv, TypeOK

LEMMA SaverKeepsTypeInv ==
    ASSUME TypeInv, NEW p \in Savers, BeginSave(p) \/ SaverStep(p) \/ Kill(p)
    PROVE  TypeInv'
<1> USE DEF TypeInv, TypeOK, HasFile, HasOpened, HasName, HasCopied, SaveEnded, SaverGoto
<1>1. CASE BeginSave(p)
  BY <1>1, FilesAssumption DEF BeginSave, diskVars, loaderVars, copyVars
<1>2. CASE CreateTemporary(p)
  <2>1. FileOf(p) \in Files
    BY <1>2, FileOfSaver DEF CreateTemporary
  <2>2. PICK n \in Names :
          /\ dir' = [dir EXCEPT ![n] = FileOf(p)]
          /\ path' = [path EXCEPT ![p] = n]
    BY <1>2 DEF CreateTemporary
  <2>3. dir' \in [Names \union {Path} -> Files \union {NoFile}]
        /\ path' \in [Savers -> Names \union {NoName}]
    BY <2>1, <2>2
  <2> QED
    BY <1>2, <2>3 DEF CreateTemporary, loaderVars, copyVars
<1>3. CASE CreateFails(p) \/ EndWrite(p) \/ PublishFails(p)
  BY <1>3 DEF CreateFails, EndWrite, PublishFails, diskVars, loaderVars, copyVars
<1>4. CASE Write(p)
  <2>1. FileOf(p) \in Files
    BY <1>4, FileOfSaver DEF Write
  <2>2. PICK upTo \in (Len(data[FileOf(p)]) + 1)..Size[FileOf(p)] :
          data' = [data EXCEPT ![FileOf(p)] = SubSeq(Checkpoint(FileOf(p)), 1, upTo)]
    BY <1>4 DEF Write
  <2>3. upTo \in 1..Size[FileOf(p)]
    BY <2>1, FilesAssumption
  <2>4. data' \in [Files -> Seq(Files \X Nat)]
    BY <2>1, <2>2, <2>3, CheckpointType
  <2>5. HasCopied'
    <3>1. Len(data'[FileOf(p)]) = upTo /\ upTo > Len(data[FileOf(p)])
      BY <2>1, <2>2, <2>3, CheckpointType
    <3>2. \A f \in Files : Len(data[f]) \in Nat /\ Len(data'[f]) \in Nat /\ Len(data[f]) <= Len(data'[f])
      <4>1. \A f \in Files : Len(data[f]) \in Nat /\ Len(data'[f]) \in Nat
        BY <2>4
      <4>2. \A f \in Files \ {FileOf(p)} : data'[f] = data[f]
        BY <2>2
      <4>3. Len(data[FileOf(p)]) \in Nat /\ Len(data'[FileOf(p)]) \in Nat
        BY <2>1, <4>1
      <4>4. Len(data[FileOf(p)]) <= Len(data'[FileOf(p)])
        <5> HIDE DEF TypeInv, TypeOK, HasFile, HasOpened, HasName, HasCopied
        <5>1. PICK x, y : x = Len(data[FileOf(p)]) /\ y = Len(data'[FileOf(p)])
          OBVIOUS
        <5>2. x \in Nat /\ y \in Nat /\ y = upTo /\ upTo > x
          BY <3>1, <4>3, <5>1
        <5>3. x <= y
          BY <5>2
        <5> QED
          BY <5>1, <5>3
      <4>5. ASSUME NEW f \in Files
            PROVE  Len(data[f]) <= Len(data'[f])
        <5>1. CASE f = FileOf(p)
          BY <4>4, <5>1
        <5>2. CASE f # FileOf(p)
          <6>1. data'[f] = data[f] /\ Len(data[f]) \in Nat
            BY <4>1, <4>2, <5>2
          <6> QED
            BY <6>1
        <5> QED
          BY <5>1, <5>2
      <4> QED
        BY <4>1, <4>5
    <3>3. copying # NoFile => copying[2] \in Files /\ copying[3] \in Nat
      OBVIOUS
    <3>4. copying' = copying
      BY <1>4 DEF Write, copyVars
    <3> QED
      BY <3>2, <3>3, <3>4
  <2> QED
    BY <1>4, <2>4, <2>5 DEF Write, saverVars, loaderVars, copyVars
<1>5. CASE SyncAndClose(p)
  <2>1. FileOf(p) \in Files
    BY <1>5, FileOfSaver DEF SyncAndClose
  <2> QED
    BY <1>5, <2>1 DEF SyncAndClose, NewlySynced, loaderVars, copyVars
<1>6. CASE Rename(p)
  <2>1. path[p] \in Names /\ dir[path[p]] \in Files
    BY <1>6 DEF Rename
  <2>2. dir' \in [Names \union {Path} -> Files \union {NoFile}]
    BY <1>6, <2>1 DEF Rename
  <2>3. path' \in [Savers -> Names \union {NoName}]
    BY <1>6 DEF Rename, PathCleared
  <2>4. spc' = [spc EXCEPT ![p] = "cleanup"] /\ path' = [path EXCEPT ![p] = NoName]
    BY <1>6 DEF Rename, PathCleared
  <2>5. HasFile' /\ HasName'
    BY <1>6, <2>4 DEF Rename
  <2> QED
    BY <1>6, <2>2, <2>3, <2>4, <2>5 DEF Rename, loaderVars, copyVars
<1>7. CASE Cleanup(p)
  <2>1. dir' \in [Names \union {Path} -> Files \union {NoFile}]
    BY <1>7 DEF Cleanup, RemovePath
  <2> QED
    BY <1>7, <2>1 DEF Cleanup, SaveEnd, loaderVars, copyVars
<1>8. CASE RemoveFails(p) \/ Kill(p)
  <2>1. FileOf(p) \in Files
    BY <1>8, FileOfSaver DEF RemoveFails, Kill
  <2> QED
    BY <1>8, <2>1 DEF RemoveFails, SaveEnd, Kill, diskVars, loaderVars, copyVars
<1> QED
  BY <1>1, <1>2, <1>3, <1>4, <1>5, <1>6, <1>7, <1>8 DEF SaverStep

LEMMA LoaderKeepsTypeInv ==
    ASSUME TypeInv, NEW l \in Loaders, Open(l) \/ Read(l) \/ EndRead(l) \/ LoadFails(l)
    PROVE  TypeInv'
<1> USE DEF TypeInv, TypeOK, HasFile, HasOpened, HasName, HasCopied, SaveEnded, LoaderGoto
<1>1. CASE Open(l)
  <2>1. dir[Path] \in Files
    BY <1>1 DEF Open
  <2>2. <<>> \in Seq(Files \X Nat) /\ Len(<<>>) = 0
    OBVIOUS
  <2> QED
    BY <1>1, <2>1, <2>2 DEF Open, diskVars, saverVars, copyVars
<1>2. CASE Read(l)
  <2>1. /\ Len(buffer[l]) + 1 \in 1..length[l]
        /\ Len(buffer[l]) + 1 <= Len(CellsOpened(l))
        /\ buffer' = [buffer EXCEPT ![l] = Append(@, CellsOpened(l)[Len(buffer[l]) + 1])]
    BY <1>2 DEF Read, Positions
  <2>2. CellsOpened(l) \in Seq(Files \X Nat)
    BY <1>2 DEF CellsOpened, Read
  <2>3. CellsOpened(l)[Len(buffer[l]) + 1] \in Files \X Nat
    BY <2>1, <2>2
  <2>4. PICK cell \in Files \X Nat : buffer' = [buffer EXCEPT ![l] = Append(@, cell)]
    BY <2>1, <2>3
  <2>5. /\ Append(buffer[l], cell) \in Seq(Files \X Nat)
        /\ Len(Append(buffer[l], cell)) = Len(buffer[l]) + 1
    OBVIOUS
  <2>6. buffer' \in [Loaders -> Seq(Files \X Nat)] /\ \A m \in Loaders : Len(buffer'[m]) <= length[m]
    BY <2>1, <2>4, <2>5
  <2> QED
    BY <1>2, <2>6 DEF Read, diskVars, saverVars, copyVars
<1>3. CASE EndRead(l) \/ LoadFails(l)
  BY <1>3 DEF EndRead, LoadFails, diskVars, saverVars, copyVars
<1> QED
  BY <1>1, <1>2, <1>3

LEMMA SeqDef ==
    ASSUME NEW S, NEW n \in Nat, NEW g \in [1..n -> S]
    PROVE  g \in Seq(S) /\ Len(g) = n
  OBVIOUS

LEMMA PrefixType ==
    ASSUME NEW S, NEW s \in Seq(S), NEW n \in 0..Len(s)
    PROVE  /\ SubSeq(s, 1, n) \in Seq(S)
           /\ Len(SubSeq(s, 1, n)) = n
           /\ \A i \in 1..n : SubSeq(s, 1, n)[i] = s[i]
  OBVIOUS

LEMMA WrittenAtType ==
    ASSUME NEW S, NEW cells \in Seq(S), NEW n \in 1..(Len(cells) + 1), NEW cell \in S
    PROVE  /\ WrittenAt(cells, n, cell) \in Seq(S)
           /\ Len(WrittenAt(cells, n, cell)) = IF n <= Len(cells) THEN Len(cells) ELSE n
           /\ WrittenAt(cells, n, cell)[n] = cell
           /\ \A i \in 1..Len(cells) : i # n => WrittenAt(cells, n, cell)[i] = cells[i]
<1>1. ASSUME n <= Len(cells)
      PROVE  [cells EXCEPT ![n] = cell] \in Seq(S) /\ Len([cells EXCEPT ![n] = cell]) = Len(cells)
  <2>1. \A i \in 1..Len(cells) : [cells EXCEPT ![n] = cell][i] \in S
    OBVIOUS
  <2>2. [cells EXCEPT ![n] = cell] = [i \in 1..Len(cells) |-> [cells EXCEPT ![n] = cell][i]]
    OBVIOUS
  <2>3. \A g \in [1..Len(cells) -> S] : g \in Seq(S) /\ Len(g) = Len(cells)
    BY SeqDef
  <2> QED
    BY <2>1, <2>2, <2>3
<1>2. /\ Append(cells, cell) \in Seq(S) /\ Len(Append(cells, cell)) = Len(cells) + 1
      /\ Append(cells, cell)[Len(cells) + 1] = cell
      /\ \A i \in 1..Len(cells) : Append(cells, cell)[i] = cells[i]
  OBVIOUS
<1> QED
  BY <1>1, <1>2 DEF WrittenAt

\* What a copy of checkpoint g into cells leaves there when it writes cell n.
LEMMA CellWrittenType ==
    ASSUME NEW cells \in Seq(Files \X Nat), NEW n \in Nat \ {0}, n <= Len(cells) + 1,
           NEW g \in Files
    PROVE  WrittenAt(cells, n, <<g, n>>) \in Seq(Files \X Nat)
<1>1. PICK S, cell : S = Files \X Nat /\ cell = <<g, n>>
  OBVIOUS
<1>2. cell \in S /\ cells \in Seq(S) /\ n \in 1..(Len(cells) + 1)
  BY <1>1
<1>3. WrittenAt(cells, n, cell) \in Seq(S)
  BY <1>2, WrittenAtType
<1> QED
  BY <1>1, <1>3

LEMMA CellWrittenLength ==
    ASSUME NEW cells \in Seq(Files \X Nat), NEW n \in Nat \ {0}, n <= Len(cells) + 1,
           NEW g \in Files
    PROVE  Len(WrittenAt(cells, n, <<g, n>>)) = IF n <= Len(cells) THEN Len(cells) ELSE n
<1>1. PICK S, cell : S = Files \X Nat /\ cell = <<g, n>>
  OBVIOUS
<1>2. cell \in S /\ cells \in Seq(S) /\ n \in 1..(Len(cells) + 1)
  BY <1>1
<1>3. Len(WrittenAt(cells, n, cell)) = IF n <= Len(cells) THEN Len(cells) ELSE n
  BY <1>2, WrittenAtType
<1> QED
  BY <1>1, <1>3

LEMMA CellWritten ==
    ASSUME NEW cells \in Seq(Files \X Nat), NEW n \in Nat \ {0}, n <= Len(cells) + 1,
           NEW g \in Files
    PROVE  /\ WrittenAt(cells, n, <<g, n>>)[n] = <<g, n>>
           /\ \A i \in 1..Len(cells) : i # n => WrittenAt(cells, n, <<g, n>>)[i] = cells[i]
<1>1. PICK S, cell : S = Files \X Nat /\ cell = <<g, n>>
  OBVIOUS
<1>2. cell \in S /\ cells \in Seq(S) /\ n \in 1..(Len(cells) + 1)
  BY <1>1
<1>3. /\ WrittenAt(cells, n, cell)[n] = cell
      /\ \A i \in 1..Len(cells) : i # n => WrittenAt(cells, n, cell)[i] = cells[i]
  BY <1>2, WrittenAtType
<1> QED
  BY <1>1, <1>3

LEMMA WorldKeepsTypeInv ==
    ASSUME TypeInv, WriteBack \/ PowerLoss \/ (\E f \in Files : BeginCopy(f)) \/ CopyCell \/ EndCopy
    PROVE  TypeInv'
<1> USE DEF TypeInv, TypeOK, HasFile, HasOpened, HasName, HasCopied, SaveEnded
<1>1. CASE WriteBack
  BY <1>1 DEF WriteBack, saverVars, loaderVars, copyVars
<1>2. CASE PowerLoss
  <2>1. PICK lost \in SUBSET (Files \ synced) :
          data' = [f \in Files |-> IF f \in lost THEN <<>> ELSE data[f]]
    BY <1>2 DEF PowerLoss
  <2>2. data' \in [Files -> Seq(Files \X Nat)]
    BY <2>1
  <2>3. abandoned' \subseteq Files
    BY <1>2 DEF PowerLoss
  <2> QED
    BY <1>2, <2>2, <2>3 DEF PowerLoss
<1>3. CASE \E f \in Files : BeginCopy(f)
  <2>1. PICK f \in Files : BeginCopy(f)
    BY <1>3
  <2>2. dir[Path] \in Files
    BY <2>1 DEF BeginCopy
  <2>3. PICK kept \in {<<>>, data[dir[Path]]} : data' = [data EXCEPT ![dir[Path]] = kept]
    BY <2>1 DEF BeginCopy
  <2>4. data' \in [Files -> Seq(Files \X Nat)]
    <3>1. kept \in Seq(Files \X Nat)
      <4>1. data[dir[Path]] \in Seq(Files \X Nat) /\ <<>> \in Seq(Files \X Nat)
        BY <2>2
      <4>2. kept = <<>> \/ kept = data[dir[Path]]
        OBVIOUS
      <4> QED
        BY <4>1, <4>2
    <3> QED
      BY <2>2, <2>3, <3>1
  <2>5. copies' \in 0..MaxCopies /\ synced' \subseteq Files
    BY <2>1, FilesAssumption DEF BeginCopy
  <2>6. copying' \in Files \X Files \X Nat
    BY <2>1, <2>2 DEF BeginCopy
  <2>7. HasCopied'
    <3>1. copying'[2] = dir[Path] /\ copying'[3] = 0
      BY <2>1 DEF BeginCopy
    <3> QED
      BY <2>2, <2>4, <3>1
  <2> QED
    BY <2>1, <2>4, <2>5, <2>6, <2>7 DEF BeginCopy, saverVars, loaderVars
<1>4. CASE CopyCell
  <2>1. PICK from \in Files, into \in Files, next \in Nat \ {0} :
          /\ data' = [data EXCEPT ![into] = WrittenAt(@, next, <<from, next>>)]
          /\ copying' = <<from, into, next>>
          /\ next <= Len(data[into]) + 1
    <3>1. copying[1] \in Files /\ copying[2] \in Files /\ copying[3] + 1 \in Nat \ {0}
      BY <1>4 DEF CopyCell
    <3>2. /\ data' = [data EXCEPT ![copying[2]] =
                        WrittenAt(@, copying[3] + 1, <<copying[1], copying[3] + 1>>)]
          /\ copying' = <<copying[1], copying[2], copying[3] + 1>>
      BY <1>4 DEF CopyCell
    <3>3. copying[3] + 1 <= Len(data[copying[2]]) + 1
      BY <1>4, <3>1 DEF CopyCell
    <3> QED
      BY <3>1, <3>2, <3>3
  <2>2. data' \in [Files -> Seq(Files \X Nat)]
    <3>1. data[into] \in Seq(Files \X Nat) /\ next <= Len(data[into]) + 1
      BY <2>1
    <3>2. WrittenAt(data[into], next, <<from, next>>) \in Seq(Files \X Nat)
      BY <3>1, CellWrittenType
    <3> QED
      BY <2>1, <3>2
  <2>3. HasCopied'
    <3>1. PICK cells \in Seq(Files \X Nat) : cells = data[into] /\ next <= Len(cells) + 1
      BY <2>1
    <3>2. data'[into] = WrittenAt(cells, next, <<from, next>>)
      BY <2>1, <3>1
    <3>3. Len(WrittenAt(cells, next, <<from, next>>)) = IF next <= Len(cells) THEN Len(cells) ELSE next
      BY <3>1, CellWrittenLength
    <3>4. next <= Len(data'[into])
      BY <3>1, <3>2, <3>3
    <3> QED
      BY <2>1, <3>4
  <2>4. copying' \in Files \X Files \X Nat
    BY <2>1
  <2> QED
    BY <1>4, <2>2, <2>3, <2>4 DEF CopyCell, saverVars, loaderVars
<1>5. CASE EndCopy
  <2>1. PICK into \in Files, n \in Nat :
          n <= Len(data[into]) /\ data' = [data EXCEPT ![into] = SubSeq(@, 1, n)]
    <3>1. copying[2] \in Files /\ copying[3] \in Nat /\ copying[3] <= Len(data[copying[2]])
      BY <1>5 DEF EndCopy
    <3>2. data' = [data EXCEPT ![copying[2]] = SubSeq(@, 1, copying[3])]
      BY <1>5 DEF EndCopy
    <3> QED
      BY <3>1, <3>2
  <2>2. SubSeq(data[into], 1, n) \in Seq(Files \X Nat)
    <3>1. data[into] \in Seq(Files \X Nat)
      OBVIOUS
    <3> QED
      BY <2>1, <3>1, PrefixType
  <2>3. data' \in [Files -> Seq(Files \X Nat)]
    BY <2>1, <2>2
  <2> QED
    BY <1>5, <2>3 DEF EndCopy, saverVars, loaderVars
<1> QED
  BY <1>1, <1>2, <1>3, <1>4, <1>5

LEMMA StutterKeepsTypeInv == TypeInv /\ UNCHANGED vars => TypeInv'
  BY DEF vars, diskVars, saverVars, loaderVars, copyVars, TypeInv, TypeOK, HasFile, HasOpened,
         HasName, HasCopied, SaveEnded

LEMMA NextTypeInv == TypeInv /\ [Next]_vars => TypeInv'
  BY SaverKeepsTypeInv, LoaderKeepsTypeInv, WorldKeepsTypeInv, StutterKeepsTypeInv DEF Next, OwnNext

\* The types of the variables, in every reachable state.
THEOREM FileTypeCorrect == Spec => []TypeOK
<1>1. Init => TypeInv
  BY InitTypeInv
<1>2. TypeInv /\ [Next]_vars => TypeInv'
  BY NextTypeInv
<1>3. TypeInv => TypeOK
  BY DEF TypeInv
<1> QED
  BY <1>1, <1>2, <1>3, PTL DEF Spec
-----------------------------------------------------------------------------
(* Temporary files *)

\* A saver that knows a temporary name has its own file under it.
OwnsName ==
    \A p \in Savers :
        path[p] # NoName =>
            /\ spc[p] \in {"write", "sync", "rename", "cleanup"}
            /\ dir[path[p]] = FileOf(p)

\* The files under temporary names are of running saves or were abandoned.
Accounted ==
    \A n \in Names :
        dir[n] # NoFile =>
            dir[n] \in abandoned \/ \E p \in Savers : path[p] = n /\ dir[n] = FileOf(p)

NameInv == TypeInv /\ OwnsName /\ Accounted

\* No two saves have the same file.
LEMMA FilesDiffer ==
    ASSUME NEW p \in Savers, NEW q \in Savers, p # q
    PROVE  FileOf(p) # FileOf(q)
  BY DEF FileOf

LEMMA InitNameInv == Init => NameInv
<1>1. Init => OwnsName /\ Accounted
  BY FilesAssumption DEF Init, OwnsName, Accounted
<1> QED
  BY <1>1, InitTypeInv DEF NameInv

LEMMA SaverKeepsNames ==
    ASSUME NameInv, NEW p \in Savers, BeginSave(p) \/ SaverStep(p) \/ Kill(p)
    PROVE  OwnsName' /\ Accounted'
<1>1. /\ dir \in [Names \union {Path} -> Files \union {NoFile}]
      /\ spc \in [Savers -> {"idle", "create", "write", "sync", "rename", "cleanup",
                             "saved", "failed"}]
      /\ path \in [Savers -> Names \union {NoName}]
      /\ saves \in [Savers -> 0..MaxSaves]
      /\ NoName \notin Names /\ Path \notin Names /\ NoFile \notin Files
      /\ HasName /\ OwnsName /\ Accounted
  BY FilesAssumption DEF NameInv, TypeInv, TypeOK
<1> USE <1>1 DEF OwnsName, Accounted, HasName, SaverGoto, FileOf
<1>2. CASE BeginSave(p)
  BY <1>2 DEF BeginSave, diskVars, SaveEnded
<1>3. CASE CreateTemporary(p)
  <2>1. FileOf(p) \in Files
    BY <1>3, FileOfSaver DEF CreateTemporary, NameInv, SaveEnded
  <2>2. PICK n \in Names :
          /\ dir[n] = NoFile
          /\ dir' = [dir EXCEPT ![n] = FileOf(p)]
          /\ path' = [path EXCEPT ![p] = n]
    BY <1>3 DEF CreateTemporary
  <2>3. spc'[p] \in {"write", "cleanup"} /\ (\A q \in Savers \ {p} : spc'[q] = spc[q])
        /\ saves' = saves /\ abandoned' = abandoned
    BY <1>3 DEF CreateTemporary
  <2>4. path[p] = NoName
    BY <1>3 DEF CreateTemporary
  <2>5. \A q \in Savers \ {p} : path[q] # n
    <3> SUFFICES ASSUME NEW q \in Savers \ {p}, path[q] = n
                 PROVE  FALSE
      OBVIOUS
    <3>1. dir[n] = FileOf(q) /\ ~SaveEnded(q)
      BY <2>2 DEF SaveEnded
    <3>2. FileOf(q) \in Files
      BY <3>1, FileOfSaver DEF NameInv
    <3> QED
      BY <2>2, <3>1, <3>2
  <2>6. OwnsName'
    BY <2>1, <2>2, <2>3, <2>5
  <2>7. Accounted'
    BY <2>1, <2>2, <2>3, <2>4, <2>5
  <2> QED
    BY <2>6, <2>7
<1>4. CASE CreateFails(p)
  BY <1>4 DEF CreateFails, diskVars
<1>5. CASE Write(p)
  BY <1>5 DEF Write, saverVars
<1>6. CASE EndWrite(p) \/ SyncAndClose(p) \/ PublishFails(p)
  BY <1>6 DEF EndWrite, SyncAndClose, PublishFails, diskVars
<1>7. CASE Rename(p)
  <2>1. /\ path[p] \in Names
        /\ dir' = [dir EXCEPT ![Path] = dir[path[p]], ![path[p]] = NoFile]
        /\ path' = [path EXCEPT ![p] = NoName]
        /\ \A q \in Savers \ {p} : spc'[q] = spc[q]
        /\ saves' = saves /\ abandoned' = abandoned
    BY <1>7 DEF Rename, PathCleared
  <2>2. \A q \in Savers \ {p} : path[q] # path[p]
    BY <2>1, FilesDiffer
  <2> QED
    BY <2>1, <2>2
<1>8. CASE Cleanup(p)
  <2>1. /\ dir' = [n \in Names \union {Path} |-> IF n = path[p] THEN NoFile ELSE dir[n]]
        /\ path' = [path EXCEPT ![p] = NoName]
        /\ \A q \in Savers \ {p} : spc'[q] = spc[q]
        /\ saves' = saves /\ abandoned' = abandoned
    BY <1>8 DEF Cleanup, RemovePath
  <2>2. \A q \in Savers \ {p} : path[q] # NoName => path[q] # path[p]
    BY FilesDiffer
  <2> QED
    BY <2>1, <2>2
<1>9. CASE RemoveFails(p)
  <2>1. /\ dir' = dir /\ saves' = saves /\ path' = [path EXCEPT ![p] = NoName]
        /\ \A q \in Savers \ {p} : spc'[q] = spc[q]
        /\ abandoned' = abandoned \union {FileOf(p)}
    BY <1>9 DEF RemoveFails, diskVars
  <2> QED
    BY <2>1
<1>10. CASE Kill(p)
  BY <1>10 DEF Kill, diskVars
<1> QED
  BY <1>2, <1>3, <1>4, <1>5, <1>6, <1>7, <1>8, <1>9, <1>10 DEF SaverStep

LEMMA NextNameInv == NameInv /\ [Next]_vars => NameInv'
<1> SUFFICES ASSUME NameInv, [Next]_vars
             PROVE  NameInv'
  OBVIOUS
<1>1. TypeInv'
  BY NextTypeInv DEF NameInv
<1>2. ASSUME NEW p \in Savers, BeginSave(p) \/ SaverStep(p) \/ Kill(p)
      PROVE  OwnsName' /\ Accounted'
  BY <1>2, SaverKeepsNames
<1>3. CASE PowerLoss
  <2>1. dir' = diskDir /\ path' = [p \in Savers |-> NoName]
        /\ abandoned' = abandoned \union ({diskDir[n] : n \in Names} \ {NoFile})
    BY <1>3 DEF PowerLoss
  <2> QED
    BY <1>1, <2>1 DEF NameInv, OwnsName, Accounted
<1>4. CASE \/ \E l \in Loaders : Open(l) \/ Read(l) \/ EndRead(l) \/ LoadFails(l)
           \/ WriteBack \/ (\E f \in Files : BeginCopy(f)) \/ CopyCell \/ EndCopy
           \/ UNCHANGED vars
  <2>1. UNCHANGED <<dir, spc, saves, path, abandoned>>
    BY <1>4 DEF Open, Read, EndRead, LoadFails, WriteBack, BeginCopy, CopyCell, EndCopy, vars,
                diskVars, saverVars
  <2> QED
    BY <1>1, <2>1 DEF NameInv, OwnsName, Accounted, FileOf
<1> QED
  BY <1>1, <1>2, <1>3, <1>4 DEF NameInv, Next, OwnNext

\* No save, whatever else runs, fails or dies, has its temporary file removed
\* or replaced by another (TemporaryFile's destructor and path.clear()).
THEOREM TemporaryFilesAreOwn == Spec => []TempIsOwn
<1>1. Init => NameInv
  BY InitNameInv
<1>2. NameInv /\ [Next]_vars => NameInv'
  BY NextNameInv
<1>3. NameInv => TempIsOwn
  BY FilesAssumption DEF NameInv, OwnsName, TypeInv, HasName, TempIsOwn
<1> QED
  BY <1>1, <1>2, <1>3, PTL DEF Spec

\* A save that throws takes its temporary file with it, at whichever step, if
\* the system removes what it is asked to.
THEOREM NoSaveLitters == Spec => []NoLitter
<1>1. Init => NameInv
  BY InitNameInv
<1>2. NameInv /\ [Next]_vars => NameInv'
  BY NextNameInv
<1>3. NameInv => NoLitter
  BY FilesAssumption DEF NameInv, OwnsName, Accounted, NoLitter, SaveEnded
<1> QED
  BY <1>1, <1>2, <1>3, PTL DEF Spec
-----------------------------------------------------------------------------
(* The file under the path *)

\* What a directory has under the path was synced before it came there.
PathsAreSynced ==
    /\ dir[Path] # NoFile => dir[Path] \in synced
    /\ diskDir[Path] # NoFile => diskDir[Path] \in synced

\* Files with all their cells are checkpoints, and synced files have them all.
FilledInOrder ==
    /\ \A f \in Files : Len(data[f]) = Size[f] => data[f] = Checkpoint(f)
    /\ \A f \in synced : data[f] = Checkpoint(f)

\* A file is synced only after its saver has written it, and then left alone.
SyncedAfterWritten ==
    \A p \in Savers :
        /\ \A i \in 1..MaxSaves : <<p, i>> \in synced => i <= saves[p]
        /\ spc[p] \in {"create", "write"} => FileOf(p) \notin synced
        /\ spc[p] = "sync" => data[FileOf(p)] = Checkpoint(FileOf(p))
        /\ spc[p] = "rename" => FileOf(p) \in synced

\* What a loader has read so far it has read from the file it opened.
ReadsOpened ==
    \A l \in Loaders :
        /\ lpc[l] = "read" => opened[l] \in synced
        /\ lpc[l] = "read" /\ buffer[l] # <<>> => buffer[l][1] = <<opened[l], 1>>
        /\ lpc[l] = "loaded" => buffer[l] = Checkpoint(opened[l])

DataInv ==
    copies = 0 =>
        /\ copying = NoFile
        /\ PathsAreSynced
        /\ FilledInOrder
        /\ SyncedAfterWritten
        /\ ReadsOpened

FileInv == NameInv /\ DataInv

LEMMA InitDataInv == Init => DataInv
<1> SUFFICES ASSUME Init
             PROVE  DataInv
  OBVIOUS
<1>1. copying = NoFile /\ PathsAreSynced /\ ReadsOpened
  BY FilesAssumption DEF Init, PathsAreSynced, ReadsOpened
<1>2. FilledInOrder
  BY FilesAssumption DEF Init, FilledInOrder, Files
<1>3. \A p \in Savers, i \in 1..MaxSaves : <<p, i>> \notin synced
  BY FilesAssumption DEF Init
<1>4. SyncedAfterWritten
  BY <1>3 DEF Init, SyncedAfterWritten
<1> QED
  BY <1>1, <1>2, <1>4 DEF DataInv

LEMMA SaverKeepsDataInv ==
    ASSUME FileInv, NEW p \in Savers, BeginSave(p) \/ SaverStep(p) \/ Kill(p)
    PROVE  DataInv'
<1>0. UNCHANGED <<diskDir, loaderVars, copyVars>>
  BY DEF BeginSave, SaverStep, CreateTemporary, CreateFails, Write, EndWrite, SyncAndClose,
         Rename, PublishFails, Cleanup, RemoveFails, Kill, diskVars
<1> SUFFICES ASSUME copies = 0
             PROVE  /\ copying' = NoFile
                    /\ PathsAreSynced' /\ FilledInOrder' /\ SyncedAfterWritten' /\ ReadsOpened'
  BY <1>0 DEF DataInv, copyVars
<1>1. /\ dir \in [Names \union {Path} -> Files \union {NoFile}]
      /\ spc \in [Savers -> {"idle", "create", "write", "sync", "rename", "cleanup",
                             "saved", "failed"}]
      /\ path \in [Savers -> Names \union {NoName}]
      /\ saves \in [Savers -> 0..MaxSaves] /\ MaxSaves \in Nat
      /\ data \in [Files -> Seq(Files \X Nat)]
      /\ synced \subseteq Files
      /\ NoName \notin Names \union {Path} /\ Path \notin Names /\ NoFile \notin Files
      /\ HasName /\ OwnsName
      /\ copying = NoFile /\ PathsAreSynced /\ FilledInOrder /\ SyncedAfterWritten /\ ReadsOpened
  BY FilesAssumption DEF FileInv, DataInv, NameInv, TypeInv, TypeOK
<1>2. \A q \in Savers \ {p} : spc'[q] = spc[q] /\ saves'[q] = saves[q]
  <2>1. spc' = spc \/ \E step : spc' = [spc EXCEPT ![p] = step]
    BY <1>1 DEF BeginSave, SaverStep, CreateTemporary, CreateFails, Write, EndWrite, SyncAndClose,
                Rename, PublishFails, Cleanup, RemoveFails, Kill, SaverGoto, SaveEnd, saverVars
  <2>2. saves' = saves \/ saves' = [saves EXCEPT ![p] = @ + 1]
    BY DEF BeginSave, SaverStep, CreateTemporary, CreateFails, Write, EndWrite, SyncAndClose,
           Rename, PublishFails, Cleanup, RemoveFails, Kill, saverVars
  <2> QED
    BY <1>1, <2>1, <2>2
<1>f. \A q \in Savers : /\ saves[q] \in Nat
                        /\ \A i \in 1..MaxSaves : <<q, i>> \in synced => i <= saves[q]
  BY <1>1 DEF SyncedAfterWritten
<1>s. \A q \in Savers : /\ spc[q] \in {"create", "write"} => FileOf(q) \notin synced
                        /\ spc[q] = "sync" => data[FileOf(q)] = Checkpoint(FileOf(q))
                        /\ spc[q] = "rename" => FileOf(q) \in synced
  BY <1>1 DEF SyncedAfterWritten
<1> USE <1>0, <1>1, <1>2 DEF SaverGoto, FileOf
<1>3. CASE BeginSave(p)
  <2>1. UNCHANGED <<dir, data, synced>> /\ saves' = [saves EXCEPT ![p] = @ + 1]
        /\ saves'[p] \in 1..MaxSaves /\ spc'[p] \in {"create", "failed"}
    BY <1>3 DEF BeginSave, diskVars
  <2>2. saves'[p] = saves[p] + 1 /\ <<p, saves[p] + 1>> \notin synced
    <3>1. saves'[p] = saves[p] + 1 /\ saves[p] \in Nat /\ saves[p] + 1 \in 1..MaxSaves
      BY <2>1
    <3>2. <<p, saves[p] + 1>> \in synced => saves[p] + 1 <= saves[p]
      BY <3>1 DEF SyncedAfterWritten
    <3> QED
      BY <3>1, <3>2
  <2>3. \A i \in 1..MaxSaves : <<p, i>> \in synced' => i <= saves'[p]
    BY <1>f, <2>1, <2>2
  <2>4. \A q \in Savers \ {p} : FileOf(q)' = FileOf(q)
    OBVIOUS
  <2>5. FileOf(p)' = <<p, saves[p] + 1>>
    BY <2>2
  <2>6. SyncedAfterWritten'
    <3> SUFFICES ASSUME NEW q \in Savers
                 PROVE  /\ \A i \in 1..MaxSaves : <<q, i>> \in synced' => i <= saves'[q]
                        /\ spc'[q] \in {"create", "write"} => FileOf(q)' \notin synced'
                        /\ spc'[q] = "sync" => data'[FileOf(q)'] = Checkpoint(FileOf(q)')
                        /\ spc'[q] = "rename" => FileOf(q)' \in synced'
      BY DEF SyncedAfterWritten, Checkpoint
    <3>1. CASE q = p
      BY <2>1, <2>2, <2>3, <2>5, <3>1
    <3>2. CASE q # p
      BY <1>f, <1>s, <2>1, <2>4, <3>2
    <3> QED
      BY <3>1, <3>2
  <2> QED
    BY <2>1, <2>6 DEF PathsAreSynced, FilledInOrder, ReadsOpened, copyVars, loaderVars
<1>4. CASE CreateTemporary(p)
  <2>1. UNCHANGED <<data, synced, saves>> /\ dir'[Path] = dir[Path]
        /\ spc[p] = "create" /\ spc'[p] \in {"write", "cleanup"}
    BY <1>4 DEF CreateTemporary
  <2> QED
    BY <2>1 DEF PathsAreSynced, FilledInOrder, SyncedAfterWritten, ReadsOpened, copyVars, loaderVars
<1>5. CASE CreateFails(p) \/ EndWrite(p) \/ PublishFails(p) \/ RemoveFails(p) \/ Kill(p)
  <2>1. UNCHANGED <<dir, data, synced, saves>>
    BY <1>5 DEF CreateFails, EndWrite, PublishFails, RemoveFails, Kill, diskVars
  <2>2. \/ spc'[p] \in {"idle", "saved", "failed", "cleanup"}
        \/ spc'[p] = "sync" /\ FileOf(p) \in Files /\ Len(data[FileOf(p)]) = Size[FileOf(p)]
    <3>1. EndWrite(p) => FileOf(p) \in Files
      BY FileOfSaver DEF EndWrite, FileInv, NameInv, SaveEnded
    <3> QED
      BY <1>5, <3>1 DEF CreateFails, EndWrite, PublishFails, RemoveFails, SaveEnd, Kill, AllWritten
  <2>3. SyncedAfterWritten'
    BY <2>1, <2>2 DEF SyncedAfterWritten, FilledInOrder
  <2> QED
    BY <2>1, <2>3 DEF PathsAreSynced, FilledInOrder, ReadsOpened, copyVars, loaderVars
<1>6. CASE Write(p)
  <2>1. FileOf(p) \in Files
    BY <1>6, FileOfSaver DEF Write, FileInv, NameInv, SaveEnded
  <2>2. PICK upTo \in (Len(data[FileOf(p)]) + 1)..Size[FileOf(p)] :
          data' = [data EXCEPT ![FileOf(p)] = SubSeq(Checkpoint(FileOf(p)), 1, upTo)]
    BY <1>6 DEF Write
  <2>3. upTo \in 1..Size[FileOf(p)]
    BY <2>1, FilesAssumption
  <2>4. Len(data'[FileOf(p)]) = Size[FileOf(p)] => data'[FileOf(p)] = Checkpoint(FileOf(p))
    BY <2>1, <2>2, <2>3, CheckpointType, WholeCheckpoint
  <2>5. UNCHANGED <<dir, synced, spc, saves>> /\ spc[p] = "write"
    BY <1>6 DEF Write, saverVars
  <2>6. FileOf(p) \notin synced
    BY <2>5 DEF SyncedAfterWritten
  <2>7. \A f \in Files \ {FileOf(p)} : data'[f] = data[f]
    BY <2>2
  <2>8. FilledInOrder'
    BY <2>4, <2>5, <2>6, <2>7 DEF FilledInOrder, Checkpoint
  <2>9. SyncedAfterWritten'
    <3>1. \A q \in Savers : spc[q] = "sync" => FileOf(q) \in Files \ {FileOf(p)}
      <4> SUFFICES ASSUME NEW q \in Savers, spc[q] = "sync"
                   PROVE  FileOf(q) \in Files \ {FileOf(p)}
        OBVIOUS
      <4>1. FileOf(q) \in Files
        BY FileOfSaver DEF FileInv, NameInv, SaveEnded
      <4> QED
        BY <4>1, <2>5
    <3>2. \A q \in Savers : spc[q] = "sync" => data'[FileOf(q)] = Checkpoint(FileOf(q))
      BY <1>s, <2>7, <3>1
    <3>3. SyncedAfterWritten' <=>
            \A q \in Savers :
              /\ \A i \in 1..MaxSaves : <<q, i>> \in synced => i <= saves[q]
              /\ spc[q] \in {"create", "write"} => FileOf(q) \notin synced
              /\ spc[q] = "sync" => data'[FileOf(q)] = Checkpoint(FileOf(q))
              /\ spc[q] = "rename" => FileOf(q) \in synced
      BY <2>5 DEF SyncedAfterWritten, Checkpoint
    <3> QED
      BY <1>f, <1>s, <3>2, <3>3
  <2> QED
    BY <2>5, <2>8, <2>9 DEF PathsAreSynced, ReadsOpened, copyVars, loaderVars
<1>7. CASE SyncAndClose(p)
  <2>1. FileOf(p) \in Files
    BY <1>7, FileOfSaver DEF SyncAndClose, FileInv, NameInv, SaveEnded
  <2>2. UNCHANGED <<dir, data, saves>> /\ spc[p] = "sync" /\ spc'[p] = "rename"
        /\ synced' = synced \union {FileOf(p)}
    BY <1>7 DEF SyncAndClose, NewlySynced
  <2>3. FilledInOrder'
    BY <2>2 DEF FilledInOrder, SyncedAfterWritten
  <2>4. \A q \in Savers, i \in 1..MaxSaves : <<q, i>> \in synced' => i <= saves'[q]
    BY <1>f, <2>2
  <2>5. \A q \in Savers \ {p} : FileOf(q) \in synced' => FileOf(q) \in synced
    BY <2>2
  <2>6. SyncedAfterWritten'
    BY <1>s, <2>2, <2>4, <2>5 DEF SyncedAfterWritten, Checkpoint
  <2> QED
    BY <2>2, <2>3, <2>6 DEF PathsAreSynced, ReadsOpened, copyVars, loaderVars
<1>8. CASE Rename(p)
  <2>1. path[p] \in Names /\ dir[path[p]] = FileOf(p) /\ FileOf(p) \in synced
    BY <1>8 DEF Rename, HasName, OwnsName, SyncedAfterWritten
  <2>2. dir'[Path] = FileOf(p)
    BY <1>8, <2>1 DEF Rename
  <2>3. UNCHANGED <<data, synced, saves>> /\ spc'[p] = "cleanup"
    BY <1>8 DEF Rename
  <2> QED
    BY <2>1, <2>2, <2>3
    DEF PathsAreSynced, FilledInOrder, SyncedAfterWritten, ReadsOpened, copyVars, loaderVars
<1>9. CASE Cleanup(p)
  <2>1. dir'[Path] = dir[Path]
    BY <1>9 DEF Cleanup, RemovePath
  <2>2. UNCHANGED <<data, synced, saves>> /\ spc'[p] \in {"saved", "failed"}
    BY <1>9 DEF Cleanup, SaveEnd
  <2> QED
    BY <2>1, <2>2
    DEF PathsAreSynced, FilledInOrder, SyncedAfterWritten, ReadsOpened, copyVars, loaderVars
<1> QED
  BY <1>3, <1>4, <1>5, <1>6, <1>7, <1>8, <1>9 DEF SaverStep

LEMMA LoaderKeepsDataInv ==
    ASSUME FileInv, NEW l \in Loaders, Open(l) \/ Read(l) \/ EndRead(l) \/ LoadFails(l)
    PROVE  DataInv'
<1>1. UNCHANGED <<diskVars, saverVars, copyVars>>
  BY DEF Open, Read, EndRead, LoadFails
<1>2. DataInv /\ (copies = 0 => ReadsOpened') => DataInv'
  BY <1>1 DEF DataInv, PathsAreSynced, FilledInOrder, SyncedAfterWritten, FileOf, Checkpoint,
              diskVars, saverVars, copyVars
<1> SUFFICES ASSUME copies = 0
             PROVE  ReadsOpened'
  BY <1>2 DEF FileInv
<1>3. /\ opened \in [Loaders -> Files \union {NoFile}]
      /\ buffer \in [Loaders -> Seq(Files \X Nat)]
      /\ lpc \in [Loaders -> {"idle", "read", "loaded", "rejected"}]
      /\ synced \subseteq Files
      /\ PathsAreSynced /\ FilledInOrder /\ ReadsOpened
  BY DEF FileInv, DataInv, NameInv, TypeInv, TypeOK
<1>4. synced' = synced
  BY <1>1 DEF diskVars
<1> USE <1>3, <1>4 DEF LoaderGoto
<1>5. CASE Open(l)
  <2>1. opened' = [opened EXCEPT ![l] = dir[Path]] /\ dir[Path] \in synced
        /\ buffer' = [buffer EXCEPT ![l] = <<>>] /\ lpc' = [lpc EXCEPT ![l] = "read"]
    BY <1>5 DEF Open, PathsAreSynced
  <2> QED
    BY <2>1 DEF ReadsOpened, Checkpoint
<1>6. CASE Read(l)
  <2>1. /\ lpc[l] = "read" /\ UNCHANGED <<lpc, opened>>
        /\ Len(buffer[l]) + 1 <= Len(data[opened[l]])
        /\ buffer' = [buffer EXCEPT ![l] = Append(@, data[opened[l]][Len(buffer[l]) + 1])]
    BY <1>6 DEF Read, CellsOpened
  <2>2. opened[l] \in synced /\ data[opened[l]] = Checkpoint(opened[l]) /\ opened[l] \in Files
    BY <2>1 DEF ReadsOpened, FilledInOrder
  <2>3. Checkpoint(opened[l])[1] = <<opened[l], 1>>
    BY <2>2, FilesAssumption DEF Checkpoint
  <2>4. Append(buffer[l], data[opened[l]][Len(buffer[l]) + 1])[1] = <<opened[l], 1>>
    <3>1. PICK cell : cell = data[opened[l]][Len(buffer[l]) + 1]
      OBVIOUS
    <3>2. CASE buffer[l] = <<>>
      BY <2>2, <2>3, <3>1, <3>2
    <3>3. CASE buffer[l] # <<>>
      <4>1. buffer[l][1] = <<opened[l], 1>>
        BY <2>1, <3>3 DEF ReadsOpened
      <4>2. Append(buffer[l], cell)[1] = buffer[l][1]
        BY <3>3
      <4> QED
        BY <3>1, <4>1, <4>2
    <3> QED
      BY <3>2, <3>3
  <2>5. buffer'[l][1] = <<opened[l], 1>> /\ \A m \in Loaders \ {l} : buffer'[m] = buffer[m]
    BY <2>1, <2>4
  <2>6. ReadsOpened' <=>
          \A m \in Loaders :
            /\ lpc[m] = "read" => opened[m] \in synced
            /\ lpc[m] = "read" /\ buffer'[m] # <<>> => buffer'[m][1] = <<opened[m], 1>>
            /\ lpc[m] = "loaded" => buffer'[m] = Checkpoint(opened[m])
    BY <2>1 DEF ReadsOpened, Checkpoint
  <2> QED
    BY <2>1, <2>5, <2>6 DEF ReadsOpened
<1>7. CASE EndRead(l)
  <2>1. /\ lpc[l] = "read" /\ lpc' = [lpc EXCEPT ![l] = "loaded"] /\ UNCHANGED <<opened, buffer>>
        /\ buffer[l] # <<>> /\ buffer[l] = Checkpoint(buffer[l][1][1])
    BY <1>7 DEF EndRead, ChecksumMatches
  <2>2. buffer[l] = Checkpoint(opened[l])
    BY <2>1 DEF ReadsOpened
  <2> QED
    BY <2>1, <2>2 DEF ReadsOpened, Checkpoint
<1>8. CASE LoadFails(l)
  BY <1>8 DEF LoadFails, ReadsOpened, Checkpoint
<1> QED
  BY <1>5, <1>6, <1>7, <1>8

LEMMA NextFileInv == FileInv /\ [Next]_vars => FileInv'
<1> SUFFICES ASSUME FileInv, [Next]_vars
             PROVE  DataInv'
  BY NextNameInv DEF FileInv
<1>1. ASSUME NEW p \in Savers, BeginSave(p) \/ SaverStep(p) \/ Kill(p)
      PROVE  DataInv'
  BY <1>1, SaverKeepsDataInv
<1>2. ASSUME NEW l \in Loaders, Open(l) \/ Read(l) \/ EndRead(l) \/ LoadFails(l)
      PROVE  DataInv'
  BY <1>2, LoaderKeepsDataInv
<1>3. CASE WriteBack
  <2>1. diskDir' = dir /\ UNCHANGED <<dir, data, synced, saverVars, loaderVars, copyVars>>
    BY <1>3 DEF WriteBack
  <2> QED
    BY <2>1 DEF FileInv, DataInv, PathsAreSynced, FilledInOrder, SyncedAfterWritten, ReadsOpened,
                FileOf, Checkpoint, saverVars, loaderVars, copyVars
<1>4. CASE PowerLoss
  <2>1. PICK lost \in SUBSET (Files \ synced) :
          data' = [f \in Files |-> IF f \in lost THEN <<>> ELSE data[f]]
    BY <1>4 DEF PowerLoss
  <2>2. /\ dir' = diskDir /\ UNCHANGED <<diskDir, synced, saves, copies>> /\ copying' = NoFile
        /\ spc' = [p \in Savers |-> "idle"] /\ lpc' = [l \in Loaders |-> "idle"]
    BY <1>4 DEF PowerLoss
  <2> SUFFICES ASSUME copies = 0
               PROVE  PathsAreSynced' /\ FilledInOrder' /\ SyncedAfterWritten' /\ ReadsOpened'
    BY <2>2 DEF DataInv
  <2>3. PathsAreSynced /\ FilledInOrder /\ SyncedAfterWritten /\ synced \subseteq Files
    BY DEF FileInv, DataInv, NameInv, TypeInv, TypeOK
  <2>4. FilledInOrder'
    <3>1. \A f \in Files : Size[f] # Len(<<>>)
      BY FilesAssumption
    <3> QED
      BY <2>1, <2>2, <2>3, <3>1 DEF FilledInOrder, Checkpoint
  <2>5. SyncedAfterWritten'
    BY <2>2, <2>3 DEF SyncedAfterWritten
  <2> QED
    BY <2>2, <2>3, <2>4, <2>5 DEF PathsAreSynced, ReadsOpened
<1>5. CASE \E f \in Files : BeginCopy(f)
  BY <1>5 DEF BeginCopy, FileInv, NameInv, TypeInv, TypeOK, DataInv
<1>6. CASE CopyCell \/ EndCopy
  <2>1. copies # 0
    BY <1>6 DEF CopyCell, EndCopy, FileInv, DataInv
  <2> QED
    BY <1>6, <2>1 DEF CopyCell, EndCopy, DataInv
<1>7. CASE UNCHANGED vars
  BY <1>7 DEF vars, FileInv, DataInv, PathsAreSynced, FilledInOrder, SyncedAfterWritten,
              ReadsOpened, FileOf, Checkpoint, diskVars, saverVars, loaderVars, copyVars
<1> QED
  BY <1>1, <1>2, <1>3, <1>4, <1>5, <1>6, <1>7 DEF Next, OwnNext

\* Whatever fails or dies, and when, the path names no file or a whole
\* checkpoint (TemporaryFile::publish writes and syncs before it renames).
THEOREM PathIsAlwaysComplete == Spec => []PathIsComplete
<1>1. Init => FileInv
  BY InitNameInv, InitDataInv DEF FileInv
<1>2. FileInv /\ [Next]_vars => FileInv'
  BY NextFileInv
<1>3. FileInv => PathIsComplete
  BY DEF FileInv, DataInv, PathsAreSynced, FilledInOrder, PathIsComplete
<1> QED
  BY <1>1, <1>2, <1>3, PTL DEF Spec

\* A load returns the checkpoint its path named when it was opened, whatever
\* saves replace meanwhile.
THEOREM LoadsWhatWasOpened == Spec => []LoadIsWhatWasOpened
<1>1. Init => FileInv
  BY InitNameInv, InitDataInv DEF FileInv
<1>2. FileInv /\ [Next]_vars => FileInv'
  BY NextFileInv
<1>3. FileInv => LoadIsWhatWasOpened
  BY DEF FileInv, DataInv, ReadsOpened, LoadIsWhatWasOpened
<1> QED
  BY <1>1, <1>2, <1>3, PTL DEF Spec
-----------------------------------------------------------------------------
(* Loads, whoever writes to the file *)

\* The files that have not been under the path: their saves have not renamed
\* them, or have not begun.
Private ==
    {f \in Savers \X (1..MaxSaves) :
        \/ f[2] > saves[f[1]]
        \/ f[2] = saves[f[1]] /\ spc[f[1]] \in {"create", "write", "sync", "rename"}}

\* Nobody else knows them.
Unshared ==
    /\ dir[Path] \notin Private /\ diskDir[Path] \notin Private
    /\ copying # NoFile => copying[2] \notin Private
    /\ \A l \in Loaders : lpc[l] = "read" => opened[l] \notin Private

\* A file into which a checkpoint is copied has its first cells.
Copied == copying # NoFile => \A i \in 1..copying[3] : data[copying[2]][i] = <<copying[1], i>>

CopyInv == NameInv /\ Unshared /\ Copied

LEMMA PrivateFiles == Private \subseteq Files /\ NoFile \notin Private
  BY FilesAssumption DEF Private, Files

LEMMA InitCopyInv == Init => CopyInv
<1> SUFFICES ASSUME Init
             PROVE  Unshared /\ Copied
  BY InitNameInv DEF CopyInv
<1>1. Old \notin Private
  BY FilesAssumption DEF Private
<1> QED
  BY <1>1, PrivateFiles DEF Init, Unshared, Copied

\* A saver makes no file private, and writes to private files only.
LEMMA SaverAndPrivate ==
    ASSUME NameInv, NEW p \in Savers, BeginSave(p) \/ SaverStep(p) \/ Kill(p)
    PROVE  /\ Private' \subseteq Private
           /\ \A f \in Files \ Private : data'[f] = data[f]
           /\ dir'[Path] = dir[Path] \/ (dir'[Path] = FileOf(p) /\ FileOf(p) \notin Private')
           /\ UNCHANGED <<diskDir, loaderVars, copyVars>>
<1>1. /\ spc \in [Savers -> {"idle", "create", "write", "sync", "rename", "cleanup",
                             "saved", "failed"}]
      /\ dir \in [Names \union {Path} -> Files \union {NoFile}]
      /\ saves \in [Savers -> 0..MaxSaves] /\ MaxSaves \in Nat
      /\ data \in [Files -> Seq(Files \X Nat)]
      /\ path \in [Savers -> Names \union {NoName}]
      /\ Path \notin Names \union {NoName}
      /\ HasFile /\ HasName /\ OwnsName
  BY FilesAssumption DEF NameInv, TypeInv, TypeOK
<1> USE <1>1 DEF SaverGoto, FileOf
<1>2. CASE BeginSave(p)
  <2>1. /\ saves' = [saves EXCEPT ![p] = @ + 1] /\ UNCHANGED <<diskVars, loaderVars, copyVars>>
        /\ \E step \in {"create", "failed"} : spc' = [spc EXCEPT ![p] = step]
    BY <1>2 DEF BeginSave
  <2>2. \A q \in Savers \ {p} : spc'[q] = spc[q] /\ saves'[q] = saves[q]
    BY <2>1
  <2>3. saves'[p] = saves[p] + 1 /\ saves[p] \in Nat
    BY <2>1
  <2> QED
    BY <2>1, <2>2, <2>3 DEF Private, diskVars
<1>3. CASE CreateTemporary(p)
  <2>1. /\ spc[p] = "create" /\ \A q \in Savers \ {p} : spc'[q] = spc[q]
        /\ dir'[Path] = dir[Path] /\ UNCHANGED <<data, diskDir, saves, loaderVars, copyVars>>
    BY <1>3 DEF CreateTemporary
  <2> QED
    BY <2>1 DEF Private
<1>4. CASE CreateFails(p) \/ EndWrite(p) \/ SyncAndClose(p) \/ PublishFails(p) \/ RemoveFails(p)
           \/ Kill(p)
  <2>1. /\ spc[p] \in {"create", "write", "sync", "rename"} \/ spc'[p] \in {"idle", "saved", "failed"}
        /\ \A q \in Savers \ {p} : spc'[q] = spc[q]
        /\ UNCHANGED <<dir, data, diskDir, saves, loaderVars, copyVars>>
    BY <1>4 DEF CreateFails, EndWrite, SyncAndClose, PublishFails, RemoveFails, SaveEnd, Kill,
                diskVars
  <2> QED
    BY <2>1 DEF Private
<1>5. CASE Write(p)
  <2>1. FileOf(p) \in Private
    BY <1>5 DEF Write, Private, HasFile, SaveEnded
  <2>2. PICK cells : data' = [data EXCEPT ![FileOf(p)] = cells]
    BY <1>5 DEF Write
  <2>3. UNCHANGED <<dir, diskDir, spc, saves, loaderVars, copyVars>>
    BY <1>5 DEF Write, saverVars
  <2> QED
    BY <2>1, <2>2, <2>3 DEF Private
<1>6. CASE Rename(p)
  <2>1. path[p] \in Names /\ dir[path[p]] = FileOf(p)
    BY <1>6, FilesAssumption DEF Rename, HasName, OwnsName
  <2>2. /\ dir'[Path] = FileOf(p) /\ spc' = [spc EXCEPT ![p] = "cleanup"]
        /\ UNCHANGED <<diskDir, data, saves, loaderVars, copyVars>>
    BY <1>6, <2>1 DEF Rename
  <2>3. Private' \subseteq Private /\ FileOf(p) \notin Private'
    BY <2>2 DEF Private
  <2> QED
    BY <2>2, <2>3
<1>7. CASE Cleanup(p)
  <2>1. /\ dir'[Path] = dir[Path] /\ spc'[p] \in {"saved", "failed"}
        /\ \A q \in Savers \ {p} : spc'[q] = spc[q]
        /\ UNCHANGED <<data, diskDir, saves, loaderVars, copyVars>>
    BY <1>7 DEF Cleanup, RemovePath, SaveEnd
  <2> QED
    BY <2>1 DEF Private
<1> QED
  BY <1>2, <1>3, <1>4, <1>5, <1>6, <1>7 DEF SaverStep

LEMMA NextCopyInv == CopyInv /\ [Next]_vars => CopyInv'
<1> SUFFICES ASSUME CopyInv, [Next]_vars
             PROVE  Unshared' /\ Copied'
  BY NextNameInv DEF CopyInv
<1>1. /\ TypeInv /\ Unshared /\ Copied /\ copying \in (Files \X Files \X Nat) \union {NoFile}
      /\ data \in [Files -> Seq(Files \X Nat)]
      /\ lpc \in [Loaders -> {"idle", "read", "loaded", "rejected"}]
      /\ opened \in [Loaders -> Files \union {NoFile}]
  BY DEF CopyInv, NameInv, TypeInv, TypeOK
<1> USE <1>1
<1>2. ASSUME NEW p \in Savers, BeginSave(p) \/ SaverStep(p) \/ Kill(p)
      PROVE  Unshared' /\ Copied'
  <2>1. /\ Private' \subseteq Private
        /\ \A f \in Files \ Private : data'[f] = data[f]
        /\ dir'[Path] = dir[Path] \/ (dir'[Path] = FileOf(p) /\ FileOf(p) \notin Private')
        /\ UNCHANGED <<diskDir, lpc, opened, copying>>
    BY <1>2, SaverAndPrivate DEF CopyInv, loaderVars, copyVars
  <2>2. Unshared'
    BY <2>1 DEF Unshared
  <2>3. copying # NoFile => copying[2] \in Files \ Private
    BY DEF Unshared
  <2> QED
    BY <2>1, <2>2, <2>3 DEF Copied
<1>3. CASE PowerLoss
  <2>1. /\ dir' = diskDir /\ UNCHANGED <<diskDir, saves>> /\ copying' = NoFile
        /\ spc' = [q \in Savers |-> "idle"] /\ lpc' = [m \in Loaders |-> "idle"]
    BY <1>3 DEF PowerLoss
  <2>2. Private' \subseteq Private
    BY <2>1 DEF Private
  <2> QED
    BY <2>1, <2>2 DEF Unshared, Copied
<1>4. ASSUME UNCHANGED <<spc, saves>>
      PROVE  Private' = Private
  BY <1>4 DEF Private
<1>5. ASSUME NEW l \in Loaders, Open(l) \/ Read(l) \/ EndRead(l) \/ LoadFails(l)
      PROVE  Unshared' /\ Copied'
  <2>1. UNCHANGED <<dir, diskDir, data, spc, saves, copying>>
    BY <1>5 DEF Open, Read, EndRead, LoadFails, diskVars, saverVars, copyVars
  <2>2. \A m \in Loaders : lpc'[m] = "read" =>
          (lpc[m] = "read" /\ opened'[m] = opened[m]) \/ opened'[m] = dir[Path]
    BY <1>5 DEF Open, Read, EndRead, LoadFails, LoaderGoto
  <2> QED
    BY <1>4, <2>1, <2>2 DEF Unshared, Copied
<1>6. CASE WriteBack \/ UNCHANGED vars
  <2>1. /\ UNCHANGED <<dir, data, spc, saves, copying, lpc, opened>>
        /\ diskDir' \in {diskDir, dir}
    BY <1>6 DEF WriteBack, vars, diskVars, saverVars, loaderVars, copyVars
  <2> QED
    BY <1>4, <2>1 DEF Unshared, Copied
<1>7. ASSUME NEW f \in Files, BeginCopy(f)
      PROVE  Unshared' /\ Copied'
  <2>1. /\ copying'[2] = dir[Path] /\ copying'[3] = 0
        /\ UNCHANGED <<dir, diskDir, spc, saves, lpc, opened>>
    BY <1>7 DEF BeginCopy, saverVars, loaderVars
  <2>2. 1..copying'[3] = {}
    BY <2>1
  <2> QED
    BY <1>4, <2>1, <2>2 DEF Unshared, Copied
<1>8. CASE CopyCell
  <2>1. /\ copying # NoFile /\ copying[1] \in Files /\ copying[2] \in Files /\ copying[3] \in Nat
        /\ copying' = <<copying[1], copying[2], copying[3] + 1>>
        /\ data' = [data EXCEPT ![copying[2]] =
                        WrittenAt(@, copying[3] + 1, <<copying[1], copying[3] + 1>>)]
        /\ UNCHANGED <<dir, diskDir, spc, saves, lpc, opened>>
    BY <1>8 DEF CopyCell, saverVars, loaderVars
  <2>2. Unshared'
    BY <1>4, <2>1 DEF Unshared
  <2>3. copying[3] <= Len(data[copying[2]]) /\ data[copying[2]] \in Seq(Files \X Nat)
    BY <2>1 DEF TypeInv, HasCopied
  <2>4. \A i \in 1..(copying[3] + 1) : data'[copying[2]][i] = <<copying[1], i>>
    <3> SUFFICES ASSUME NEW i \in 1..(copying[3] + 1)
                 PROVE  data'[copying[2]][i] = <<copying[1], i>>
      OBVIOUS
    <3>1. PICK cells, n, g : cells = data[copying[2]] /\ n = copying[3] /\ g = copying[1]
      OBVIOUS
    <3>2. cells \in Seq(Files \X Nat) /\ n \in Nat /\ n <= Len(cells) /\ g \in Files
      BY <2>1, <2>3, <3>1
    <3>5. PICK m \in Nat \ {0} : m = n + 1 /\ m <= Len(cells) + 1
      BY <3>2
    <3>8. PICK written : written = WrittenAt(cells, m, <<g, m>>)
      OBVIOUS
    <3>9. /\ WrittenAt(cells, m, <<g, m>>)[m] = <<g, m>>
          /\ \A j \in 1..Len(cells) : j # m => WrittenAt(cells, m, <<g, m>>)[j] = cells[j]
      BY <3>2, <3>5, CellWritten
    <3>6. /\ written[m] = <<g, m>>
          /\ \A j \in 1..Len(cells) : j # m => written[j] = cells[j]
      BY <3>8, <3>9
    <3>7. data'[copying[2]] = written
      BY <2>1, <3>1, <3>5, <3>8
    <3>3. CASE i = m
      BY <3>1, <3>3, <3>6, <3>7
    <3>4. CASE i # m
      <4>1. i \in 1..n /\ i \in 1..Len(cells)
        <5> HIDE <1>1
        <5>1. i \in 1..(n + 1)
          BY <3>1
        <5> QED
          BY <3>2, <3>4, <3>5, <5>1
      <4>2. cells[i] = <<g, i>>
        BY <2>1, <3>1, <4>1 DEF Copied
      <4> QED
        BY <3>1, <3>4, <3>6, <3>7, <4>1, <4>2
    <3> QED
      BY <3>3, <3>4
  <2> QED
    BY <2>1, <2>2, <2>4 DEF Copied
<1>9. CASE EndCopy
  BY <1>4, <1>9 DEF EndCopy, Unshared, Copied, saverVars, loaderVars
<1> QED
  BY <1>2, <1>3, <1>5, <1>6, <1>7, <1>8, <1>9 DEF Next, OwnNext

Holds(cells, f, i) == i <= Len(cells) /\ cells[i] = <<f, i>>

\* A cell that the loader has not read yet is not that of checkpoint f.
Missing(l, f) ==
    \E i \in 1..Size[f] : Len(buffer[l]) < i /\ ~Holds(data[opened[l]], f, i)

\* Checkpoint f is being copied over a longer file, and all of it is there.
Overlaid(l, f) ==
    /\ copying # NoFile /\ copying[1] = f /\ copying[2] = opened[l]
    /\ Size[f] < Len(data[opened[l]])
    /\ \A i \in 1..Size[f] : Holds(data[opened[l]], f, i)

HasRead(l, f) == \A i \in 1..Len(buffer[l]) : buffer[l][i] = <<f, i>>

\* If the cells that were read are of a checkpoint that the file was not since
\* it was opened, then it is not now, and cannot become it unnoticed.
Reading ==
    \A l \in Loaders, f \in Files :
        lpc[l] = "read" /\ f \notin held[l] /\ Size[f] = length[l] /\ HasRead(l, f) =>
            Missing(l, f) \/ Overlaid(l, f)

RaceInv ==
    /\ CopyInv
    /\ held \in [Loaders -> SUBSET Files]
    /\ Reading
    /\ LoadIsAtomic

LEMMA CellsOfCheckpoint ==
    ASSUME NEW f \in Files, NEW cells \in Seq(Files \X Nat), Len(cells) = Size[f],
           \A i \in 1..Size[f] : cells[i] = <<f, i>>
    PROVE  cells = Checkpoint(f)
  BY FilesAssumption DEF Checkpoint

LEMMA InitRaceInv == LoadRaceInit => RaceInv
<1> SUFFICES ASSUME LoadRaceInit
             PROVE  RaceInv
  OBVIOUS
<1>1. CopyInv
  BY InitCopyInv DEF LoadRaceInit
<1>2. held \in [Loaders -> SUBSET Files] /\ \A l \in Loaders : lpc[l] = "idle"
  BY DEF LoadRaceInit, Init
<1> QED
  BY <1>1, <1>2 DEF RaceInv, Reading, LoadIsAtomic

\* What a loader has in its hands while another actor takes a step.
LEMMA NextReading == RaceInv /\ LoadRaceNext => Reading'
<1> SUFFICES ASSUME RaceInv, LoadRaceNext, NEW l \in Loaders, NEW f \in Files,
                    lpc'[l] = "read", f \notin held'[l], Size[f] = length'[l], HasRead(l, f)'
             PROVE  Missing(l, f)' \/ Overlaid(l, f)'
  BY DEF Reading
<1>1. /\ CopyInv /\ TypeInv /\ Unshared /\ Copied
      /\ data \in [Files -> Seq(Files \X Nat)]
      /\ lpc \in [Loaders -> {"idle", "read", "loaded", "rejected"}]
      /\ opened \in [Loaders -> Files \union {NoFile}]
      /\ length \in [Loaders -> Nat]
      /\ buffer \in [Loaders -> Seq(Files \X Nat)]
      /\ copying \in (Files \X Files \X Nat) \union {NoFile}
      /\ Next /\ RecordHeld /\ Size[f] \in Nat \ {0}
  BY FilesAssumption DEF RaceInv, CopyInv, NameInv, TypeInv, TypeOK, LoadRaceNext
<1>2. TypeInv' /\ opened'[l] \in Files /\ data'[opened'[l]] \in Seq(Files \X Nat)
  BY <1>1, NextTypeInv DEF TypeInv, TypeOK, HasOpened
<1>3. data'[opened'[l]] # Checkpoint(f) /\ (lpc[l] = "read" => f \notin held[l])
  BY <1>1 DEF RecordHeld, HeldNow, Checkpoint
<1>4. \/ Len(data'[opened'[l]]) # Size[f]
      \/ \E i \in 1..Size[f] : data'[opened'[l]][i] # <<f, i>>
  BY <1>2, <1>3, CellsOfCheckpoint
<1>5. ASSUME lpc[l] = "read", opened'[l] = opened[l], length'[l] = length[l], HasRead(l, f)
      PROVE  Missing(l, f) \/ Overlaid(l, f)
  BY <1>3, <1>5 DEF RaceInv, Reading
<1>6. ASSUME lpc[l] = "read", opened'[l] = opened[l], length'[l] = length[l],
             buffer'[l] = buffer[l], data'[opened[l]] = data[opened[l]],
             UNCHANGED copying \/ copying = NoFile \/ copying[2] # opened[l]
      PROVE  Missing(l, f)' \/ Overlaid(l, f)'
  <2>1. HasRead(l, f)
    BY <1>6 DEF HasRead
  <2> QED
    BY <1>5, <1>6, <2>1 DEF Missing, Overlaid
<1>7. ASSUME NEW p \in Savers, BeginSave(p) \/ SaverStep(p) \/ Kill(p)
      PROVE  Missing(l, f)' \/ Overlaid(l, f)'
  <2>1. /\ \A g \in Files \ Private : data'[g] = data[g]
        /\ UNCHANGED <<loaderVars, copyVars>>
    BY <1>1, <1>7, SaverAndPrivate DEF CopyInv
  <2>2. UNCHANGED <<lpc, opened, length, buffer, copying>>
    BY <2>1 DEF loaderVars, copyVars
  <2>3. opened[l] \in Files \ Private
    BY <1>1, <2>2 DEF Unshared, TypeInv, HasOpened
  <2> QED
    BY <1>6, <2>1, <2>2, <2>3
<1>8. CASE Open(l)
  <2>1. /\ opened'[l] = dir[Path] /\ length'[l] = Len(data[dir[Path]]) /\ buffer'[l] = <<>>
        /\ data' = data
    BY <1>1, <1>8 DEF Open, diskVars
  <2>2. PICK i \in 1..Size[f] : data'[opened'[l]][i] # <<f, i>>
    BY <1>4, <2>1
  <2> QED
    BY <2>1, <2>2 DEF Missing, Holds
<1>9. CASE Read(l)
  <2>1. PICK cells, r : cells = data[opened[l]] /\ r = Len(buffer[l])
    OBVIOUS
  <2>2. /\ lpc[l] = "read" /\ UNCHANGED <<opened, length, data, copying>>
        /\ r \in Nat /\ r + 1 <= Len(cells)
        /\ buffer'[l] = Append(buffer[l], cells[r + 1])
    BY <1>1, <1>9, <2>1 DEF Read, CellsOpened, diskVars, copyVars
  <2>3. PICK cell : cell = cells[r + 1]
    OBVIOUS
  <2>4. /\ Len(buffer'[l]) = r + 1 /\ buffer'[l][r + 1] = cell
        /\ \A i \in 1..r : buffer'[l][i] = buffer[l][i]
    BY <1>1, <2>1, <2>2, <2>3
  <2>5. \A i \in 1..(r + 1) : buffer'[l][i] = <<f, i>>
    BY <2>4 DEF HasRead
  <2>6. HasRead(l, f)
    BY <2>1, <2>2, <2>4, <2>5 DEF HasRead
  <2>7. Holds(cells, f, r + 1)
    BY <2>2, <2>3, <2>4, <2>5 DEF Holds
  <2>8. CASE Overlaid(l, f)
    BY <2>2, <2>8 DEF Overlaid
  <2>9. CASE Missing(l, f)
    <3>1. PICK i \in 1..Size[f] : r < i /\ ~Holds(cells, f, i)
      BY <2>1, <2>9 DEF Missing
    <3>2. r + 1 < i
      BY <1>1, <2>2, <2>7, <3>1
    <3> QED
      BY <2>1, <2>2, <2>4, <3>1, <3>2 DEF Missing
  <2> QED
    BY <1>5, <2>2, <2>6, <2>8, <2>9
<1>10. CASE EndRead(l) \/ LoadFails(l) \/ PowerLoss
  BY <1>1, <1>10 DEF EndRead, LoadFails, LoaderGoto, PowerLoss
<1>11. ASSUME NEW m \in Loaders, m # l, Open(m) \/ Read(m) \/ EndRead(m) \/ LoadFails(m)
       PROVE  Missing(l, f)' \/ Overlaid(l, f)'
  <2>1. /\ UNCHANGED <<data, copying>>
        /\ lpc'[l] = lpc[l] /\ opened'[l] = opened[l] /\ length'[l] = length[l]
        /\ buffer'[l] = buffer[l]
    BY <1>1, <1>11 DEF Open, Read, EndRead, LoadFails, LoaderGoto, diskVars, copyVars
  <2> QED
    BY <1>6, <2>1
<1>12. CASE WriteBack
  BY <1>6, <1>12 DEF WriteBack, loaderVars, copyVars
<1>13. ASSUME NEW g \in Files, BeginCopy(g)
       PROVE  Missing(l, f)' \/ Overlaid(l, f)'
  <2>1. /\ copying = NoFile /\ UNCHANGED <<lpc, opened, length, buffer>>
        /\ \E kept \in {<<>>, data[dir[Path]]} : data' = [data EXCEPT ![dir[Path]] = kept]
    BY <1>13 DEF BeginCopy, loaderVars
  <2>2. data'[opened[l]] = data[opened[l]] \/ data'[opened[l]] = <<>>
    BY <1>1, <1>2, <2>1
  <2>3. CASE data'[opened[l]] = <<>>
    <3>1. ~Holds(<<>>, f, Size[f])
      BY <1>1 DEF Holds
    <3>2. HasRead(l, f)
      BY <2>1 DEF HasRead
    <3>3. Missing(l, f)
      BY <1>5, <2>1, <3>2 DEF Overlaid
    <3>4. Len(buffer[l]) < Size[f]
      BY <1>1, <3>3 DEF Missing
    <3> QED
      <4>1. data'[opened'[l]] = <<>> /\ buffer'[l] = buffer[l] /\ Size[f] \in 1..Size[f]
        BY <1>1, <2>1, <2>3
      <4> QED
        BY <3>1, <3>4, <4>1 DEF Missing
  <2> QED
    BY <1>6, <2>1, <2>2, <2>3
<1>14. CASE CopyCell \/ EndCopy
  <2>1. /\ copying # NoFile /\ copying[1] \in Files /\ copying[2] \in Files /\ copying[3] \in Nat
        /\ UNCHANGED <<lpc, opened, length, buffer>>
        /\ \E cells : data' = [data EXCEPT ![copying[2]] = cells]
    BY <1>1, <1>14 DEF CopyCell, EndCopy, loaderVars
  <2>2. CASE copying[2] # opened[l]
    BY <1>1, <1>2, <1>6, <2>1, <2>2
  <2>3. CASE copying[2] = opened[l]
    <3>1. PICK cells, written, g, n :
            /\ cells = data[opened[l]] /\ written = data'[opened[l]]
            /\ g = copying[1] /\ n = copying[3]
      OBVIOUS
    <3>2. /\ cells \in Seq(Files \X Nat) /\ written \in Seq(Files \X Nat)
          /\ g \in Files /\ n \in Nat /\ n <= Len(cells)
          /\ \A i \in 1..n : cells[i] = <<g, i>>
      BY <1>1, <1>2, <2>1, <2>3, <3>1 DEF TypeInv, HasCopied, Copied
    <3>3. \/ Len(written) # Size[f]
          \/ \E i \in 1..Size[f] : written[i] # <<f, i>>
      BY <1>4, <2>1, <3>1
    <3>4. Missing(l, f) \/ Overlaid(l, f)
      <4>1. HasRead(l, f)
        BY <2>1 DEF HasRead
      <4> QED
        BY <1>5, <2>1, <4>1
    <3>5. /\ Missing(l, f) => \E i \in 1..Size[f] : Len(buffer[l]) < i /\ ~Holds(cells, f, i)
          /\ Overlaid(l, f) => /\ g = f /\ Size[f] < Len(cells)
                               /\ \A i \in 1..Size[f] : Holds(cells, f, i)
          /\ (\E i \in 1..Size[f] : Len(buffer[l]) < i /\ ~Holds(written, f, i)) => Missing(l, f)'
      BY <2>1, <3>1 DEF Missing, Overlaid
    <3>6. CASE CopyCell
      <4>1. PICK m \in Nat \ {0} : m = n + 1 /\ m <= Len(cells) + 1
        BY <3>2
      <4>2. written = WrittenAt(cells, m, <<g, m>>) /\ copying' = <<g, opened[l], m>>
        BY <1>1, <2>1, <2>3, <3>1, <3>6, <4>1 DEF CopyCell
      <4>3. Len(WrittenAt(cells, m, <<g, m>>)) = IF m <= Len(cells) THEN Len(cells) ELSE m
        BY <3>2, <4>1, CellWrittenLength
      <4>4. /\ WrittenAt(cells, m, <<g, m>>)[m] = <<g, m>>
            /\ \A i \in 1..Len(cells) : i # m => WrittenAt(cells, m, <<g, m>>)[i] = cells[i]
        BY <3>2, <4>1, CellWritten
      <4>5. /\ written[m] = <<g, m>>
            /\ m <= Len(written) /\ Len(written) \in {m, Len(cells)} /\ Len(cells) <= Len(written)
            /\ \A i \in 1..Len(cells) : i # m => written[i] = cells[i]
        <5>1. Len(written) = IF m <= Len(cells) THEN Len(cells) ELSE m
          BY <4>2, <4>3
        <5>2. Len(cells) \in Nat
          BY <3>2
        <5>3. m <= Len(written) /\ Len(written) \in {m, Len(cells)} /\ Len(cells) <= Len(written)
          BY <4>1, <5>1, <5>2
        <5> QED
          BY <4>2, <4>4, <5>3
      <4>6. \A i \in 1..Size[f] : i # m => (Holds(written, f, i) <=> Holds(cells, f, i))
        <5> SUFFICES ASSUME NEW i \in 1..Size[f], i # m
                     PROVE  Holds(written, f, i) <=> Holds(cells, f, i)
          OBVIOUS
        <5>1. i \in Nat \ {0} /\ Len(cells) \in Nat
          BY <1>1, <3>2
        <5>2. CASE i <= Len(cells)
          BY <4>1, <4>5, <5>1, <5>2 DEF Holds
        <5>3. CASE Len(cells) < i
          BY <4>1, <4>5, <5>1, <5>3 DEF Holds
        <5> QED
          BY <5>1, <5>2, <5>3
      <4>7. /\ copying' # NoFile /\ copying'[1] = g /\ copying'[2] = opened'[l]
            /\ data'[opened'[l]] = written
        <5>1. opened'[l] = opened[l] /\ opened[l] \in Files
          BY <1>2, <2>1
        <5>2. <<g, opened[l], m>> # NoFile
          BY <3>2, <5>1, FilesAssumption
        <5> QED
          BY <3>1, <4>2, <5>1, <5>2
      <4>8. ASSUME g = f, Size[f] < Len(written), \A i \in 1..Size[f] : Holds(written, f, i)
            PROVE  Overlaid(l, f)'
        BY <4>7, <4>8 DEF Overlaid
      <4>9. CASE Overlaid(l, f)
        <5>1. Size[f] < Len(written)
          <6>1. Size[f] \in Nat /\ Len(cells) \in Nat /\ Len(written) \in Nat
            BY <1>1, <3>2
          <6>2. Size[f] < Len(cells) /\ Len(cells) <= Len(written)
            BY <3>5, <4>5, <4>9
          <6> QED
            BY <6>1, <6>2
        <5>2. Holds(written, f, m) /\ g = f
          BY <3>5, <4>5, <4>9 DEF Holds
        <5> QED
          BY <3>5, <4>6, <4>8, <4>9, <5>1, <5>2
      <4>10. CASE Missing(l, f)
        <5>1. PICK i \in 1..Size[f] : Len(buffer[l]) < i /\ ~Holds(cells, f, i)
          BY <3>5, <4>10
        <5>2. CASE i # m
          BY <3>5, <4>6, <5>1, <5>2
        <5>3. CASE i = m /\ g # f
          BY <3>5, <4>5, <5>1, <5>3 DEF Holds
        <5>4. CASE i = m /\ g = f
          <6>1. Holds(written, f, m)
            BY <4>5, <5>4 DEF Holds
          <6>2. \A j \in 1..Size[f] : j < m => Holds(written, f, j)
            <7>1. \A j \in 1..Size[f] : j < m => Holds(cells, f, j)
              BY <3>2, <4>1, <5>4 DEF Holds
            <7> QED
              BY <4>6, <7>1
          <6>3. CASE \E j \in 1..Size[f] : m < j /\ ~Holds(written, f, j)
            <7>1. PICK j \in 1..Size[f] : m < j /\ ~Holds(written, f, j)
              BY <6>3
            <7>2. Len(buffer[l]) < j
              BY <1>1, <5>1, <5>4, <7>1
            <7> QED
              BY <3>5, <7>1, <7>2
          <6>4. CASE \A j \in 1..Size[f] : m < j => Holds(written, f, j)
            <7>1. \A j \in 1..Size[f] : Holds(written, f, j)
              BY <1>1, <6>1, <6>2, <6>4
            <7>2. \A j \in 1..Size[f] : written[j] = <<f, j>>
              BY <7>1 DEF Holds
            <7>3. Holds(written, f, Size[f])
              <8>1. Size[f] \in 1..Size[f]
                BY <1>1
              <8> QED
                BY <7>1, <8>1
            <7>4. Size[f] <= Len(written) /\ Len(written) # Size[f]
              BY <3>3, <7>2, <7>3 DEF Holds
            <7>5. Size[f] < Len(written)
              <8>1. Size[f] \in Nat /\ Len(written) \in Nat
                BY <1>1, <3>2
              <8> QED
                BY <7>4, <8>1
            <7> QED
              BY <4>8, <5>4, <7>1, <7>5
          <6> QED
            BY <6>3, <6>4
        <5> QED
          BY <5>2, <5>3, <5>4
      <4> QED
        BY <3>4, <4>9, <4>10
    <3>7. CASE EndCopy
      <4>1. n = Size[g] /\ written = SubSeq(cells, 1, n)
        BY <1>1, <2>1, <2>3, <3>1, <3>7 DEF EndCopy
      <4>2. Len(written) = n /\ \A i \in 1..n : written[i] = <<g, i>>
        BY <3>2, <4>1, PrefixType
      <4>3. g # f
        BY <3>3, <4>1, <4>2
      <4>4. PICK i \in 1..Size[f] : Len(buffer[l]) < i /\ ~Holds(cells, f, i)
        BY <3>4, <3>5, <4>3
      <4>5. ~Holds(written, f, i)
        BY <1>1, <3>2, <4>2, <4>3 DEF Holds
      <4> QED
        BY <3>5, <4>4, <4>5
    <3> QED
      BY <1>14, <3>6, <3>7
  <2> QED
    BY <2>2, <2>3
<1> QED
  BY <1>1, <1>7, <1>8, <1>9, <1>10, <1>11, <1>12, <1>13, <1>14 DEF Next, OwnNext

\* A load that returns has found each cell that it read in its place.
LEMMA NextLoadIsAtomic == RaceInv /\ LoadRaceNext => LoadIsAtomic'
<1> SUFFICES ASSUME RaceInv, LoadRaceNext, NEW l \in Loaders, lpc'[l] = "loaded"
             PROVE  \E f \in held'[l] : buffer'[l] = Checkpoint(f)
  BY DEF LoadIsAtomic, Checkpoint
<1>1. /\ lpc \in [Loaders -> {"idle", "read", "loaded", "rejected"}]
      /\ buffer \in [Loaders -> Seq(Files \X Nat)] /\ length \in [Loaders -> Nat]
      /\ data \in [Files -> Seq(Files \X Nat)] /\ opened[l] \in Files \union {NoFile}
      /\ lpc[l] = "read" => opened[l] \in Files
      /\ held'[l] = held[l] /\ Next
  BY DEF RaceInv, CopyInv, NameInv, TypeInv, TypeOK, HasOpened, LoadRaceNext, RecordHeld
<1>2. CASE EndRead(l)
  <2>1. /\ lpc[l] = "read" /\ buffer'[l] = buffer[l] /\ buffer[l] # <<>>
        /\ Len(buffer[l]) = length[l] /\ Len(data[opened[l]]) <= length[l]
        /\ buffer[l] = Checkpoint(buffer[l][1][1])
    BY <1>2 DEF EndRead, AtEnd, CellsOpened, ChecksumMatches
  <2>2. PICK f \in Files : f = buffer[l][1][1]
    <3>1. buffer[l][1] \in Files \X Nat
      BY <1>1, <2>1
    <3> QED
      BY <3>1
  <2>3. Size[f] \in Nat /\ length[l] = Size[f] /\ buffer[l] = Checkpoint(f)
    BY <2>1, <2>2, CheckpointType, FilesAssumption
  <2>4. HasRead(l, f)
    BY <2>1, <2>3 DEF HasRead, Checkpoint
  <2>5. ~Missing(l, f)
    BY <2>1, <2>3 DEF Missing
  <2>6. ~Overlaid(l, f)
    BY <1>1, <2>1, <2>3 DEF Overlaid
  <2>7. f \in held[l]
    BY <2>1, <2>3, <2>4, <2>5, <2>6 DEF RaceInv, Reading
  <2> QED
    BY <1>1, <2>1, <2>3, <2>7
<1>3. CASE ~EndRead(l)
  <2>1. lpc[l] = "loaded" /\ buffer'[l] = buffer[l]
    <3>1. ASSUME NEW m \in Loaders, Open(m) \/ Read(m) \/ EndRead(m) \/ LoadFails(m)
          PROVE  lpc[l] = "loaded" /\ buffer'[l] = buffer[l]
      BY <1>1, <1>3, <3>1 DEF Open, Read, EndRead, LoadFails, LoaderGoto
    <3>2. CASE PowerLoss
      BY <3>2 DEF PowerLoss
    <3>3. ASSUME NEW p \in Savers, BeginSave(p) \/ SaverStep(p) \/ Kill(p)
          PROVE  UNCHANGED loaderVars
      BY <3>3, SaverAndPrivate DEF RaceInv, CopyInv
    <3>4. WriteBack \/ (\E f \in Files : BeginCopy(f)) \/ CopyCell \/ EndCopy =>
            UNCHANGED loaderVars
      BY DEF WriteBack, BeginCopy, CopyCell, EndCopy
    <3> QED
      BY <1>1, <3>1, <3>2, <3>3, <3>4 DEF Next, OwnNext, loaderVars
  <2> QED
    BY <1>1, <2>1 DEF RaceInv, LoadIsAtomic
<1> QED
  BY <1>2, <1>3

LEMMA NextRaceInv == RaceInv /\ [LoadRaceNext]_<<vars, held>> => RaceInv'
<1> SUFFICES ASSUME RaceInv, [LoadRaceNext]_<<vars, held>>
             PROVE  RaceInv'
  OBVIOUS
<1>1. CopyInv'
  BY NextCopyInv DEF RaceInv, LoadRaceNext
<1>2. CASE LoadRaceNext
  <2>1. held' \in [Loaders -> SUBSET Files]
    BY <1>2 DEF LoadRaceNext, RecordHeld, HeldNow, RaceInv
  <2> QED
    BY <1>1, <1>2, <2>1, NextReading, NextLoadIsAtomic DEF RaceInv
<1>3. CASE UNCHANGED <<vars, held>>
  <2>1. UNCHANGED <<data, lpc, opened, length, buffer, copying, held>>
    BY <1>3 DEF vars, diskVars, loaderVars, copyVars
  <2>2. Reading'
    <3> SUFFICES ASSUME NEW l \in Loaders, NEW f \in Files,
                        lpc'[l] = "read", f \notin held'[l], Size[f] = length'[l], HasRead(l, f)'
                 PROVE  Missing(l, f)' \/ Overlaid(l, f)'
      BY DEF Reading
    <3>1. HasRead(l, f)
      BY <2>1 DEF HasRead
    <3>2. Missing(l, f) \/ Overlaid(l, f)
      BY <2>1, <3>1 DEF RaceInv, Reading
    <3> QED
      BY <2>1, <3>2 DEF Missing, Overlaid
  <2>3. LoadIsAtomic'
    BY <2>1 DEF RaceInv, LoadIsAtomic, Checkpoint
  <2> QED
    BY <1>1, <2>1, <2>2, <2>3 DEF RaceInv
<1> QED
  BY <1>2, <1>3

\* A load that throws nothing returns a checkpoint which the file it opened
\* was, from beginning to end, at one moment meanwhile: whatever saves replace
\* it, and however often other programs rewrite it under the reader.
THEOREM LoadsAreAtomic == LoadRaceSpec => []LoadIsAtomic
<1>1. LoadRaceInit => RaceInv
  BY InitRaceInv
<1>2. RaceInv /\ [LoadRaceNext]_<<vars, held>> => RaceInv'
  BY NextRaceInv
<1>3. RaceInv => LoadIsAtomic
  BY DEF RaceInv
<1> QED
  BY <1>1, <1>2, <1>3, PTL DEF LoadRaceSpec

-----------------------------------------------------------------------------
(* Session *)

\* A session takes the steps of SnapshotFile, and no foreign rewrites.
LEMMA SessionStep == [SessionNext]_allVars => [Next]_vars /\ copies' = copies
<1>1. [OwnNext]_vars => copies' = copies
  BY DEF OwnNext, vars, copyVars, BeginSave, SaverStep, CreateTemporary, CreateFails, Write,
         EndWrite, SyncAndClose, Rename, PublishFails, Cleanup, RemoveFails, Kill, Open, Read,
         EndRead, LoadFails, WriteBack, PowerLoss
<1>2. [SessionNext]_allVars => [OwnNext]_vars
  BY DEF SessionNext, StartEmpty, LoadStep, LoadReturns, ChangeAndSave, SaveStep, Die,
         LosePower, WritesBack, OwnNext, allVars
<1> QED
  BY <1>1, <1>2 DEF Next

\* While the application is down nothing but a power loss changes the path, so
\* that it loads what the path names; while it is up the index has all that was
\* acknowledged, a running save writes all that the index has, and one that has
\* forgotten its temporary name has put its file under the path.
Safe ==
    /\ acked \subseteq Contents(dir[Path])
    /\ up => acked \subseteq memory /\ \A l \in Loaders : LoadEnded(l)
    /\ ~up => /\ \A p \in Savers : SaveEnded(p)
              /\ \A l \in Loaders : lpc[l] = "read" => opened[l] = dir[Path]
    /\ \A p \in Savers : ~SaveEnded(p) => contents[FileOf(p)] = memory
    /\ \A p \in Savers :
         spc[p] = "cleanup" /\ path[p] = NoName => dir[Path] = FileOf(p)

SessionType ==
    /\ up \in BOOLEAN
    /\ memory \subseteq Files
    /\ contents \in [Files -> SUBSET Files]

SessionInv == SessionType /\ copies = 0 /\ Safe

Inv == FileInv /\ SessionInv

LEMMA InitSession == SessionInit => Inv
<1> SUFFICES ASSUME SessionInit
             PROVE  SessionInv
  BY InitNameInv, InitDataInv DEF SessionInit, FileInv, Inv
<1> QED
  BY DEF SessionInit, SessionInv, SessionType, Safe, Init, SaveEnded, LoadEnded

LEMMA StartEmptyIsSafe == Inv /\ StartEmpty => Safe'
<1> SUFFICES ASSUME Inv, StartEmpty
             PROVE  Safe'
  OBVIOUS
<1>1. /\ ~up /\ up' = TRUE /\ memory' = {} /\ UNCHANGED <<vars, contents, acked>>
      /\ dir[Path] = NoFile /\ \A l \in Loaders : LoadEnded(l)
  BY DEF StartEmpty
<1>2. acked = {} /\ \A p \in Savers : SaveEnded(p)
  BY <1>1 DEF Inv, SessionInv, Safe, Contents
<1>3. UNCHANGED <<dir, spc, saves, path, lpc>>
  BY <1>1 DEF vars, diskVars, saverVars, loaderVars
<1> QED
  BY <1>1, <1>2, <1>3 DEF Safe, SaveEnded, LoadEnded

LEMMA LoadStepIsSafe == Inv /\ (\E l \in Loaders : LoadStep(l)) => Safe'
<1> SUFFICES ASSUME Inv, NEW l \in Loaders, LoadStep(l)
             PROVE  Safe'
  OBVIOUS
<1> USE DEF Inv, SessionInv, SessionType, Safe
<1>1. ~up /\ UNCHANGED <<up, memory, contents, acked, dir, spc, saves, path>>
  BY DEF LoadStep, sessionVars, Open, Read, LoadFails, diskVars, saverVars
<1>2. \A m \in Loaders : lpc'[m] = "read" => opened'[m] = dir[Path]
  <2>1. /\ lpc \in [Loaders -> {"idle", "read", "loaded", "rejected"}]
        /\ opened \in [Loaders -> Files \union {NoFile}]
    BY DEF FileInv, NameInv, TypeInv, TypeOK
  <2>2. \A m \in Loaders : lpc[m] = "read" => opened[m] = dir[Path]
    BY <1>1
  <2>3. CASE Open(l)
    <3>1. opened' = [opened EXCEPT ![l] = dir[Path]] /\ lpc' = [lpc EXCEPT ![l] = "read"]
      BY <2>3 DEF Open, LoaderGoto
    <3>2. \A m \in Loaders : m # l => lpc'[m] = lpc[m] /\ opened'[m] = opened[m]
      BY <2>1, <3>1
    <3>3. opened'[l] = dir[Path]
      BY <2>1, <3>1
    <3> QED
      BY <2>2, <3>2, <3>3
  <2>4. CASE Read(l)
    BY <2>1, <2>2, <2>4 DEF Read
  <2>5. CASE LoadFails(l)
    BY <2>1, <2>2, <2>5 DEF LoadFails, LoaderGoto
  <2> QED
    BY <2>3, <2>4, <2>5 DEF LoadStep
<1> QED
  BY <1>1, <1>2 DEF Safe, SaveEnded, Contents, FileOf

LEMMA LoadReturnsIsSafe == Inv /\ (\E l \in Loaders : LoadReturns(l)) => Safe'
<1> SUFFICES ASSUME Inv, NEW l \in Loaders, LoadReturns(l)
             PROVE  Safe'
  OBVIOUS
<1>1. /\ lpc[l] = "read" /\ lpc' = [lpc EXCEPT ![l] = "loaded"] /\ buffer[l] # <<>>
      /\ up' = TRUE /\ memory' = contents[buffer[l][1][1]]
      /\ UNCHANGED <<contents, acked, dir, spc, saves, path>>
  BY DEF LoadReturns, EndRead, LoaderGoto, diskVars, saverVars
<1>2. ~up /\ opened[l] = dir[Path] /\ \A p \in Savers : SaveEnded(p)
  BY <1>1 DEF Inv, SessionInv, Safe, LoadEnded
<1>3. buffer[l][1][1] = opened[l] /\ opened[l] \in Files
  BY <1>1 DEF Inv, SessionInv, FileInv, DataInv, ReadsOpened, NameInv, TypeInv, HasOpened
<1>4. acked \subseteq memory'
  BY <1>1, <1>2, <1>3, FilesAssumption DEF Inv, SessionInv, Safe, Contents
<1>5. \A m \in Loaders : LoadEnded(m)'
  BY <1>1, SessionAssumption DEF LoadEnded, Inv, FileInv, NameInv, TypeInv, TypeOK
<1> QED
  BY <1>1, <1>2, <1>4, <1>5 DEF Inv, SessionInv, SessionType, Safe, SaveEnded, Contents

LEMMA ChangeAndSaveIsSafe == Inv /\ (\E p \in Savers : ChangeAndSave(p)) => Safe'
<1> SUFFICES ASSUME Inv, NEW p \in Savers, ChangeAndSave(p)
             PROVE  Safe'
  OBVIOUS
<1> USE DEF Inv, SessionInv, SessionType, Safe
<1>1. /\ up /\ up' = up /\ SaveEnded(p) /\ acked' = acked
      /\ memory' = memory \union {FileOf(p)'}
      /\ contents' = [contents EXCEPT ![FileOf(p)'] = memory']
      /\ spc' \in {[spc EXCEPT ![p] = step] : step \in {"create", "failed"}}
      /\ UNCHANGED <<dir, path, lpc>>
  BY DEF ChangeAndSave, BeginSave, SaverGoto, diskVars, loaderVars
<1>2. FileOf(p)' \in Files
  <2>1. saves'[p] \in 1..MaxSaves
    BY FilesAssumption DEF ChangeAndSave, BeginSave, FileInv, NameInv, TypeInv, TypeOK
  <2> QED
    BY <2>1 DEF FileOf, Files
<1>3. acked \subseteq memory' /\ contents'[FileOf(p)'] = memory'
  BY <1>1, <1>2
<1>4. acked \subseteq Contents(dir[Path])'
  BY <1>1, <1>3 DEF Contents, FileInv, NameInv, TypeInv, TypeOK
<1>5. \A q \in Savers : q = p
  BY SessionAssumption
<1>6. spc'[p] \in {"create", "failed"}
  BY <1>1 DEF FileInv, NameInv, TypeInv, TypeOK
<1> QED
  BY <1>1, <1>3, <1>4, <1>5, <1>6 DEF Safe, LoadEnded

LEMMA SaveStepIsSafe == Inv /\ (\E p \in Savers : SaveStep(p)) => Safe'
<1> SUFFICES ASSUME Inv, NEW p \in Savers, SaveStep(p)
             PROVE  Safe'
  OBVIOUS
<1> USE DEF Inv, SessionInv, SessionType, Safe
<1>1. /\ SaverStep(p) /\ UNCHANGED <<up, memory, contents>>
      /\ acked' = IF spc'[p] = "saved" /\ spc[p] # "saved"
                  THEN acked \union contents[FileOf(p)] ELSE acked
  BY DEF SaveStep
<1>2. ~SaveEnded(p) /\ saves' = saves /\ lpc' = lpc
  BY <1>1 DEF SaverStep, CreateTemporary, CreateFails, Write, EndWrite, SyncAndClose, Rename,
              PublishFails, Cleanup, RemoveFails, SaverGoto, SaveEnded, saverVars, loaderVars
<1>3. up /\ acked \subseteq memory /\ contents[FileOf(p)] = memory /\ \A q \in Savers : q = p
  BY <1>2, SessionAssumption
<1>4. FileOf(p) \in Files /\ FileOf(p) # NoFile /\ FileOf(p)' = FileOf(p)
  BY <1>2, FileOfSaver, FilesAssumption DEF FileOf, FileInv, NameInv
<1>5. acked' \subseteq memory
  BY <1>1, <1>3
<1>6. acked' \subseteq Contents(dir[Path])'
      /\ (spc'[p] = "cleanup" /\ path'[p] = NoName => dir'[Path] = FileOf(p))
  <2> USE DEF FileInv, NameInv, TypeInv, TypeOK
  <2>1. CASE CreateTemporary(p)
    BY <1>1, <2>1, FilesAssumption DEF CreateTemporary, SaverGoto, Contents
  <2>2. CASE CreateFails(p) \/ Write(p) \/ EndWrite(p) \/ SyncAndClose(p)
    BY <1>1, <2>2 DEF CreateFails, Write, EndWrite, SyncAndClose, SaverGoto, Contents, diskVars,
                      saverVars
  <2>3. CASE Rename(p)
    <3>1. dir[path[p]] = FileOf(p) /\ path[p] \in Names /\ Path \notin Names
      BY <2>3, FilesAssumption DEF Rename, OwnsName, HasName
    <3>2. dir'[Path] = FileOf(p) /\ acked' = acked
      BY <1>1, <2>3, <3>1 DEF Rename, SaverGoto
    <3> QED
      BY <1>3, <1>4, <1>1, <3>2 DEF Contents
  <2>4. CASE PublishFails(p)
    BY <1>1, <2>4, FilesAssumption DEF PublishFails, SaverGoto, Contents, diskVars, HasName
  <2>r. CASE RemoveFails(p)
    BY <1>1, <2>r DEF RemoveFails, SaveEnd, SaverGoto, Contents, diskVars
  <2>5. CASE Cleanup(p)
    <3>1. spc[p] = "cleanup" /\ path[p] \in Names \union {NoName} /\ path[p] # Path
      BY <2>5, FilesAssumption DEF Cleanup
    <3>2. dir'[Path] = dir[Path] /\ spc'[p] = SaveEnd(p)
      BY <2>5, <3>1 DEF Cleanup, RemovePath, SaverGoto
    <3>3. CASE path[p] = NoName
      BY <1>1, <1>3, <1>4, <3>1, <3>2, <3>3 DEF Contents, SaveEnd
    <3>4. CASE path[p] # NoName
      BY <1>1, <3>2, <3>4 DEF Contents, SaveEnd
    <3> QED
      BY <3>3, <3>4
  <2> QED
    BY <1>1, <2>1, <2>2, <2>3, <2>4, <2>r, <2>5 DEF SaverStep
<1> QED
  BY <1>1, <1>2, <1>3, <1>4, <1>5, <1>6 DEF Safe, LoadEnded

LEMMA DieIsSafe == Inv /\ Die => Safe'
<1> SUFFICES ASSUME Inv, Die
             PROVE  Safe'
  OBVIOUS
<1>1. up /\ up' = FALSE /\ UNCHANGED <<contents, acked, dir, lpc>>
  BY DEF Die, Kill, vars, diskVars, loaderVars
<1>2. Safe /\ \A p, q \in Savers : p = q
  BY SessionAssumption DEF Inv, SessionInv
<1>3. \A p \in Savers : SaveEnded(p)'
  BY <1>2 DEF Die, Kill, SaverGoto, SaveEnded, vars, saverVars, Inv, FileInv, NameInv, TypeInv,
              TypeOK
<1> QED
  BY <1>1, <1>2, <1>3 DEF Safe, SaveEnded, LoadEnded, Contents

LEMMA LosePowerIsSafe == Inv /\ LosePower => Safe'
<1> SUFFICES ASSUME Inv, LosePower
             PROVE  Safe'
  OBVIOUS
<1>1. /\ up' = FALSE /\ contents' = contents /\ dir' = diskDir
      /\ acked' \subseteq Contents(diskDir[Path])
      /\ spc' = [p \in Savers |-> "idle"] /\ lpc' = [l \in Loaders |-> "idle"]
  BY DEF LosePower, PowerLoss
<1> QED
  BY <1>1 DEF Safe, SaveEnded, Contents

LEMMA WritesBackIsSafe == Inv /\ WritesBack => Safe'
<1> SUFFICES ASSUME Inv, WritesBack
             PROVE  Safe'
  OBVIOUS
<1>1. UNCHANGED <<dir, spc, saves, path, lpc, opened, up, memory, contents, acked>>
  BY DEF WritesBack, WriteBack, saverVars, loaderVars, sessionVars
<1> QED
  BY <1>1 DEF Inv, SessionInv, Safe, SaveEnded, LoadEnded, FileOf, Contents

\* A running save or load has contents of the right type in its hands.
LEMMA NextSessionType == Inv /\ [SessionNext]_allVars => SessionType'
<1> SUFFICES ASSUME Inv, [SessionNext]_allVars
             PROVE  SessionType'
  OBVIOUS
<1> USE DEF Inv, SessionInv, SessionType
<1>1. ASSUME NEW l \in Loaders, LoadReturns(l) PROVE SessionType'
  <2>1. buffer[l] # <<>> /\ buffer[l] \in Seq(Files \X Nat)
    BY <1>1 DEF LoadReturns, EndRead, FileInv, NameInv, TypeInv, TypeOK
  <2>2. buffer[l][1][1] \in Files
    BY <2>1
  <2> QED
    BY <1>1, <2>2 DEF LoadReturns
<1>2. ASSUME NEW p \in Savers, ChangeAndSave(p) PROVE SessionType'
  <2>1. saves'[p] \in 1..MaxSaves
    BY <1>2, FilesAssumption DEF ChangeAndSave, BeginSave, FileInv, NameInv, TypeInv, TypeOK
  <2>2. FileOf(p)' \in Files
    BY <2>1 DEF FileOf, Files
  <2> QED
    BY <1>2, <2>2 DEF ChangeAndSave
<1>3. ASSUME NEW l \in Loaders, LoadStep(l) PROVE SessionType'
  BY <1>3 DEF LoadStep, sessionVars
<1>4. ASSUME NEW p \in Savers, SaveStep(p) PROVE SessionType'
  BY <1>4 DEF SaveStep
<1>5. CASE StartEmpty \/ Die \/ LosePower \/ WritesBack \/ UNCHANGED allVars
  BY <1>5 DEF StartEmpty, Die, LosePower, WritesBack, allVars, sessionVars
<1> QED
  BY <1>1, <1>2, <1>3, <1>4, <1>5 DEF SessionNext

LEMMA NextInv == Inv /\ [SessionNext]_allVars => Inv'
<1> SUFFICES ASSUME Inv, [SessionNext]_allVars
             PROVE  Inv'
  OBVIOUS
<1>1. FileInv'
  BY SessionStep, NextFileInv DEF Inv
<1>2. copies' = 0
  BY SessionStep DEF Inv, SessionInv
<1>3. Safe'
  <2>1. CASE UNCHANGED allVars
    <3>1. Safe
      BY DEF Inv, SessionInv
    <3> QED
      BY <2>1, <3>1 DEF Safe, allVars, sessionVars, vars, diskVars, saverVars, loaderVars,
                        SaveEnded, LoadEnded, FileOf, Contents
  <2> QED
    BY <2>1, StartEmptyIsSafe, LoadStepIsSafe, LoadReturnsIsSafe, ChangeAndSaveIsSafe,
       SaveStepIsSafe, DieIsSafe, LosePowerIsSafe, WritesBackIsSafe DEF SessionNext
<1> QED
  BY <1>1, <1>2, <1>3, NextSessionType DEF Inv, SessionInv

\* What a save returned for is in the application's index whenever it has one,
\* for any number of saves, failures, kills, restarts and power losses.
THEOREM NothingSavedIsEverLost == SessionSpec => []NothingSavedIsLost
<1>1. Inv => NothingSavedIsLost
  BY DEF Inv, SessionInv, Safe, NothingSavedIsLost
<1> QED
  BY <1>1, InitSession, NextInv, PTL DEF SessionSpec
=============================================================================
