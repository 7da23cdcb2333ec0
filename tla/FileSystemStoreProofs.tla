----------------------- MODULE FileSystemStoreProofs ------------------------
(***************************************************************************)
(* The steps of FileSystem, entered by one caller at a time, are steps of  *)
(* the store of FileStore, and keep what the refinement rests on.          *)
(***************************************************************************)
EXTENDS FileSystemLemmas, FileSystemRefines

\* Leaves that name no prover: Zenon for at most 10 seconds, then SMT.
USE ZenonT(10), SMTT(30)

-----------------------------------------------------------------------------
(* The store that callers see.                                             *)

\* Between the writes of its two sectors the directory is the one in memory.
LEMMA TableIs ==
  ASSUME Control
  PROVE  /\ \A t \in Thread : pc[t] = "writeDir2" => Table = loc[t].dir
         /\ (\A t \in Thread : pc[t] # "writeDir2") => Table = directory
<1>1. ASSUME NEW t \in Thread, pc[t] = "writeDir2"
      PROVE  Table = loc[t].dir
  <2>1. \A u \in Thread : pc[u] = "writeDir2" => Mutating(u)
    BY DEF Control, Placed, Where, Lookup, Resting, Mutating
  <2>2. \A u \in Thread : pc[u] = "writeDir2" => u = t
    BY <1>1, <2>1 DEF Control
  <2>3. (CHOOSE u \in Thread : pc[u] = "writeDir2") = t
    BY <1>1, <2>2
  <2> QED  BY <1>1, <2>3 DEF Table
<1> QED  BY <1>1 DEF Table

\* The same after a step.
LEMMA TableIsNext ==
  ASSUME Control'
  PROVE  /\ \A t \in Thread : pc'[t] = "writeDir2" => Table' = loc'[t].dir
         /\ (\A t \in Thread : pc'[t] # "writeDir2") => Table' = directory'
<1>1. ASSUME NEW t \in Thread, pc'[t] = "writeDir2"
      PROVE  Table' = loc'[t].dir
  <2>1. \A u \in Thread : pc'[u] = "writeDir2" => Mutating(u)'
    BY DEF Control, Placed, Where, Lookup, Resting, Mutating
  <2>2. \A u \in Thread : pc'[u] = "writeDir2" => u = t
    BY <1>1, <2>1 DEF Control
  <2>3. (CHOOSE u \in Thread : pc'[u] = "writeDir2") = t
    BY <1>1, <2>2
  <2> QED  BY <1>1, <2>3 DEF Table
<1> QED  BY <1>1 DEF Table

\* A step that writes no sector of the directory.
LEMMA TableStays ==
  ASSUME Control, Control', ThreadType, NEW t \in Thread, Acts(t), UNCHANGED directory,
         pc[t] # "writeDir2", pc'[t] # "writeDir2"
  PROVE  Table' = Table
<1>1. \A u \in Thread \ {t} : pc'[u] = pc[u] /\ loc'[u] = loc[u]
  BY StepFrame DEF Frame
<1>2. CASE \E u \in Thread : pc[u] = "writeDir2"
  <2>1. PICK u \in Thread : pc[u] = "writeDir2"
    BY <1>2
  <2>2. pc'[u] = "writeDir2" /\ loc'[u] = loc[u]
    BY <1>1, <2>1
  <2>3. Table = loc[u].dir
    BY <2>1, TableIs
  <2>4. Table' = loc'[u].dir
    BY <2>2, TableIsNext
  <2> QED  BY <2>2, <2>3, <2>4
<1>3. CASE \A u \in Thread : pc[u] # "writeDir2"
  BY <1>1, <1>3, TableIs, TableIsNext
<1> QED  BY <1>2, <1>3

\* No two entries in use have the same name, so there is one to find.
LEMMA OnlyMatch ==
  ASSUME NEW table, NamesInOrder(table), NEW n, NEW i \in Slot, Match(table, i, n)
  PROVE  /\ Found(table, n) /\ \A j \in Slot : Match(table, j, n) => j = i
         /\ (CHOOSE j \in Slot : Match(table, j, n)) = i
<1>1. \A j \in Slot : Match(table, j, n) => j = i
  BY DEF NamesInOrder, Match
<1>2. (CHOOSE j \in Slot : Match(table, j, n)) = i
  BY <1>1
<1> QED  BY <1>1, <1>2 DEF Found

\* The content of a name is the file that its entry leads to.
LEMMA ContentIs ==
  ASSUME NamesInOrder(Table), NEW n, NEW i \in Slot, Match(Table, i, n)
  PROVE  Content(n) = FileOf(disk[Table[i].sector].hdr)
BY OnlyMatch DEF Content

\* The same after a step.
LEMMA ContentIsNext ==
  ASSUME NamesInOrder(Table'), NEW n, NEW i \in Slot, Match(Table', i, n)
  PROVE  Content(n)' = FileOf(disk[Table[i].sector].hdr)'
<1>1. Found(Table', n) /\ (CHOOSE j \in Slot : Match(Table', j, n)) = i
  BY OnlyMatch
<1> QED  BY <1>1 DEF Content

\* An entry in use leads to a header, also while the directory is written.
LEMMA TableHeader ==
  ASSUME Inv, NEW i \in Slot, Table[i].inUse
  PROVE  Table[i].sector \in Sector /\ disk[Table[i].sector].hdr \in Header(Size)
<1>0. ImageType /\ ThreadType /\ Control /\ NoSharedSector
  BY DEF Inv, TypeOK
<1>1. ASSUME directory[i].inUse
      PROVE  directory[i].sector \in Sector /\ disk[directory[i].sector].hdr \in Header(Size)
  BY <1>0, <1>1, OwnedHeader DEF InUse, HeaderOf
<1>2. CASE \A u \in Thread : pc[u] # "writeDir2"
  BY <1>0, <1>1, <1>2, TableIs
<1>3. ASSUME NEW u \in Thread, pc[u] = "writeDir2"
      PROVE  Table[i].sector \in Sector /\ disk[Table[i].sector].hdr \in Header(Size)
  <2>1. Table = loc[u].dir
    BY <1>0, <1>3, TableIs
  <2>2. PICK k \in Slot : Update(u, k)
    BY <1>3 DEF Inv, Changing
  <2>3. CASE i # k
    BY <1>1, <2>1, <2>2, <2>3 DEF Update
  <2>4. CASE i = k
    <3>1. call[u].op \in {"Create", "Remove"}
      BY <1>0, <1>3 DEF Control, Placed, Where, Lookup, Resting
    <3>2. loc[u].dir[k].inUse /\ call[u].op = "Create"
      BY <2>1, <2>2, <2>4, <3>1 DEF Update
    <3>3. loc[u].dir[k].sector = loc[u].sector /\ disk[loc[u].sector].hdr \in Header(Size)
      BY <1>3, <2>2, <3>2 DEF Update
    <3> QED  BY <1>0, <2>1, <2>4, <3>3 DEF ThreadType, LocalType
  <2> QED  BY <2>3, <2>4
<1> QED  BY <1>2, <1>3

\* A byte of a file lies in one of the sectors of the file.
LEMMA ByteType ==
  ASSUME ImageType, NEW h \in Header(Size), NEW o \in 0 .. h.numBytes - 1
  PROVE  /\ SectorOf(o) \in Nat /\ SectorOf(o) + 1 \in DOMAIN h.dataSectors
         /\ ByteToSector(h, o) \in Sector /\ ByteToSector(h, o) \in Range(h.dataSectors)
         /\ ByteAt(h, o) \in AnyByte
<1>1. /\ h.numBytes \in Int /\ h.dataSectors \in [1 .. NumDataSectors(h.numBytes) -> Sector]
      /\ SectorSize \in Nat \ {0}
  BY HeaderShape, Constants
<1>2. o \in Nat /\ o < h.numBytes /\ h.numBytes \in Nat
  BY <1>1
<1>3. SectorOf(o) \in Nat
  BY <1>1, <1>2, DivNat DEF SectorOf
<1>4. SectorOf(o) + 1 <= NumDataSectors(h.numBytes)
  <2>1. NumDataSectors(h.numBytes) = (h.numBytes + SectorSize - 1) \div SectorSize
    BY <1>1, <1>2 DEF NumDataSectors
  <2> QED  BY <1>1, <1>2, <2>1, DivUp DEF SectorOf
<1>5. SectorOf(o) + 1 \in 1 .. NumDataSectors(h.numBytes)
  <2>1. NumDataSectors(h.numBytes) \in Int
    BY <1>1 DEF NumDataSectors
  <2> QED  BY <1>3, <1>4, <2>1
<1>6. ByteToSector(h, o) \in Sector /\ ByteToSector(h, o) \in Range(h.dataSectors)
  BY <1>1, <1>5 DEF ByteToSector, Range
<1>7. o % SectorSize \in 0 .. SectorSize - 1
  BY <1>1, <1>2, ModRange
<1>8. ByteAt(h, o) \in AnyByte
  BY <1>6, <1>7 DEF ByteAt, ImageType
<1> QED  BY <1>1, <1>3, <1>5, <1>6, <1>8

\* A file has the length its header says, and is not NoFile.
LEMMA FileType ==
  ASSUME ImageType, NEW h \in Header(Size)
  PROVE  /\ FileOf(h).bytes \in [0 .. h.numBytes - 1 -> AnyByte]
         /\ FileOf(h).length = h.numBytes
         /\ FileOf(h) # NoFile
<1>1. h.numBytes \in Size
  BY DEF Header
<1>2. [o \in 0 .. h.numBytes - 1 |-> ByteAt(h, o)] \in [0 .. h.numBytes - 1 -> AnyByte]
  BY ByteType
<1>3. FileOf(h) \in [length: {h.numBytes}, bytes: [0 .. h.numBytes - 1 -> AnyByte]]
  BY <1>2 DEF FileOf
<1> QED  BY <1>1, <1>2, <1>3, NoFileNotOpen DEF FileOf

\* A name has a file when it is in the directory.
LEMMA ExistsIs ==
  ASSUME Inv, NamesInOrder(Table), NEW n \in Name
  PROVE  stored[n] # NoFile <=> Found(Table, n)
<1>1. CASE ~Found(Table, n)
  BY <1>1 DEF stored, Content
<1>2. ASSUME NEW i \in Slot, Match(Table, i, n)
      PROVE  stored[n] # NoFile
  <2>1. stored[n] = FileOf(disk[Table[i].sector].hdr)
    BY <1>2, ContentIs DEF stored
  <2>2. disk[Table[i].sector].hdr \in Header(Size)
    BY <1>2, TableHeader DEF Match
  <2> QED  BY <2>1, <2>2, FileType DEF Inv, TypeOK
<1> QED  BY <1>1, <1>2 DEF Found

\* Outside a call there is no operation.
LEMMA NoCallOp == NoCall.op = "none"
BY DEF NoCall

\* Outside a call nothing has been done.
LEMMA NotDone ==
  ASSUME NEW t
  PROVE  /\ call[t] = NoCall => Done(t) = FALSE
         /\ call'[t] = NoCall => Done(t)' = FALSE
<1>1. NoCall.op \notin {"Create", "Remove", "Load"}
  BY NoCallOp
<1> QED  BY <1>1 DEF Done

\* A step that writes nothing leaves every file what it was.
LEMMA ContentStays ==
  ASSUME Table' = Table, disk' = disk
  PROVE  \A n : Content(n)' = Content(n)
<1>1. \A h : FileOf(h)' = FileOf(h)
  BY DEF FileOf, ByteAt
<1>2. \A n : Found(Table', n) <=> Found(Table, n)
  OBVIOUS
<1>3. ASSUME NEW n PROVE Content(n)' = Content(n)
  <2>1. PICK i : i = CHOOSE j \in Slot : Match(Table, j, n)
    OBVIOUS
  <2>2. i = CHOOSE j \in Slot : Match(Table', j, n)
    BY <2>1
  <2>3. FileOf(disk[Table[i].sector].hdr)' = FileOf(disk[Table[i].sector].hdr)
    BY <1>1 DEF FileOf, ByteAt
  <2> QED  BY <1>2, <2>1, <2>2, <2>3 DEF Content
<1> QED  BY <1>3

\* A step after which a name leads to the same file.
LEMMA ContentSame ==
  ASSUME NamesInOrder(Table), NamesInOrder(Table'), NEW n,
         \A i \in Slot : Match(Table', i, n) <=> Match(Table, i, n),
         \A i \in Slot : Match(Table, i, n) =>
           FileOf(disk[Table[i].sector].hdr)' = FileOf(disk[Table[i].sector].hdr)
  PROVE  Content(n)' = Content(n)
<1>1. CASE \E i \in Slot : Match(Table, i, n)
  <2>1. PICK i \in Slot : Match(Table, i, n)
    BY <1>1
  <2>2. Content(n) = FileOf(disk[Table[i].sector].hdr)
    BY <2>1, ContentIs
  <2>3. Content(n)' = FileOf(disk[Table[i].sector].hdr)'
    BY <2>1, ContentIsNext
  <2> QED  BY <2>1, <2>2, <2>3
<1>2. CASE \A i \in Slot : ~Match(Table, i, n)
  <2>1. ~Found(Table, n) /\ ~Found(Table', n)
    BY <1>2 DEF Found
  <2> QED  BY <2>1 DEF Content
<1> QED  BY <1>1, <1>2

\* A step that leaves the directory, the disk and the open file as they are.
LEMMA Unmoved ==
  ASSUME Table' = Table, UNCHANGED <<disk, objects>>
  PROVE  stored' = stored /\ opened' = opened /\ (OpenNamed => OpenNamed')
<1>1. disk' = disk /\ opfile' = opfile /\ file' = file
  BY DEF objects
<1>2. \A n : Content(n)' = Content(n)
  BY <1>1, ContentStays
<1>3. opened' = opened
  BY <1>1 DEF opened, Live
<1>4. OpenNamed => OpenNamed'
  BY <1>1 DEF OpenNamed, Live
<1> QED  BY <1>2, <1>3, <1>4 DEF stored
-----------------------------------------------------------------------------
(* One call at a time.                                                     *)

\* What a step starts from.
Ready == Inv /\ Inv' /\ NameInv /\ CopyInv /\ StoreInv
\* All others are in no call.
Alone(t) == \A u \in Thread \ {t} : call[u] = NoCall

\* The parts of the invariants that most steps use.
LEMMA ReadyTypes ==
  ASSUME Ready
  PROVE  /\ ImageType /\ ObjectType /\ ThreadType /\ Control /\ Disk /\ Control'
         /\ Turns /\ NamesInOrder(Table) /\ OpenNamed
         /\ \A t \in Thread : Looking(t) /\ Moving(t) /\ Transferring(t)
BY DEF Ready, Inv, TypeOK, StoreInv, Disk

\* A thread that is in no call rests, and the others rest while one is in a call.
LEMMA Rest ==
  ASSUME Ready, NEW t \in Thread
  PROVE  /\ pc[t] \in Resting <=> call[t].op = "none"
         /\ pc[t] \in Resting <=> call[t] = NoCall
         /\ pc[t] \notin Resting => Alone(t)
<1>1. Where(call[t].op, pc[t]) /\ Turns
  BY ReadyTypes DEF Control, Placed
<1>2. pc[t] \in Resting <=> call[t].op = "none"
  BY <1>1 DEF Where, Lookup, Resting
<1>3. pc[t] \in Resting <=> call[t] = NoCall
  BY <1>1, <1>2, NoCallOp DEF Turns
<1>4. call[t].op # "none" => Alone(t)
  BY <1>1 DEF Turns, Alone
<1> QED  BY <1>2, <1>3, <1>4

\* A thread that rests says nothing of the disk.
LEMMA RestSays ==
  ASSUME NEW t \in Thread, pc'[t] \in Resting, call'[t] = NoCall
  PROVE  Looking(t)' /\ Moving(t)'
<1>1. call'[t].op = "none"
  BY NoCallOp
<1>2. Looking(t)'
  BY <1>1 DEF Looking, Resting, Writing
<1>3. Moving(t)'
  BY DEF Moving, Resting
<1> QED  BY <1>2, <1>3

\* The invariant after a step of the only thread in a call.
LEMMA StoreKept ==
  ASSUME Ready, NEW t \in Thread, Acts(t), Alone(t),
         call'[t].op = "none" => call'[t] = NoCall,
         NamesInOrder(Table'), OpenNamed',
         pc'[Main] = "copyOpen" => fd'[Main] \in Name,
         Looking(t)', Moving(t)'
  PROVE  StoreInv'
<1>1. \A u \in Thread \ {t} : pc'[u] = pc[u] /\ call'[u] = call[u]
  BY ReadyTypes, StepFrame DEF Frame
<1>2. \A u \in Thread \ {t} : pc'[u] \in Resting /\ call'[u] = NoCall
  BY <1>1, Rest DEF Alone
<1>3. \A u \in Thread : Looking(u)' /\ Moving(u)'
  BY <1>2, RestSays
<1>4. Turns'
  BY <1>2, NoCallOp DEF Turns
<1> QED  BY <1>3, <1>4 DEF StoreInv

\* Main comes to copyOpen only with the name of the file it has created.
LEMMA CopyNamed ==
  ASSUME Ready, NEW t \in Thread, Acts(t),
         \/ pc'[t] # "copyOpen"
         \/ /\ call[t].op = "Create" => fd' = fd
            /\ \E op, data : \E ok \in BOOLEAN : Return(t, op, ok, data)
  PROVE  pc'[Main] = "copyOpen" => fd'[Main] \in Name
<1>0. Main \in Thread /\ ThreadType /\ Control /\ CopyInv
  BY ReadyTypes DEF Thread, Ready
<1>1. CASE t # Main
  <2>1. pc[Main] = "done" /\ pc'[Main] = pc[Main]
    BY <1>0, <1>1, MainDone, StepFrame DEF Frame, Thread
  <2> QED  BY <2>1
<1>2. CASE t = Main /\ pc'[Main] = "copyOpen"
  <2>1. PICK op, data : \E ok \in BOOLEAN : Return(Main, op, ok, data)
    BY <1>2
  <2>2. pc'[Main] \in {cont[Main].next, cont[Main].fail}
    <3>1. \E label \in {cont[Main].next, cont[Main].fail} : pc' = [pc EXCEPT ![Main] = label]
      BY <2>1 DEF Return, Goto
    <3> QED  BY <1>0, <3>1 DEF ThreadType
  <2>3. cont[Main].next = "copyOpen"
    BY <1>0, <1>2, <2>2 DEF CopyInv
  <2>4. call[Main].op = "Create" /\ call[Main].name = fd[Main]
    BY <1>0, <2>3 DEF CopyInv
  <2>5. fd' = fd /\ call[Main].name \in Name
    BY <1>0, <1>2, <2>4, ReadyTypes DEF Looking
  <2> QED  BY <2>4, <2>5
<1> QED  BY <1>1, <1>2

\* The effect of a step on which calls have taken effect is that of its thread.
LEMMA EffectedIs ==
  ASSUME Ready, NEW t \in Thread, Acts(t)
  PROVE  effected' = [effected EXCEPT ![t] = Done(t)']
<1>1. \A u \in Thread \ {t} : pc'[u] = pc[u] /\ call'[u] = call[u]
  BY ReadyTypes, StepFrame DEF Frame
<1>2. \A u \in Thread \ {t} : Done(u)' = Done(u)
  BY <1>1 DEF Done
<1> QED  BY <1>2 DEF effected

\* A step inside a call that is not the moment the call takes effect.
LEMMA Inside ==
  ASSUME Ready, NEW t \in Thread, Acts(t), pc[t] \notin Resting, pc'[t] \notin Resting,
         UNCHANGED <<call, ret, disk, objects>>, Table' = Table,
         Done(t)' = Done(t), Looking(t)', Moving(t)'
  PROVE  StoreInv' /\ UNCHANGED Store!vars
<1>1. stored' = stored /\ opened' = opened /\ OpenNamed'
  BY Unmoved, ReadyTypes
<1>2. effected' = effected
  BY EffectedIs DEF effected
<1>3. pc'[Main] = "copyOpen" => fd'[Main] \in Name
  BY CopyNamed DEF Resting
<1>4. call'[t].op = "none" => call'[t] = NoCall
  BY Rest
<1>5. StoreInv'
  BY <1>1, <1>3, <1>4, Rest, ReadyTypes, StoreKept
<1> QED  BY <1>1, <1>2, <1>5 DEF Store!vars

\* A call that returns, with the store as it is.
LEMMA Returns ==
  ASSUME Ready, NEW t \in Thread, Acts(t), pc[t] \notin Resting, NEW ok \in BOOLEAN, NEW data,
         Return(t, call[t].op, ok, data),
         call[t].op = "Create" => fd' = fd,
         NamesInOrder(Table'), OpenNamed'
  PROVE  StoreInv' /\ Store!Return(t, ok, data)
<1>1. /\ ThreadType /\ call'[t] = NoCall /\ pc'[t] \in Resting
      /\ call' = [call EXCEPT ![t] = NoCall]
  BY ReadyTypes, Returned DEF Return, ThreadType
<1>2. Looking(t)' /\ Moving(t)'
  BY <1>1, RestSays
<1>3. pc'[Main] = "copyOpen" => fd'[Main] \in Name
  BY CopyNamed
<1>4. StoreInv'
  BY <1>1, <1>2, <1>3, Rest, StoreKept
<1>5. Done(t)' = FALSE
  <2>1. call'[t] = NoCall
    BY <1>1
  <2> QED  BY <2>1, NotDone
<1>6. effected' = [effected EXCEPT ![t] = FALSE]
  BY <1>5, EffectedIs
<1> QED  BY <1>4, <1>6 DEF Store!Return, Store!Answer, Return, Result

-----------------------------------------------------------------------------
(* Every step is a step of the store: Create, Remove, Open and Load.       *)

\* The store moves, or stays as it is, and the invariant holds again.
Refined == StoreInv' /\ [Store!Next]_(Store!vars)

\* A thread that is in a call but not between the writes of the directory.
LEMMA TableQuiet ==
  ASSUME Ready, NEW t \in Thread, pc[t] \notin Resting, pc[t] # "writeDir2"
  PROVE  Table = directory
<1>1. \A u \in Thread \ {t} : pc[u] \in Resting
  BY Rest DEF Alone
<1>2. \A u \in Thread : pc[u] # "writeDir2"
  BY <1>1 DEF Resting
<1> QED  BY <1>2, ReadyTypes, TableIs

\* Reading the first sector of the directory changes nothing that callers see.
LEMMA FetchDir1Refined ==
  ASSUME Ready, NEW t \in Thread, Acts(t), FetchDir1(t)
  PROVE  Refined
<1>0. ThreadType /\ Control /\ Control' /\ ImageType
  BY ReadyTypes
<1>1. /\ pc[t] = "fetchDir1" /\ pc'[t] = "fetchDir2" /\ UNCHANGED <<call, ret, disk, objects, directory>>
      /\ loc'[t].dir = Join(directory, EmptyTable)
  BY <1>0 DEF FetchDir1, At, Goto, ThreadType, Locals, image
<1>2. Join(loc'[t].dir, directory') = directory'
  BY <1>0, <1>1, JoinBack, EmptyTableType DEF ImageType
<1>3. Looking(t)'
  BY <1>1, <1>2, ReadyTypes DEF Looking, Writing
<1>4. Moving(t)' /\ Done(t)' = Done(t)
  BY <1>1 DEF Moving, Done
<1>5. Table' = Table
  BY <1>0, <1>1, TableStays
<1>6. pc[t] \notin Resting /\ pc'[t] \notin Resting
  BY <1>1 DEF Resting
<1> QED  BY <1>1, <1>3, <1>4, <1>5, <1>6, Inside DEF Refined

\* With the second sector read, FindIndex finds what the store holds: a lookup goes
\* on if the name is there, Create if it is not, and otherwise the call fails.
LEMMA FetchDir2Refined ==
  ASSUME Ready, NEW t \in Thread, Acts(t), FetchDir2(t)
  PROVE  Refined
<1> DEFINE n == call[t].name
<1>0. ThreadType /\ Control /\ Control' /\ ImageType /\ OpenNamed /\ NamesInOrder(Table) /\ Inv
  BY ReadyTypes DEF Ready
<1>1. /\ pc[t] = "fetchDir2" /\ UNCHANGED <<directory, disk, file>>
      /\ Join(loc[t].dir, directory) = directory
  BY ReadyTypes DEF FetchDir2, At, image, Looking
<1>2. pc[t] \notin Resting /\ Table = directory
  BY <1>1, TableQuiet DEF Resting
<1>op. call[t].op \in {"Create", "Remove", "Open", "Load"} /\ n \in Name
  BY <1>0, <1>1, ReadyTypes DEF Control, Placed, Where, Lookup, Resting, Looking
<1>3. stored[n] # NoFile <=> Found(directory, n)
  BY <1>0, <1>2, <1>op, ExistsIs
<1>4. ~effected[t] /\ Store!In(t, call[t].op) /\ effected[t] \in BOOLEAN
  <2>1. Done(t) = FALSE
    BY <1>1, <1>op DEF Done
  <2> QED  BY <1>2, <2>1, Rest DEF effected, Store!In
<1>5. CASE /\ \/ call[t].op = "Create" /\ Found(directory, n)
              \/ call[t].op = "Remove" /\ ~Found(directory, n)
           /\ Return(t, call[t].op, FALSE, <<>>) /\ UNCHANGED <<opfile, fd>>
  <2>1. pc'[t] # "writeDir2"
    BY <1>0, <1>5, Returned DEF Resting
  <2>2. Table' = Table
    BY <1>0, <1>1, <2>1, TableStays
  <2>3. stored' = stored /\ opened' = opened /\ OpenNamed'
    BY <1>0, <1>1, <1>5, <2>2, Unmoved DEF objects
  <2>4. StoreInv' /\ Store!Return(t, FALSE, <<>>)
    BY <1>0, <1>2, <1>5, <2>2, <2>3, Returns
  <2>5. Store!CreateReturn(t) \/ Store!RemoveReturn(t)
    BY <1>3, <1>4, <1>5, <2>3, <2>4 DEF Store!CreateReturn, Store!RemoveReturn, Store!Exists
  <2> QED  BY <2>4, <2>5 DEF Refined, Store!Next
<1>6. CASE /\ call[t].op \in {"Open", "Load"} /\ ~Found(directory, n)
           /\ Return(t, call[t].op, FALSE, <<>>) /\ opfile' = Null
  <2>1. pc'[t] # "writeDir2"
    BY <1>0, <1>6, Returned DEF Resting
  <2>2. Table' = Table
    BY <1>0, <1>1, <2>1, TableStays
  <2>3. \A m : Content(m)' = Content(m)
    BY <1>1, <2>2, ContentStays
  <2>4. ~Live(opfile)'
    BY <1>6, Constants DEF Live
  <2>5. stored' = stored /\ opened' = NotOpen /\ OpenNamed'
    BY <2>3, <2>4 DEF stored, opened, OpenNamed
  <2>6. StoreInv' /\ Store!Return(t, FALSE, <<>>)
    BY <1>0, <1>2, <1>6, <2>2, <2>5, Returns
  <2>7. Store!OpenReturn(t) \/ Store!LoadReturn(t)
    BY <1>3, <1>4, <1>6, <2>5, <2>6 DEF Store!OpenReturn, Store!LoadReturn, Store!Exists
  <2> QED  BY <2>6, <2>7 DEF Refined, Store!Next
<1>7. CASE /\ \/ call[t].op = "Create" /\ Goto(t, "fetchMap")
              \/ /\ call[t].op # "Create" /\ Goto(t, "fetchHdr")
                 /\ \E i \in FindIndex(directory, n) :
                      loc' = [loc EXCEPT ![t] = Locals(directory, {}, NoHeader, directory[i].sector)]
           /\ UNCHANGED <<opfile, call, ret>>
  <2>1. \/ call[t].op = "Create" /\ pc'[t] = "fetchMap"
        \/ call[t].op # "Create" /\ pc'[t] = "fetchHdr"
    BY <1>0, <1>7 DEF Goto, ThreadType
  <2>2. Table' = Table
    BY <1>0, <1>1, <2>1, TableStays
  <2>3. pc'[t] = "fetchHdr" =>
          \E i \in Slot : Match(directory, i, n) /\ loc'[t].sector = directory[i].sector
    <3> SUFFICES ASSUME pc'[t] = "fetchHdr"
                 PROVE  \E i \in Slot : Match(directory, i, n) /\ loc'[t].sector = directory[i].sector
      OBVIOUS
    <3>1. PICK i \in FindIndex(directory, n) :
            loc' = [loc EXCEPT ![t] = Locals(directory, {}, NoHeader, directory[i].sector)]
      BY <1>7, <2>1
    <3>2. PICK l : l = loc'[t]
      OBVIOUS
    <3>3. l = Locals(directory, {}, NoHeader, directory[i].sector)
      BY <1>0, <3>1, <3>2 DEF ThreadType
    <3>4. l.sector = directory[i].sector
      BY <3>3 DEF Locals
    <3> QED  BY <3>1, <3>2, <3>4 DEF FindIndex
  <2>4. Looking(t)'
    BY <1>1, <1>7, <1>op, <2>1, <2>3 DEF Looking, Writing
  <2>5. Moving(t)' /\ Done(t)' = Done(t) /\ pc'[t] \notin Resting
    BY <1>1, <1>7, <2>1 DEF Moving, Done, Resting
  <2> QED  BY <1>1, <1>2, <1>7, <2>2, <2>4, <2>5, Inside DEF Refined, objects
<1> QED  BY <1>1, <1>5, <1>6, <1>7 DEF FetchDir2

\* Create takes sectors in its copy of the bitmap, or fails for want of space.
LEMMA CreateAllocateRefined ==
  ASSUME Ready, NEW t \in Thread, Acts(t), CreateAllocate(t)
  PROVE  Refined
<1>0. ThreadType /\ Control /\ Control' /\ OpenNamed /\ NamesInOrder(Table)
  BY ReadyTypes
<1>1. pc[t] = "fetchMap" /\ call[t].op = "Create" /\ pc[t] \notin Resting
  BY DEF CreateAllocate, At, Resting
<1>2. CASE CreateFails(t)
  <2>1. /\ Return(t, "Create", FALSE, <<>>) /\ UNCHANGED <<directory, disk, objects, fd>>
        /\ pc'[t] # "writeDir2"
    BY <1>0, <1>2, Returned DEF CreateFails, image, Resting
  <2>2. Table' = Table
    BY <1>0, <1>1, <2>1, TableStays
  <2>3. stored' = stored /\ opened' = opened /\ OpenNamed'
    BY <1>0, <2>1, <2>2, Unmoved
  <2>4. StoreInv' /\ Store!Return(t, FALSE, <<>>)
    BY <1>0, <1>1, <2>1, <2>2, <2>3, Returns
  <2>5. ~effected[t] /\ effected[t] \in BOOLEAN /\ Store!In(t, "Create")
    <3>1. Done(t) = FALSE
      BY <1>1 DEF Done
    <3> QED  BY <1>1, <3>1, Rest DEF effected, Store!In
  <2>6. Store!CreateReturn(t)
    BY <2>3, <2>4, <2>5 DEF Store!CreateReturn
  <2> QED  BY <2>4, <2>6 DEF Refined, Store!Next
<1>3. ASSUME loc'[t].hdr.numBytes = call[t].size, Goto(t, "writeHdr"),
             UNCHANGED <<image, objects, call, ret>>
      PROVE  Refined
  <2>1. /\ pc'[t] = "writeHdr" /\ loc'[t].hdr.numBytes = call[t].size
        /\ UNCHANGED <<call, ret, disk, objects, directory>>
    BY <1>0, <1>3 DEF Goto, ThreadType, image
  <2>2. Table' = Table
    BY <1>0, <1>1, <2>1, TableStays
  <2>3. Looking(t)'
    BY <1>1, <2>1, ReadyTypes DEF Looking
  <2>4. Moving(t)' /\ pc'[t] \notin Resting
    BY <2>1 DEF Moving, Resting
  <2>5. Done(t)' = Done(t)
    BY <1>1, <2>1 DEF Done
  <2> QED  BY <1>1, <2>1, <2>2, <2>3, <2>4, <2>5, Inside DEF Refined
<1>4. CASE ~CreateFails(t)
  <2>1. PICK s \in FirstClear(freeMap), i \in AddIndex(loc[t].dir) : \E f :
          /\ loc' = [loc EXCEPT ![t] =
               Locals([loc[t].dir EXCEPT ![i] = [inUse |-> TRUE, sector |-> s,
                                                 name |-> call[t].name]],
                      Mark(freeMap, s) \cup Range(f),
                      [numBytes |-> call[t].size, dataSectors |-> f], s)]
          /\ Goto(t, "writeHdr") /\ UNCHANGED <<image, objects, call, ret>>
    BY <1>4 DEF CreateAllocate
  <2>2. loc'[t].hdr.numBytes = call[t].size
    <3>1. PICK f : loc' = [loc EXCEPT ![t] =
               Locals([loc[t].dir EXCEPT ![i] = [inUse |-> TRUE, sector |-> s,
                                                 name |-> call[t].name]],
                      Mark(freeMap, s) \cup Range(f),
                      [numBytes |-> call[t].size, dataSectors |-> f], s)]
      BY <2>1
    <3>2. PICK l, dir, map, h :
            /\ l = loc'[t] /\ map = Mark(freeMap, s) \cup Range(f)
            /\ dir = [loc[t].dir EXCEPT ![i] = [inUse |-> TRUE, sector |-> s,
                                                name |-> call[t].name]]
            /\ h = [numBytes |-> call[t].size, dataSectors |-> f]
      OBVIOUS
    <3>3. l = Locals(dir, map, h, s)
      BY <1>0, <3>1, <3>2 DEF ThreadType
    <3>4. l.hdr = h
      BY <3>3 DEF Locals
    <3>5. h.numBytes = call[t].size
      BY <3>2
    <3> QED  BY <3>2, <3>4, <3>5
  <2> QED  BY <1>3, <2>1, <2>2
<1> QED  BY <1>2, <1>4

\* Remove reads header and bitmap, and frees sectors in its copy.
LEMMA RemoveReadsRefined ==
  ASSUME Ready, NEW t \in Thread, Acts(t), RemoveHdr(t) \/ RemoveFree(t)
  PROVE  Refined
<1>0. ThreadType /\ Control /\ Control' /\ ImageType /\ NamesInOrder(Table)
  BY ReadyTypes
<1>1. /\ pc[t] \in {"fetchHdr", "fetchMap"} /\ call[t].op = "Remove" /\ pc[t] \notin Resting
      /\ UNCHANGED <<call, ret, disk, objects, directory>>
  BY DEF RemoveHdr, RemoveFree, At, image, Resting
<1>2. pc'[t] \in {"fetchMap", "writeMap"} /\ pc'[t] \notin Resting
  BY <1>0 DEF RemoveHdr, RemoveFree, Goto, ThreadType, Resting
<1>3. Table' = Table /\ Table = directory
  BY <1>0, <1>1, <1>2, TableStays, TableQuiet
<1>4. ASSUME pc'[t] = "writeMap"
      PROVE  ~Found(loc'[t].dir, call[t].name) /\ Found(directory, call[t].name)
  <2>0. RemoveHdr(t) => pc'[t] = "fetchMap"
    BY <1>0 DEF RemoveHdr, Goto, ThreadType
  <2>1. RemoveFree(t) /\ pc[t] = "fetchMap"
    BY <1>4, <2>0 DEF RemoveFree, At
  <2>2. loc[t].dir = directory /\ directory \in [Slot -> Entry]
    BY <1>0, <1>1, <2>1, ReadyTypes DEF Disk, Changing, ImageType
  <2>i. PICK i \in FindIndex(loc[t].dir, call[t].name) :
          \E map : loc' = [loc EXCEPT ![t] =
            Locals([loc[t].dir EXCEPT ![i] = [@ EXCEPT !.inUse = FALSE]], map,
                   loc[t].hdr, loc[t].sector)]
    BY <2>1 DEF RemoveFree
  <2>3. /\ i \in FindIndex(directory, call[t].name)
        /\ loc'[t].dir = [directory EXCEPT ![i] = [@ EXCEPT !.inUse = FALSE]]
    <3>1. PICK l, dir, map : /\ l = loc'[t]
                             /\ dir = [loc[t].dir EXCEPT ![i] = [@ EXCEPT !.inUse = FALSE]]
                             /\ loc' = [loc EXCEPT ![t] =
                                          Locals(dir, map, loc[t].hdr, loc[t].sector)]
      BY <2>i
    <3>2. l = Locals(dir, map, loc[t].hdr, loc[t].sector)
      BY <1>0, <3>1 DEF ThreadType
    <3>3. l.dir = dir
      BY <3>2 DEF Locals
    <3> QED  BY <2>2, <2>i, <3>1, <3>3
  <2>4. i \in Slot /\ Match(directory, i, call[t].name)
    BY <2>3 DEF FindIndex
  <2>5. ~loc'[t].dir[i].inUse /\ \A j \in Slot \ {i} : loc'[t].dir[j] = directory[j]
    <3>1. DOMAIN directory = Slot
      BY <2>2
    <3>2. ~[directory[i] EXCEPT !.inUse = FALSE].inUse
      BY <2>2, <2>4 DEF Entry
    <3> QED  BY <2>3, <2>4, <3>1, <3>2
  <2>6. \A j \in Slot : Match(directory, j, call[t].name) => j = i
    BY <1>0, <1>3, <2>4, OnlyMatch
  <2> QED  BY <2>4, <2>5, <2>6 DEF Found, Match
<1>5. Looking(t)'
  BY <1>1, <1>2, <1>4, ReadyTypes DEF Looking, Writing
<1>6. Moving(t)' /\ Done(t)' = Done(t)
  BY <1>1, <1>2 DEF Moving, Done
<1> QED  BY <1>1, <1>2, <1>3, <1>5, <1>6, Inside DEF Refined

\* A file none of whose data sectors is written stays as it is.
LEMMA FileSame ==
  ASSUME ImageType, NEW h \in Header(Size), NEW s, s \notin Range(h.dataSectors),
         \A q \in Sector \ {s} : disk'[q] = disk[q]
  PROVE  FileOf(h)' = FileOf(h)
<1>1. \A o \in 0 .. h.numBytes - 1 : ByteAt(h, o)' = ByteAt(h, o)
  BY ByteType DEF ByteAt
<1> QED  BY <1>1 DEF FileOf

\* The header that a Create writes goes where no file is.
LEMMA ElsewhereWritten ==
  ASSUME Ready, Table = directory, Table' = Table, UNCHANGED objects,
         NEW s, \A i \in InUse : s \notin Owned(i),
         \A q \in Sector \ {s} : disk'[q] = disk[q]
  PROVE  stored' = stored /\ opened' = opened /\ OpenNamed'
<1>0. ImageType /\ NoSharedSector /\ OpenNamed /\ NamesInOrder(Table) /\ NamesInOrder(Table')
  BY ReadyTypes DEF Disk
<1>1. ASSUME NEW i \in Slot, Table[i].inUse
      PROVE  /\ disk'[Table[i].sector].hdr = disk[Table[i].sector].hdr
             /\ FileOf(disk[Table[i].sector].hdr)' = FileOf(disk[Table[i].sector].hdr)
  <2>1. i \in InUse
    BY <1>1 DEF InUse
  <2>2. PICK h \in Header(Size) : /\ h = disk[Table[i].sector].hdr /\ Table[i].sector \in Sector
                                  /\ Owned(i) = {Table[i].sector} \cup Range(h.dataSectors)
    BY <1>0, <2>1, OwnedHeader DEF HeaderOf
  <2>3. Table[i].sector # s /\ s \notin Range(h.dataSectors)
    BY <2>1, <2>2
  <2>4. disk'[Table[i].sector].hdr = h
    BY <2>2, <2>3
  <2>5. FileOf(h)' = FileOf(h)
    BY <1>0, <2>3, FileSame
  <2>6. FileOf(disk[Table[i].sector].hdr)' = FileOf(h)'
    BY <2>4 DEF FileOf, ByteAt
  <2> QED  BY <2>2, <2>4, <2>5, <2>6
<1>2. \A n : Content(n)' = Content(n)
  BY <1>0, <1>1, ContentSame DEF Match
<1>3. opened' = opened
  BY DEF opened, Live, objects
<1>4. OpenNamed'
  BY <1>0, <1>1 DEF OpenNamed, Live, objects, Match
<1> QED  BY <1>2, <1>3, <1>4 DEF stored

\* The header of a new file goes to a sector of no other file.
LEMMA WriteHdrRefined ==
  ASSUME Ready, NEW t \in Thread, Acts(t), WriteHdr(t)
  PROVE  Refined
<1>0. ThreadType /\ Control /\ Control' /\ ImageType /\ NamesInOrder(Table)
  BY ReadyTypes
<1>1. /\ pc[t] = "writeHdr" /\ pc'[t] = "writeDir1" /\ call[t].op = "Create"
      /\ UNCHANGED <<call, ret, loc, objects, directory>>
      /\ pc[t] \notin Resting /\ pc'[t] \notin Resting
  <2>1. /\ pc[t] = "writeHdr" /\ pc' = [pc EXCEPT ![t] = "writeDir1"]
        /\ UNCHANGED <<call, ret, loc, objects, directory>>
    BY DEF WriteHdr, At, Goto
  <2>2. pc'[t] = "writeDir1"
    BY <1>0, <2>1 DEF ThreadType
  <2>3. Where(call[t].op, "writeHdr")
    BY <1>0, <2>1 DEF Control, Placed
  <2>4. call[t].op = "Create"
    BY <2>3 DEF Where, Lookup, Resting
  <2> QED  BY <2>1, <2>2, <2>4 DEF Resting
<1>2. Table' = Table /\ Table = directory
  BY <1>0, <1>1, TableStays, TableQuiet
<1>3. PICK k \in Slot : Update(t, k)
  BY <1>1, ReadyTypes DEF Disk, Changing
<1>4. \A i \in InUse : loc[t].sector \notin Owned(i)
  <2>1. ~directory[k].inUse /\ loc[t].sector \notin Others(k)
    BY <1>1, <1>3 DEF Update, Pending
  <2> QED  BY <2>1 DEF Others, InUse
<1>5. \A q \in Sector \ {loc[t].sector} : disk'[q] = disk[q]
  BY <1>0 DEF WriteHdr, ImageType
<1>6. stored' = stored /\ opened' = opened /\ OpenNamed'
  BY <1>1, <1>2, <1>4, <1>5, ElsewhereWritten
<1>7. Looking(t)'
  BY <1>1, ReadyTypes DEF Looking, Writing
<1>8. Moving(t)' /\ Done(t)' = Done(t) /\ call'[t].op # "none"
  BY <1>1 DEF Moving, Done
<1>9. pc'[Main] = "copyOpen" => fd'[Main] \in Name
  BY <1>1, CopyNamed
<1>10. StoreInv'
  BY <1>0, <1>1, <1>2, <1>6, <1>7, <1>8, <1>9, Rest, StoreKept
<1>11. effected' = effected
  BY <1>8, EffectedIs DEF effected
<1> QED  BY <1>1, <1>6, <1>10, <1>11 DEF Refined, Store!vars

\* The names that the changed entry neither had nor gets.
LEMMA TableChanged ==
  ASSUME NamesInOrder(Table), NamesInOrder(Table'), UNCHANGED disk, NEW k \in Slot,
         \A j \in Slot \ {k} : Table'[j] = Table[j],
         NEW n, ~Match(Table, k, n), ~Match(Table', k, n)
  PROVE  Content(n)' = Content(n)
<1>1. \A i \in Slot : Match(Table', i, n) <=> Match(Table, i, n)
  BY DEF Match
<1>2. \A i \in Slot : Match(Table, i, n) =>
        FileOf(disk[Table[i].sector].hdr)' = FileOf(disk[Table[i].sector].hdr)
  <2>1. ASSUME NEW i \in Slot, Match(Table, i, n)
        PROVE  Table'[i] = Table[i]
    BY <2>1
  <2> QED  BY <2>1 DEF FileOf, ByteAt
<1> QED  BY <1>1, <1>2, ContentSame

\* The first sector of the directory: the moment Create and Remove take effect.
LEMMA WriteDir1Refined ==
  ASSUME Ready, NEW t \in Thread, Acts(t), WriteDir1(t)
  PROVE  Refined
<1> DEFINE n == call[t].name
           l == loc[t]
<1>0. ThreadType /\ Control /\ Control' /\ ImageType /\ NamesInOrder(Table) /\ Inv /\ OpenNamed
  BY ReadyTypes DEF Ready
<1>1. /\ pc[t] = "writeDir1" /\ pc'[t] = "writeDir2" /\ call[t].op \in {"Create", "Remove"}
      /\ UNCHANGED <<call, ret, loc, objects, disk>>
      /\ pc[t] \notin Resting /\ pc'[t] \notin Resting
  <2>1. /\ pc[t] = "writeDir1" /\ pc' = [pc EXCEPT ![t] = "writeDir2"]
        /\ UNCHANGED <<call, ret, loc, objects, disk>>
    BY DEF WriteDir1, At, Goto
  <2>2. pc'[t] = "writeDir2"
    BY <1>0, <2>1 DEF ThreadType
  <2>3. Where(call[t].op, "writeDir1")
    BY <1>0, <2>1 DEF Control, Placed
  <2>4. call[t].op \in {"Create", "Remove"}
    BY <2>3 DEF Where, Lookup, Resting
  <2> QED  BY <2>1, <2>2, <2>4 DEF Resting
<1>2. Table = directory /\ Table' = l.dir
  BY <1>0, <1>1, TableIsNext, TableQuiet
<1>3. PICK k \in Slot : Update(t, k)
  BY <1>1, ReadyTypes DEF Disk, Changing
<1>4. /\ NamesInOrder(Table') /\ Naming(t) /\ Writing(t) /\ n \in Name
      /\ \A j \in Slot \ {k} : Table'[j] = Table[j]
  <2>1. Naming(t) /\ Writing(t)
    BY <1>1 DEF Ready, NameInv, Writing
  <2>2. NamesInOrder(l.dir)
    BY <2>1 DEF Naming
  <2>3. \A j \in Slot \ {k} : l.dir[j] = directory[j]
    BY <1>3 DEF Update
  <2>4. n \in Name
    BY <1>1, ReadyTypes DEF Looking
  <2> QED  BY <1>2, <2>1, <2>2, <2>3, <2>4
<1>5. /\ effected' = [effected EXCEPT ![t] = TRUE] /\ ~effected[t]
      /\ Store!In(t, call[t].op)
  <2>1. Done(t)' = TRUE /\ Done(t) = FALSE
    BY <1>1 DEF Done
  <2>2. call[t] # NoCall
    BY <1>1, Rest
  <2> QED  BY <2>1, <2>2, EffectedIs DEF effected, Store!In
<1>6. opened' = opened
  BY <1>1 DEF opened, Live, objects
<1>7. Looking(t)' /\ Moving(t)'
  <2>1. Moving(t)'
    BY <1>1 DEF Moving
  <2>2. Looking(t)'
    BY <1>1, ReadyTypes DEF Looking, Writing
  <2> QED  BY <2>1, <2>2
<1>8. pc'[Main] = "copyOpen" => fd'[Main] \in Name
  BY <1>1, CopyNamed
<1>9. ASSUME OpenNamed'
      PROVE  StoreInv'
  BY <1>1, <1>4, <1>7, <1>8, <1>9, Rest, StoreKept
<1>10. CASE call[t].op = "Create"
  <2>1. /\ ~Table[k].inUse /\ Table'[k].inUse /\ Table'[k].sector = l.sector
        /\ l.hdr \in Header(Size) /\ disk'[l.sector].hdr = l.hdr
    BY <1>1, <1>2, <1>3, <1>10 DEF Update
  <2>2. Table'[k].name = n
    <3>1. PICK j \in Slot : Renaming(t, j)
      BY <1>4 DEF Naming
    <3>2. j = k
      BY <1>2, <2>1, <3>1 DEF Renaming
    <3> QED  BY <1>2, <1>10, <3>1, <3>2 DEF Renaming
  <2>3. Match(Table', k, n) /\ ~Found(Table, n)
    <3>1. Match(Table', k, n)
      BY <2>1, <2>2 DEF Match
    <3>2. \A j \in Slot : Match(Table', j, n) => j = k
      BY <1>4, <3>1, OnlyMatch
    <3> QED  BY <1>4, <2>1, <3>1, <3>2 DEF Found, Match
  <2>4. \A m \in Name \ {n} : Content(m)' = Content(m)
    <3>1. \A m \in Name \ {n} : ~Match(Table, k, m) /\ ~Match(Table', k, m)
      BY <2>1, <2>2 DEF Match
    <3> QED  BY <1>0, <1>1, <1>4, <3>1, TableChanged
  <2>5. Content(n)' = FileOf(l.hdr)
    <3>1. Content(n)' = FileOf(disk[Table[k].sector].hdr)'
      BY <1>1, <1>4, <2>3, ContentIsNext
    <3>2. FileOf(disk[Table[k].sector].hdr)' = FileOf(l.hdr)
      BY <1>1, <2>1 DEF FileOf, ByteAt
    <3> QED  BY <3>1, <3>2
  <2>6. FileOf(l.hdr) = [length |-> call[t].size, bytes |-> FileOf(l.hdr).bytes]
    <3>1. l.hdr.numBytes = call[t].size
      BY <1>1, <1>10, ReadyTypes DEF Looking, Writing
    <3> QED  BY <3>1 DEF FileOf
  <2>7. FileOf(l.hdr).bytes \in [0 .. call[t].size - 1 -> AnyByte]
    <3>1. l.hdr.numBytes = call[t].size
      BY <1>1, <1>10, ReadyTypes DEF Looking, Writing
    <3> QED  BY <1>0, <2>1, <3>1, FileType
  <2>8. stored' = [stored EXCEPT ![n] = [length |-> call[t].size, bytes |-> FileOf(l.hdr).bytes]]
    BY <1>1, <2>4, <2>5, <2>6 DEF stored
  <2>9. ~Store!Exists(n)
    BY <1>0, <1>4, <2>3, ExistsIs DEF Store!Exists
  <2>10. Store!CreateEffect(t)
    BY <1>1, <1>5, <1>6, <1>10, <2>7, <2>8, <2>9 DEF Store!CreateEffect
  <2>11. OpenNamed'
    <3>1. \A i \in Slot : Table[i].inUse => Table'[i] = Table[i]
      BY <1>4, <2>1
    <3> QED  BY <1>0, <1>1, <3>1 DEF OpenNamed, Live, objects, Match
  <2> QED  BY <1>9, <2>10, <2>11 DEF Refined, Store!Next
<1>11. CASE call[t].op = "Remove"
  <2>1. ~Found(Table', n) /\ Found(Table, n) /\ ~Table'[k].inUse
    BY <1>1, <1>2, <1>3, <1>11, ReadyTypes DEF Looking, Writing, Update
  <2>2. Match(Table, k, n)
    BY <1>4, <2>1 DEF Found, Match
  <2>3. \A m \in Name \ {n} : Content(m)' = Content(m)
    <3>1. \A m \in Name \ {n} : ~Match(Table, k, m) /\ ~Match(Table', k, m)
      BY <2>1, <2>2 DEF Match
    <3> QED  BY <1>0, <1>1, <1>4, <3>1, TableChanged
  <2>4. Content(n)' = NoFile
    BY <1>1, <2>1 DEF Content
  <2>5. stored' = [stored EXCEPT ![n] = NoFile]
    BY <1>1, <2>3, <2>4 DEF stored
  <2>6. Store!Exists(n)
    BY <1>0, <1>4, <2>1, ExistsIs DEF Store!Exists
  <2>7. Store!RemoveEffect(t)
    BY <1>1, <1>5, <1>6, <1>11, <2>5, <2>6 DEF Store!RemoveEffect
  <2>8. t = Main
    BY <1>0, <1>11 DEF Control, Thread
  <2>9. OpenNamed'
    BY <1>0, <1>1, <1>11, <2>8 DEF Inv, NothingOpen, OpenNamed, Live, objects
  <2> QED  BY <1>9, <2>7, <2>9 DEF Refined, Store!Next
<1> QED  BY <1>1, <1>10, <1>11

\* The other sector, and the bitmap: the store does not change any more.
LEMMA WriteRestRefined ==
  ASSUME Ready, NEW t \in Thread, Acts(t), WriteDir2(t) \/ WriteMap(t)
  PROVE  Refined
<1> DEFINE n == call[t].name
<1>0. ThreadType /\ Control /\ Control' /\ NamesInOrder(Table) /\ OpenNamed /\ Inv
  BY ReadyTypes DEF Ready
<1>1. /\ pc[t] \in {"writeDir2", "writeMap"} /\ pc[t] \notin Resting
      /\ UNCHANGED <<disk, objects, fd>>
      /\ pc[t] = "writeDir2" => directory' = Join(directory, loc[t].dir)
      /\ pc[t] = "writeMap" => UNCHANGED directory
  BY DEF WriteDir2, WriteMap, At, Resting
<1>2. \/ /\ call[t].op = "Create" /\ pc[t] = "writeDir2"
         /\ pc'[t] = "writeMap" /\ UNCHANGED <<call, loc, ret>>
      \/ call[t].op = "Create" /\ pc[t] = "writeMap" /\ Return(t, "Create", TRUE, <<>>)
      \/ /\ call[t].op = "Remove" /\ pc[t] = "writeMap"
         /\ pc'[t] = "writeDir1" /\ UNCHANGED <<call, loc, ret>>
      \/ call[t].op = "Remove" /\ pc[t] = "writeDir2" /\ Return(t, "Remove", TRUE, <<>>)
  BY <1>0 DEF WriteDir2, WriteMap, At, Goto, ThreadType
<1>3. pc'[t] \notin {"writeDir2", "copyOpen"} \/ \E op : Return(t, op, TRUE, <<>>)
  BY <1>2
<1>4. pc'[t] # "writeDir2"
  BY <1>0, <1>3, Returned DEF Resting
<1>5. Table' = Table
  <2>1. CASE pc[t] = "writeMap"
    BY <1>0, <1>1, <1>4, <2>1, TableStays
  <2>2. CASE pc[t] = "writeDir2"
    <3>1. PICK k \in Slot : Update(t, k)
      BY <2>2, ReadyTypes DEF Disk, Changing
    <3>2. directory' = loc[t].dir
      BY <1>1, <2>2, <3>1 DEF Update
    <3>3. \A u \in Thread \ {t} : pc'[u] \in Resting
      BY <1>0, <1>1, Rest, StepFrame DEF Alone, Frame
    <3>4. \A u \in Thread : pc'[u] # "writeDir2"
      BY <1>4, <3>3 DEF Resting
    <3> QED  BY <1>0, <2>2, <3>2, <3>4, TableIs, TableIsNext
  <2> QED  BY <1>1, <2>1, <2>2
<1>6. stored' = stored /\ opened' = opened /\ OpenNamed'
  BY <1>0, <1>1, <1>5, Unmoved
<1>7. effected[t] = Done(t) /\ Store!In(t, call[t].op)
  BY <1>1, Rest DEF effected, Store!In
<1>8. CASE call[t].op \in {"Create", "Remove"} /\ Return(t, call[t].op, TRUE, <<>>)
  <2>1. StoreInv' /\ Store!Return(t, TRUE, <<>>)
    BY <1>0, <1>1, <1>5, <1>6, <1>8, Returns
  <2>2. effected[t] = TRUE /\ (call[t].op = "Remove" => pc[t] = "writeDir2")
    <3>1. pc'[t] \in Resting
      BY <1>0, <1>8, Returned
    <3>2. call[t].op = "Remove" => pc[t] = "writeDir2"
      BY <1>2, <3>1 DEF Resting
    <3> QED  BY <1>1, <1>7, <1>8, <3>2 DEF Done
  <2>3. call[t].op = "Remove" => ~Store!Exists(n)
    <3>1. call[t].op = "Remove" => ~Found(Table, n) /\ n \in Name
      BY <1>0, <2>2, TableIs, ReadyTypes DEF Looking, Writing
    <3> QED  BY <1>0, <3>1, ExistsIs DEF Store!Exists
  <2>4. Store!CreateReturn(t) \/ Store!RemoveReturn(t)
    BY <1>6, <1>7, <1>8, <2>1, <2>2, <2>3 DEF Store!CreateReturn, Store!RemoveReturn
  <2> QED  BY <2>1, <2>4 DEF Refined, Store!Next
<1>9. CASE /\ call[t].op \in {"Create", "Remove"}
           /\ pc'[t] \in {"writeMap", "writeDir1"} /\ UNCHANGED <<call, loc, ret>>
           /\ call[t].op = "Create" => pc[t] = "writeDir2" /\ pc'[t] = "writeMap"
           /\ call[t].op = "Remove" => pc[t] = "writeMap" /\ pc'[t] = "writeDir1"
  <2>1. Looking(t)'
    BY <1>1, <1>9, ReadyTypes DEF Looking, Writing
  <2>2. Moving(t)' /\ Done(t)' = Done(t) /\ pc'[t] \notin Resting
    BY <1>9 DEF Moving, Done, Resting
  <2> QED  BY <1>1, <1>5, <1>9, <2>1, <2>2, Inside DEF Refined
<1> QED  BY <1>2, <1>8, <1>9

\* Open and Load read the header, and the file is open.
LEMMA OpenHdrRefined ==
  ASSUME Ready, NEW t \in Thread, Acts(t), OpenHdr(t)
  PROVE  Refined
<1> DEFINE n == call[t].name
<1>0. /\ ThreadType /\ Control /\ Control' /\ NamesInOrder(Table) /\ ImageType /\ ObjectType
      /\ NoSharedSector /\ Inv
  BY ReadyTypes DEF Ready, Disk
<1>1. /\ pc[t] = "fetchHdr" /\ pc[t] \notin Resting /\ call[t].op \in {"Open", "Load"}
      /\ UNCHANGED <<directory, disk>>
  BY DEF OpenHdr, At, Resting, image
<1>2. PICK i \in Slot : Match(directory, i, n) /\ loc[t].sector = directory[i].sector /\ n \in Name
  BY <1>1, ReadyTypes DEF Looking
<1>3. i \in InUse /\ Headers(loc[t].sector) = {HeaderOf(i)}
  <2>1. i \in InUse
    BY <1>2 DEF InUse, Match
  <2> QED  BY <1>0, <1>2, <2>1, OwnedHeader
<1>4. PICK x \in Handle :
        /\ x # opfile /\ \A u \in Thread : io[u].h # x
        /\ opfile' = x
        /\ file' = Reachable([file EXCEPT ![x] = NewOpenFile(n, HeaderOf(i))], x)
        /\ \/ /\ call[t].op = "Open"
              /\ Return(t, "Open", TRUE, <<>>)
           \/ /\ call[t].op = "Load"
              /\ Goto(t, "load")
              /\ io' = [io EXCEPT ![t] = IO(x, 0, 0, 0, <<>>)]
              /\ UNCHANGED <<call, ret>>
  BY <1>3 DEF OpenHdr
<1>5. file'[x] = NewOpenFile(n, HeaderOf(i))
  BY <1>0, <1>4 DEF Reachable, ObjectType
<1>6. /\ Live(opfile)' /\ file'[opfile'].of = n /\ file'[opfile'].hdr = HeaderOf(i)
      /\ file'[opfile'].seekPosition = 0
  <2>1. PICK f : f = file'[x]
    OBVIOUS
  <2>2. f = NewOpenFile(n, HeaderOf(i))
    BY <1>5, <2>1
  <2>3. f.live = TRUE /\ f.of = n /\ f.hdr = HeaderOf(i) /\ f.seekPosition = 0
    BY <2>2 DEF NewOpenFile
  <2> QED  BY <1>4, <2>1, <2>3 DEF Live
<1>7. pc'[t] # "writeDir2" /\ (call[t].op = "Load" => pc'[t] = "load")
  BY <1>0, <1>4, Returned DEF Goto, ThreadType, Resting
<1>8. Table' = Table /\ Table = directory
  BY <1>0, <1>1, <1>7, TableStays, TableQuiet
<1>9. opened' = [name |-> n, pos |-> 0]
  BY <1>6 DEF opened
<1>10. OpenNamed'
  BY <1>1, <1>2, <1>6, <1>8 DEF OpenNamed, HeaderOf
<1>11. stored' = stored
  <2>1. \A m : Content(m)' = Content(m)
    BY <1>1, <1>8, ContentStays
  <2> QED  BY <2>1 DEF stored
<1>12. Store!Exists(n) /\ Store!In(t, call[t].op) /\ ~effected[t]
  <2>1. Found(Table, n)
    BY <1>2, <1>8 DEF Found
  <2>2. Done(t) = FALSE
    BY <1>1 DEF Done
  <2> QED  BY <1>0, <1>1, <1>2, <2>1, <2>2, ExistsIs, Rest DEF Store!Exists, Store!In, effected
<1>13. CASE call[t].op = "Open"
  <2>1. Return(t, "Open", TRUE, <<>>)
    BY <1>4, <1>13
  <2>2. StoreInv' /\ Store!Return(t, TRUE, <<>>)
    BY <1>0, <1>1, <1>8, <1>10, <1>13, <2>1, Returns
  <2>3. Store!OpenReturn(t)
    BY <1>9, <1>11, <1>12, <1>13, <2>2 DEF Store!OpenReturn, Store!Exists
  <2> QED  BY <2>2, <2>3 DEF Refined, Store!Next
<1>14. CASE call[t].op = "Load"
  <2>1. pc'[t] = "load" /\ UNCHANGED <<call, ret>> /\ io'[t].h = opfile'
    <3>1. /\ io' = [io EXCEPT ![t] = IO(x, 0, 0, 0, <<>>)] /\ UNCHANGED <<call, ret>>
          /\ opfile' = x
      BY <1>4, <1>14
    <3>2. PICK l : l = io'[t]
      OBVIOUS
    <3>3. l = IO(x, 0, 0, 0, <<>>)
      BY <1>0, <3>1, <3>2 DEF ThreadType
    <3>4. l.h = x
      BY <3>3 DEF IO
    <3> QED  BY <1>7, <1>14, <3>1, <3>2, <3>4
  <2>2. Looking(t)' /\ Moving(t)'
    <3>1. Looking(t)'
      BY <1>2, <1>14, <2>1 DEF Looking, Writing
    <3> QED  BY <2>1, <3>1 DEF Moving
  <2>3. effected' = [effected EXCEPT ![t] = TRUE]
    <3>1. Done(t)' = TRUE
      BY <1>14, <2>1 DEF Done
    <3> QED  BY <3>1, EffectedIs
  <2>4. pc'[Main] = "copyOpen" => fd'[Main] \in Name
    BY <2>1, CopyNamed
  <2>5. StoreInv'
    BY <1>0, <1>1, <1>8, <1>10, <1>14, <2>1, <2>2, <2>4, Rest, StoreKept
  <2>6. Store!LoadEffect(t)
    BY <1>9, <1>11, <1>12, <1>14, <2>1, <2>3 DEF Store!LoadEffect
  <2> QED  BY <2>5, <2>6 DEF Refined, Store!Next
<1> QED  BY <1>1, <1>13, <1>14

\* The object that Load opened is the open file when it is deleted.
LEMMA LoadDeleteRefined ==
  ASSUME Ready, NEW t \in Thread, Acts(t), LoadDelete(t)
  PROVE  Refined
<1>0. ThreadType /\ Control /\ Control' /\ NamesInOrder(Table) /\ ObjectType
  BY ReadyTypes
<1>1. /\ pc[t] = "load" /\ pc[t] \notin Resting /\ call[t].op = "Load" /\ io[t].h = opfile
      /\ UNCHANGED <<directory, disk, opfile>> /\ Return(t, "Load", TRUE, <<>>)
      /\ file' = [file EXCEPT ![opfile] = Freed]
  <2>1. pc[t] = "load"
    BY DEF LoadDelete, At
  <2>2. io[t].h = opfile /\ call[t].op = "Load"
    BY <1>0, <2>1, ReadyTypes DEF Looking, Control, Placed, Where, Lookup, Resting
  <2> QED  BY <2>1, <2>2 DEF LoadDelete, Resting, image
<1>2. ~Live(opfile)'
  BY <1>0, <1>1 DEF Live, ObjectType, Freed
<1>3. pc'[t] # "writeDir2"
  BY <1>0, <1>1, Returned DEF Resting
<1>4. Table' = Table
  BY <1>0, <1>1, <1>3, TableStays
<1>5. \A m : Content(m)' = Content(m)
  BY <1>1, <1>4, ContentStays
<1>6. stored' = stored /\ opened' = NotOpen /\ OpenNamed'
  BY <1>2, <1>5 DEF stored, opened, OpenNamed
<1>7. effected[t] = TRUE /\ Store!In(t, "Load")
  BY <1>1, Rest DEF effected, Done, Store!In
<1>8. StoreInv' /\ Store!Return(t, TRUE, <<>>)
  BY <1>0, <1>1, <1>4, <1>6, Returns
<1>9. Store!LoadReturn(t)
  BY <1>6, <1>7, <1>8 DEF Store!LoadReturn
<1> QED  BY <1>8, <1>9 DEF Refined, Store!Next

-----------------------------------------------------------------------------
(* Calls begin and programs end.                                           *)

\* Moving in the next state, in terms of what the locals then are.
LEMMA MovingNext ==
  ASSUME NEW t \in Thread, NEW l, l = io'[t], NEW h, h = file'[l.h].hdr,
         NEW from, from = call'[t].buf,
         pc'[t] \in {"read", "writeFirst", "writeLast", "write"} =>
           /\ l.h = opfile' /\ Live(opfile)' /\ call'[t].size \in Lengths
           /\ l.pos = file'[opfile'].seekPosition
           /\ l.n = Clip(h.numBytes, l.pos, call'[t].size),
         pc'[t] = "read" => HasRead(l, h)',
         pc'[t] \in {"writeFirst", "writeLast"} => l.i = SectorOf(l.pos),
         pc'[t] = "writeLast" => FirstAligned(l.pos) \/ Filled(l, h, l.i)',
         pc'[t] = "write" => Around(l, h)' /\ InPlace(l, h, from)'
  PROVE  Moving(t)'
<1>1. HasRead(l, h)' => HasRead(io[t], file[io[t].h].hdr)'
  BY DEF HasRead, ByteAt
<1>2. Filled(l, h, l.i)' => Filled(io[t], file[io[t].h].hdr, io[t].i)'
  BY DEF Filled, ByteAt
<1>3. Around(l, h)' => Around(io[t], file[io[t].h].hdr)'
  BY DEF Around, ByteAt
<1>4. InPlace(l, h, from)' => InPlace(io[t], file[io[t].h].hdr, call[t].buf)'
  BY DEF InPlace, ByteAt
<1> QED  BY <1>1, <1>2, <1>3, <1>4 DEF Moving

\* The locals of a thread that a step leaves alone, with the disk as it was.
LEMMA SaysSame ==
  ASSUME NEW u \in Thread, Looking(u), Moving(u), UNCHANGED <<directory, disk, opfile, file>>,
         pc'[u] = pc[u], call'[u] = call[u], loc'[u] = loc[u], io'[u] = io[u]
  PROVE  Looking(u)' /\ Moving(u)'
<1>1. Looking(u)'
  BY DEF Looking, Writing
<1>2. PICK l, h, from : l = io[u] /\ h = file[l.h].hdr /\ from = call[u].buf
  OBVIOUS
<1>3. /\ HasRead(l, h)' = HasRead(l, h) /\ Filled(l, h, l.i)' = Filled(l, h, l.i)
      /\ Around(l, h)' = Around(l, h) /\ InPlace(l, h, from)' = InPlace(l, h, from)
  BY DEF HasRead, Filled, Around, InPlace, ByteAt
<1>4. Live(opfile)' = Live(opfile)
  BY DEF Live
<1>5. Moving(u)'
  BY <1>2, <1>3, <1>4, MovingNext DEF Moving
<1> QED  BY <1>1, <1>5

\* A step that changes nothing that a caller or the store sees.
LEMMA Idles ==
  ASSUME Inv, Inv', NameInv, CopyInv, StoreInv, UNCHANGED <<image, objects, call, ret, loc, io>>,
         \A u \in Thread : pc'[u] = pc[u] \/ (pc[u] \in Resting /\ pc'[u] = "done"),
         pc'[Main] = "copyOpen" => fd'[Main] = fd[Main]
  PROVE  StoreInv' /\ UNCHANGED Store!vars
<1>0. UNCHANGED <<directory, disk, opfile, file>> /\ Ready /\ Main \in Thread
  BY DEF image, objects, Ready, Thread
<1>1. \A u \in Thread : pc[u] \in Resting => call[u] = NoCall
  BY <1>0, Rest
<1>2. \A u \in Thread : Looking(u)' /\ Moving(u)'
  <2>1. "done" \in Resting
    BY DEF Resting
  <2> QED  BY <1>0, <1>1, <2>1, SaysSame, RestSays, ReadyTypes
<1>3. \A u \in Thread : pc'[u] = "writeDir2" <=> pc[u] = "writeDir2"
  BY DEF Resting
<1>4. Table' = Table
  <2>1. CASE \E u \in Thread : pc[u] = "writeDir2"
    BY <1>0, <1>3, <2>1, TableIs, TableIsNext, ReadyTypes
  <2>2. CASE \A u \in Thread : pc[u] # "writeDir2"
    BY <1>0, <1>3, <2>2, TableIs, TableIsNext, ReadyTypes
  <2> QED  BY <2>1, <2>2
<1>5. stored' = stored /\ opened' = opened /\ OpenNamed' /\ NamesInOrder(Table')
  BY <1>0, <1>4, Unmoved, ReadyTypes DEF objects
<1>6. \A u \in Thread : Done(u)' = Done(u)
  <2> TAKE u \in Thread
  <2>1. CASE pc'[u] = pc[u]
    BY <2>1 DEF Done
  <2>2. CASE pc[u] \in Resting
    <3>1. call[u] = NoCall /\ call'[u] = NoCall
      BY <1>1, <2>2
    <3> QED  BY <3>1, NotDone
  <2> QED  BY <2>1, <2>2
<1>7. effected' = effected
  BY <1>6 DEF effected
<1>8. Turns'
  BY <1>0, ReadyTypes DEF Turns
<1>9. pc'[Main] = "copyOpen" => fd'[Main] \in Name
  BY <1>0 DEF StoreInv
<1>10. StoreInv'
  BY <1>2, <1>5, <1>8, <1>9 DEF StoreInv
<1> QED  BY <1>5, <1>7, <1>10 DEF Store!vars

\* A thread that is done, or a call through a bad pointer, which stops the machine,
\* leaves the store as it is.
LEMMA FinishRefined ==
  ASSUME Ready, NEW t \in Thread, Acts(t), Finish(t) \/ BadPointer(t)
  PROVE  Refined
<1>0. ThreadType /\ Inv /\ Inv' /\ NameInv /\ CopyInv /\ StoreInv /\ Main \in Thread
  BY ReadyTypes DEF Ready, Thread
<1>1. CASE Finish(t)
  <2>1. /\ UNCHANGED <<image, objects, call, ret, loc, io>> /\ pc' = [pc EXCEPT ![t] = "done"]
        /\ fd' = [fd EXCEPT ![t] = NoName] /\ pc[t] \in Resting
    BY <1>1 DEF Finish, Goto, Resting
  <2>2. \A u \in Thread : pc'[u] = pc[u] \/ (pc[u] \in Resting /\ pc'[u] = "done")
    BY <1>0, <2>1 DEF ThreadType
  <2>3. pc'[Main] = "copyOpen" => fd'[Main] = fd[Main]
    BY <1>0, <2>1 DEF ThreadType
  <2> QED  BY <1>0, <2>1, <2>2, <2>3, Idles DEF Refined
<1>2. CASE BadPointer(t)
  <2>1. UNCHANGED <<image, objects, call, ret, loc, io>> /\ pc' = pc /\ fd' = fd
    BY <1>2 DEF BadPointer, Stop
  <2> QED  BY <1>0, <2>1, Idles DEF Refined
<1> QED  BY <1>1, <1>2

\* Whoever enters is alone.
LEMMA Entering ==
  ASSUME OneCaller, Ready, NEW t \in Thread, Acts(t),
         NEW labels \in SUBSET (Resting \ {"done"}), NEW op, Enter(t, labels, op),
         t # Main => op \in {"Load", "Create", "Open", "Read", "Write", "Close"}
  PROVE  /\ \A u \in Thread : call[u] = NoCall
         /\ pc[t] \in Resting \ {"done"}
<1>0. Control /\ pc[t] \in Resting \ {"done"}
  BY ReadyTypes DEF Enter
<1>1. CASE t = Main
  <2>1. \A u \in Thread : pc[u] \in Resting
    BY <1>0, <1>1 DEF Control, Thread, Resting
  <2> QED  BY <1>0, <2>1, Rest
<1>2. CASE t # Main
  <2>1. t \in Program /\ pc[Main] = "done"
    BY <1>0, <1>2, MainDone DEF Thread
  <2>2. ASSUME NEW u \in Program
        PROVE  call[u].op = "none"
    <3>1. CASE \A p, q \in Program : p = q
      <4>1. u = t
        BY <2>1, <3>1
      <4> QED  BY <1>0, <4>1, Rest
    <3>2. CASE {"Load", "Create", "Open", "Read", "Write", "Close"} \subseteq Exclusive
      <4>1. u \in Thread /\ call[u].op \notin Exclusive
        BY <1>2, <2>2, <3>2 DEF Enter, Thread
      <4>2. Where(call[u].op, pc[u]) /\ call[u].op # "Remove"
        BY <1>0, <2>2, <4>1 DEF Control, Placed
      <4> QED  BY <3>2, <4>1, <4>2 DEF Where
    <3> QED  BY <3>1, <3>2 DEF OneCaller
  <2>3. pc[Main] \in Resting /\ Main \in Thread
    BY <2>1 DEF Resting, Thread
  <2>4. \A u \in Thread : call[u].op = "none"
    BY <2>2, <2>3, Rest DEF Thread
  <2> QED  BY <1>0, <2>4, Rest
<1> QED  BY <1>1, <1>2

\* The record of a call, field by field.
LEMMA NamedCall ==
  ASSUME NEW op, NEW n, NEW size
  PROVE  [NoCall EXCEPT !.op = op, !.name = n, !.size = size]
           = [op |-> op, name |-> n, size |-> size, buf |-> <<>>]
<1> DEFINE a == [NoCall EXCEPT !.op = op]
           b == [a EXCEPT !.name = n]
<1>1. a = [op |-> op, name |-> NoName, size |-> 0, buf |-> <<>>]
  BY DEF NoCall
<1> HIDE DEF a
<1>2. b = [op |-> op, name |-> n, size |-> 0, buf |-> <<>>]
  BY <1>1
<1> HIDE DEF b
<1>3. [b EXCEPT !.size = size] = [op |-> op, name |-> n, size |-> size, buf |-> <<>>]
  BY <1>2
<1> QED  BY <1>3 DEF a, b

\* The call that a Read is.
LEMMA SizedCall ==
  ASSUME NEW op, NEW size
  PROVE  [NoCall EXCEPT !.op = op, !.size = size]
           = [op |-> op, name |-> NoName, size |-> size, buf |-> <<>>]
<1> DEFINE a == [NoCall EXCEPT !.op = op]
<1>1. a = [op |-> op, name |-> NoName, size |-> 0, buf |-> <<>>]
  BY DEF NoCall
<1> HIDE DEF a
<1>2. [a EXCEPT !.size = size] = [op |-> op, name |-> NoName, size |-> size, buf |-> <<>>]
  BY <1>1
<1> QED  BY <1>2 DEF a

\* The call that a Write is.
LEMMA FilledCall ==
  ASSUME NEW op, NEW size, NEW buf
  PROVE  [NoCall EXCEPT !.op = op, !.size = size, !.buf = buf]
           = [op |-> op, name |-> NoName, size |-> size, buf |-> buf]
<1> DEFINE a == [NoCall EXCEPT !.op = op, !.size = size]
<1>1. a = [op |-> op, name |-> NoName, size |-> size, buf |-> <<>>]
  BY SizedCall
<1> HIDE DEF a
<1>2. [a EXCEPT !.buf = buf] = [op |-> op, name |-> NoName, size |-> size, buf |-> buf]
  BY <1>1
<1> QED  BY <1>2 DEF a

\* A call that looks up a name.
LEMMA Begins ==
  ASSUME Ready, NEW t \in Thread, Acts(t), \A u \in Thread : call[u] = NoCall,
         NEW op \in {"Create", "Remove", "Open", "Load"}, NEW n \in Name, NEW size,
         op = "Create" => size \in Size, op # "Create" => size = 0,
         NEW next, NEW fail, Begin(t, op, n, size, next, fail)
  PROVE  Refined
<1> DEFINE c == [NoCall EXCEPT !.op = op, !.name = n, !.size = size]
<1>0. ThreadType /\ Control /\ Control' /\ OpenNamed /\ NamesInOrder(Table) /\ pc[t] \in Resting
  BY ReadyTypes, Rest
<1>1. /\ pc'[t] = "fetchDir1" /\ UNCHANGED <<directory, disk, objects>>
      /\ call' = [call EXCEPT ![t] = c] /\ call'[t] = c
      /\ ret' = [ret EXCEPT ![t] = Result("none", FALSE, <<>>)]
  BY <1>0 DEF Begin, ThreadType, image
<1>2. c.op = op /\ c.name = n
  BY DEF NoCall
<1>3. c \in CallSet
  <2> DEFINE r == [op |-> op, name |-> n, size |-> size, buf |-> <<>>]
  <2>1. c = r
    BY NamedCall, Zenon
  <2>2. CASE op = "Create"
    <3>1. r \in [op: {"Create"}, name: Name, size: Size, buf: {<<>>}]
      BY <2>2
    <3> QED  BY <2>1, <3>1 DEF CallSet
  <2>3. CASE op # "Create"
    <3>1. r \in [op: {"Remove", "Open", "Load"}, name: Name, size: {0}, buf: {<<>>}]
      BY <2>3
    <3> QED  BY <2>1, <3>1 DEF CallSet
  <2> QED  BY <2>2, <2>3
<1> HIDE DEF c
<1>4. Table' = Table
  BY <1>0, <1>1, TableStays DEF Resting
<1>5. stored' = stored /\ opened' = opened /\ OpenNamed'
  BY <1>0, <1>1, <1>4, Unmoved
<1>6. Looking(t)' /\ Moving(t)' /\ Done(t)' = FALSE
  <2>1. Looking(t)'
    BY <1>1, <1>2 DEF Looking, Writing
  <2>2. Moving(t)'
    BY <1>1 DEF Moving
  <2>3. Done(t)' = FALSE
    BY <1>1 DEF Done
  <2> QED  BY <2>1, <2>2, <2>3
<1>7. pc'[Main] = "copyOpen" => fd'[Main] \in Name
  BY <1>1, CopyNamed
<1>8. StoreInv'
  BY <1>0, <1>1, <1>2, <1>4, <1>5, <1>6, <1>7, StoreKept DEF Alone
<1>9. effected' = [effected EXCEPT ![t] = FALSE]
  BY <1>6, EffectedIs
<1>10. Store!Call(t)
  BY <1>1, <1>3, <1>5, <1>9 DEF Store!Call, Store!NoResult, Result
<1> QED  BY <1>8, <1>10 DEF Refined, Store!Next

\* The commands and system calls that name a file.
LEMMA BeginsRefined ==
  ASSUME OneCaller, Ready, NEW t \in Thread, Acts(t),
         \/ t = Main /\ (RemoveBegin \/ CopyBegin \/ CopyOpen \/ PrintBegin)
         \/ LoadBegin(t) \/ CreateBegin(t) \/ OpenBegin(t)
  PROVE  Refined
<1>1. /\ {"boot", "removed", "copied"} \subseteq Resting \ {"done"}
      /\ "copyOpen" \in Resting \ {"done"} /\ "new" \in Resting \ {"done"}
      /\ "idle" \in Resting \ {"done"}
  BY DEF Resting
<1>2. \A labels \in SUBSET (Resting \ {"done"}) : \A op :
        Enter(t, labels, op) /\
          (t # Main => op \in {"Load", "Create", "Open", "Read", "Write", "Close"})
        => \A u \in Thread : call[u] = NoCall
  BY Entering
<1>3. CASE t = Main /\ (RemoveBegin \/ CopyBegin \/ CopyOpen \/ PrintBegin)
  <2>1. \A u \in Thread : call[u] = NoCall
    <3>1. \E labels \in SUBSET (Resting \ {"done"}) : \E op : Enter(t, labels, op)
      BY <1>1, <1>3 DEF RemoveBegin, CopyBegin, CopyOpen, PrintBegin
    <3> QED  BY <1>2, <1>3, <3>1
  <2>2. CASE RemoveBegin
    <3>1. PICK n \in Name : Begin(t, "Remove", n, 0, "removed", "removed")
      BY <1>3, <2>2 DEF RemoveBegin
    <3> QED  BY <2>1, <3>1, Begins
  <2>3. CASE CopyBegin
    <3>1. PICK n \in Name, size \in Size : Begin(t, "Create", n, size, "copyOpen", "copied")
      BY <1>3, <2>3 DEF CopyBegin
    <3> QED  BY <2>1, <3>1, Begins
  <2>4. CASE CopyOpen
    <3>1. Begin(t, "Open", fd[Main], 0, "copy", "noFile") /\ fd[Main] \in Name
      BY <1>3, <2>4 DEF CopyOpen, Enter, Ready, StoreInv
    <3>2. PICK n \in Name : Begin(t, "Open", n, 0, "copy", "noFile")
      BY <3>1
    <3> QED  BY <2>1, <3>2, Begins
  <2>5. CASE PrintBegin
    <3>1. PICK n \in Name : Begin(t, "Open", n, 0, "print", "printed")
      BY <1>3, <2>5 DEF PrintBegin
    <3> QED  BY <2>1, <3>1, Begins
  <2> QED  BY <1>3, <2>2, <2>3, <2>4, <2>5
<1>4. CASE LoadBegin(t)
  <2>1. PICK n \in Name : Begin(t, "Load", n, 0, "idle", "done")
    BY <1>4 DEF LoadBegin
  <2>2. \A u \in Thread : call[u] = NoCall
    BY <1>1, <1>2, <1>4 DEF LoadBegin
  <2> QED  BY <2>1, <2>2, Begins
<1>5. CASE CreateBegin(t)
  <2>1. PICK n \in Name, size \in Size : Begin(t, "Create", n, size, "idle", "idle")
    BY <1>5 DEF CreateBegin
  <2>2. \A u \in Thread : call[u] = NoCall
    BY <1>1, <1>2, <1>5 DEF CreateBegin
  <2> QED  BY <2>1, <2>2, Begins
<1>6. CASE OpenBegin(t)
  <2>1. PICK n \in Name : Begin(t, "Open", n, 0, "idle", "idle")
    BY <1>6 DEF OpenBegin
  <2>2. \A u \in Thread : call[u] = NoCall
    BY <1>1, <1>2, <1>6 DEF OpenBegin
  <2> QED  BY <2>1, <2>2, Begins
<1> QED  BY <1>3, <1>4, <1>5, <1>6

\* Close, and the end of Copy and of Print: no file is open.
LEMMA CloseRefined ==
  ASSUME OneCaller, Ready, NEW t \in Thread, Acts(t),
         Close(t) \/ (t = Main /\ (CopyDelete \/ PrintDelete))
  PROVE  Refined
<1>0. /\ ThreadType /\ Control /\ Control' /\ NamesInOrder(Table) /\ ObjectType
      /\ UNCHANGED <<directory, disk, call>>
  BY ReadyTypes DEF Close, CopyDelete, PrintDelete, Delete, image
<1>1. \A u \in Thread : call[u] = NoCall
  <2>1. CASE Close(t)
    <3>1. {"idle"} \in SUBSET (Resting \ {"done"})
      BY DEF Resting
    <3> QED  BY <2>1, <3>1, Entering DEF Close
  <2>2. CASE t = Main /\ pc[Main] \in {"copy", "close"}
    <3>1. \A u \in Thread : pc[u] \in Resting
      BY <1>0, <2>2 DEF Control, Thread, Resting
    <3> QED  BY <3>1, Rest
  <2> QED  BY <2>1, <2>2 DEF CopyDelete, PrintDelete, Delete, At
<1>2. pc[t] \in Resting /\ pc'[t] \in Resting \ {"copyOpen"}
  <2>1. CASE Close(t)
    BY <2>1 DEF Close, Enter, Resting
  <2>2. CASE t = Main /\ (CopyDelete \/ PrintDelete)
    <3>1. /\ pc[t] \in {"copy", "close"} /\ t \in DOMAIN pc
          /\ \E label \in {"copied", "printed"} : pc' = [pc EXCEPT ![t] = label]
      BY <1>0, <2>2 DEF CopyDelete, PrintDelete, Delete, At, Goto, ThreadType
    <3> QED  BY <3>1 DEF Resting
  <2> QED  BY <2>1, <2>2
<1>3. ~Live(opfile)'
  <2>1. CASE Close(t)
    BY <2>1, Constants DEF Close, Live
  <2>2. CASE t = Main /\ (CopyDelete \/ PrintDelete)
    <3>1. opfile' = opfile /\ file' = [file EXCEPT ![opfile] = Freed]
      BY <2>2 DEF CopyDelete, PrintDelete, Delete
    <3> QED  BY <1>0, <3>1 DEF Live, ObjectType, Freed
  <2> QED  BY <2>1, <2>2
<1>4. ret' = [ret EXCEPT ![t] = Result("Close", TRUE, <<>>)]
  BY DEF Close, CopyDelete, PrintDelete, Delete
<1>5. Table' = Table
  BY <1>0, <1>2, TableStays DEF Resting
<1>6. \A m : Content(m)' = Content(m)
  BY <1>0, <1>5, ContentStays
<1>7. stored' = stored /\ opened' = NotOpen /\ OpenNamed'
  BY <1>3, <1>6 DEF stored, opened, OpenNamed
<1>8. Looking(t)' /\ Moving(t)'
  BY <1>0, <1>1, <1>2, RestSays
<1>9. effected' = effected
  <2>1. Done(t)' = FALSE /\ Done(t) = FALSE
    BY <1>0, <1>1, NotDone
  <2> QED  BY <2>1, EffectedIs DEF effected
<1>10. pc'[Main] = "copyOpen" => fd'[Main] \in Name
  BY <1>2, CopyNamed
<1>11. StoreInv'
  BY <1>0, <1>1, <1>5, <1>7, <1>8, <1>10, StoreKept DEF Alone
<1>12. Store!Close(t)
  BY <1>0, <1>1, <1>4, <1>7, <1>9 DEF Store!Close, Store!Answer, Result
<1> QED  BY <1>11, <1>12 DEF Refined, Store!Next

-----------------------------------------------------------------------------
(* Every step is a step of the store: Read and Write.                      *)

\* What is asked for, clipped to the file.
LEMMA ClipIs ==
  ASSUME NEW len \in Int, NEW pos \in Nat, NEW n \in Int
  PROVE  {o \in pos .. pos + n - 1 : o < len} = pos .. pos + Clip(len, pos, n) - 1
<1>1. CASE n <= 0 \/ pos >= len
  BY <1>1 DEF Clip
<1>2. CASE n > 0 /\ pos < len /\ pos + n > len
  <2>1. Clip(len, pos, n) = len - pos
    BY <1>2 DEF Clip
  <2> QED  BY <1>2, <2>1
<1>3. CASE n > 0 /\ pos < len /\ pos + n <= len
  <2>1. Clip(len, pos, n) = n
    BY <1>3 DEF Clip
  <2> QED  BY <1>3, <2>1
<1> QED  BY <1>1, <1>2, <1>3

\* Sizes and offsets, as the numbers they are.

\* The lengths callers ask for.
LEMMA LengthsInt ==
  /\ Lengths \subseteq Int
  /\ Length \subseteq Lengths /\ 1 .. TransferSize \subseteq Lengths /\ TransferSize \in Lengths
BY Constants DEF Lengths

\* The offsets below a length.
LEMMA InRange ==
  ASSUME NEW n \in Int, NEW o \in 0 .. n - 1
  PROVE  o \in Nat /\ o < n
OBVIOUS

\* An offset below a length is one of its offsets.
LEMMA Below ==
  ASSUME NEW n \in Int, NEW o \in Nat, o < n
  PROVE  o \in 0 .. n - 1
OBVIOUS

\* A count above zero.
LEMMA Positive ==
  ASSUME NEW n \in Nat
  PROVE  /\ n > 0 => n \in Nat \ {0} /\ n # 0
         /\ n = 0 \/ n > 0
         /\ n = 0 => ~(n > 0)
OBVIOUS

\* A request for nothing covers no byte.
LEMMA NoRequest ==
  ASSUME NEW pos \in Nat
  PROVE  pos .. pos + 0 - 1 = {}
OBVIOUS


\* A request that is not empty has a last byte.
LEMMA LastByte ==
  ASSUME NEW pos \in Nat, NEW n \in Nat \ {0}
  PROVE  pos + n - 1 \in Nat /\ n \in Nat /\ n > 0 /\ n # 0
OBVIOUS

\* The sector before the next one.
LEMMA NextSector ==
  ASSUME NEW a \in Nat, NEW b \in Nat
  PROVE  /\ a # b => a + 1 # b + 1
         /\ a # b /\ a < b + 1 => a < b
         /\ a # b /\ a <= b => a < b
         /\ a <= b => a < b \/ a = b
         /\ a < b + 1 => a <= b
         /\ b + 1 <= a => b <= a /\ a # b
OBVIOUS

\* A sector is not before itself.
LEMMA NatReflexive ==
  ASSUME NEW a \in Nat
  PROVE  a <= a
OBVIOUS

\* A byte of a request that lies within the file.
LEMMA InRequest ==
  ASSUME NEW pos \in Nat, NEW n \in Nat \ {0}, NEW len \in Int, pos + n <= len,
         NEW o \in pos .. pos + n - 1
  PROVE  o - pos \in 0 .. n - 1 /\ pos + (o - pos) = o /\ o \in 0 .. len - 1
OBVIOUS

\* The same, by its place in the request.
LEMMA OfRequest ==
  ASSUME NEW pos \in Nat, NEW n \in Nat \ {0}, NEW len \in Int, pos + n <= len, NEW o \in 0 .. n - 1
  PROVE  pos + o \in 0 .. len - 1
OBVIOUS

\* The first and the last byte of a request.
LEMMA RequestEnds ==
  ASSUME NEW pos \in Nat, NEW n \in Nat \ {0}
  PROVE  /\ pos \in pos .. pos + n - 1 /\ pos + n - 1 \in pos .. pos + n - 1
         /\ \A p \in pos .. pos + n - 1 : p <= pos + n - 1
         /\ (pos + n - 1) + 1 = pos + n
OBVIOUS

\* An open file at another position.
LEMMA OpenedRecord ==
  ASSUME NEW of, NEW pos, NEW p, NEW r, r = [name |-> of, pos |-> pos]
  PROVE  /\ r.name = of /\ r.pos = pos
         /\ [r EXCEPT !.pos = p] = [name |-> of, pos |-> p]
OBVIOUS

\* The same for the open file of the store.
LEMMA OpenedMoves ==
  ASSUME NEW of, NEW pos, opened = [name |-> of, pos |-> pos], NEW p
  PROVE  [opened EXCEPT !.pos = p] = [name |-> of, pos |-> p]
BY OpenedRecord

\* With a file open there is one to the store.
LEMMA OpenedIsOpen ==
  ASSUME NEW of \in Name, NEW pos \in Nat, opened = [name |-> of, pos |-> pos]
  PROVE  Store!IsOpen
BY NoFileNotOpen DEF Store!IsOpen

\* What a request covers, clipped to the open file.
LEMMA StoreWindow ==
  ASSUME opened.pos \in Nat, stored[opened.name].length \in Int, NEW n \in Int
  PROVE  Store!Window(n)
           = opened.pos .. opened.pos + Clip(stored[opened.name].length, opened.pos, n) - 1
BY ClipIs DEF Store!Window

\* The open file is one of the store's.
LEMMA OpenFileIs ==
  ASSUME Ready, Live(opfile), NEW h, h = file[opfile].hdr, NEW pos, pos = file[opfile].seekPosition
  PROVE  /\ h \in Header(Size) /\ h.numBytes \in Int /\ pos \in Nat
         /\ file[opfile].of \in Name
         /\ opened = [name |-> file[opfile].of, pos |-> pos]
         /\ Store!IsOpen
         /\ stored[opened.name] = FileOf(h)
         /\ \A n \in Int : Store!Window(n) = pos .. pos + Clip(h.numBytes, pos, n) - 1
<1>0. ObjectType /\ ImageType /\ Inv /\ OpenNamed /\ NamesInOrder(Table)
  BY ReadyTypes DEF Ready
<1>1. PICK i \in Slot : Match(Table, i, file[opfile].of) /\ disk[Table[i].sector].hdr = h
  BY <1>0 DEF OpenNamed
<1>2. h \in Header(Size) /\ file[opfile].of \in Name
  BY <1>0, <1>1, TableHeader DEF Match, OpenNamed
<1>3. h.numBytes \in Int /\ pos \in Nat
  BY <1>0, LiveHeader
<1>4. opened = [name |-> file[opfile].of, pos |-> pos]
  BY DEF opened
<1>5. Store!IsOpen
  BY <1>2, <1>3, <1>4, OpenedIsOpen
<1>6. stored[opened.name] = FileOf(h)
  BY <1>0, <1>1, <1>2, <1>4, ContentIs DEF stored
<1>7. stored[opened.name].length = h.numBytes
  BY <1>0, <1>2, <1>6, FileType
<1>8. ASSUME NEW n \in Int
      PROVE  Store!Window(n) = pos .. pos + Clip(h.numBytes, pos, n) - 1
  <2>1. opened.pos = pos
    BY <1>4, OpenedRecord
  <2>2. Store!Window(n)
          = opened.pos .. opened.pos + Clip(stored[opened.name].length, opened.pos, n) - 1
    BY <1>3, <1>7, <2>1, StoreWindow
  <2> QED  BY <1>7, <2>1, <2>2
<1> QED  BY <1>2, <1>3, <1>4, <1>5, <1>6, <1>8

\* The open file, to a caller that asks for some of its bytes.
LEMMA OpenFileWindow ==
  ASSUME Ready, Live(opfile)
  PROVE  /\ file[opfile].hdr.numBytes \in Int /\ file[opfile].seekPosition \in Nat /\ Store!IsOpen
         /\ \A n \in Int : Store!Window(n) =
              file[opfile].seekPosition .. file[opfile].seekPosition
                + Clip(file[opfile].hdr.numBytes, file[opfile].seekPosition, n) - 1
<1>1. PICK h, pos : h = file[opfile].hdr /\ pos = file[opfile].seekPosition
  OBVIOUS
<1>2. /\ h.numBytes \in Int /\ pos \in Nat /\ Store!IsOpen
      /\ \A n \in Int : Store!Window(n) = pos .. pos + Clip(h.numBytes, pos, n) - 1
  BY <1>1, OpenFileIs
<1> QED  BY <1>1, <1>2

\* The sectors of the bytes of a transfer.
LEMMA SectorMono ==
  ASSUME NEW a \in Nat, NEW b \in Nat
  PROVE  SectorOf(a) \in Nat /\ (a <= b => SectorOf(a) <= SectorOf(b))
BY Constants, DivNat, DivMono DEF SectorOf

\* No byte of a request lies before its first sector.
LEMMA FromFirst ==
  ASSUME NEW pos \in Nat, NEW n \in Nat
  PROVE  /\ \A o \in 0 .. n - 1 : ~(SectorOf(pos + o) < SectorOf(pos))
         /\ \A o \in pos .. pos + n - 1 : ~(SectorOf(o) < SectorOf(pos))
<1>1. \A o \in Nat : pos <= o => ~(SectorOf(o) < SectorOf(pos))
  BY SectorMono
<1>2. \A o \in 0 .. n - 1 : pos + o \in Nat /\ pos <= pos + o
  OBVIOUS
<1>3. \A o \in pos .. pos + n - 1 : o \in Nat /\ pos <= o
  OBVIOUS
<1> QED  BY <1>1, <1>2, <1>3

\* At its start a transfer has done nothing.
LEMMA Untouched ==
  ASSUME NEW l, l.pos \in Nat, l.n \in Nat, l.i = SectorOf(l.pos), NEW h, NEW from
  PROVE  HasRead(l, h)' /\ InPlace(l, h, from)'
<1>1. HasRead(l, h)'
  BY FromFirst DEF HasRead
<1>2. InPlace(l, h, from)'
  BY FromFirst DEF InPlace, Window
<1> QED  BY <1>1, <1>2

\* What Read and Write have in common: a transfer starts at the seek position, or
\* the call returns at once because there is nothing to transfer.
LEMMA TransferRefined ==
  ASSUME Ready, NEW t \in Thread, Acts(t), \A u \in Thread : call[u] = NoCall,
         NEW c \in CallSet, c.op \in {"Read", "Write"}, c.size \in Lengths,
         NEW first \in {"read", "writeFirst", "writeLast", "write"}, NEW buf,
         NEW next \in Resting \ {"copyOpen"}, Transfer(t, c, first, buf, next),
         NEW pos, pos = file[opfile].seekPosition,
         NEW n, n = Clip(file[opfile].hdr.numBytes, pos, c.size),
         first = "writeLast" => FirstAligned(pos),
         first = "write" /\ n # 0 => DOMAIN buf \subseteq pos .. pos + n - 1
  PROVE  Refined
<1>0. /\ ThreadType /\ Control /\ Control' /\ OpenNamed /\ NamesInOrder(Table)
      /\ Live(opfile) /\ UNCHANGED <<directory, disk, objects>>
      /\ pc[t] \in Resting
  BY ReadyTypes, Rest DEF Transfer, image
<1>1. PICK h : h = file[opfile].hdr
  OBVIOUS
<1>2. /\ h.numBytes \in Int /\ pos \in Nat /\ Store!IsOpen /\ c.size \in Int
      /\ Store!Window(c.size) = pos .. pos + n - 1 /\ n \in Nat
  <2>2. /\ h.numBytes \in Int /\ pos \in Nat /\ Store!IsOpen
        /\ \A m \in Int : Store!Window(m) = pos .. pos + Clip(h.numBytes, pos, m) - 1
    BY <1>0, <1>1, OpenFileWindow
  <2>3. c.size \in Int /\ n = Clip(h.numBytes, pos, c.size)
    BY <1>1, LengthsInt
  <2>4. \A m \in Int : Clip(h.numBytes, pos, m) \in Nat
    BY <2>2, ClipRange
  <2> QED  BY <2>2, <2>3, <2>4
<1>3. pc'[t] \in {first, next} /\ pc'[t] \notin {"copyOpen", "writeDir2"}
  <2>1. pc' = [pc EXCEPT ![t] = first] \/ pc' = [pc EXCEPT ![t] = next]
    BY DEF Transfer, Goto
  <2>2. pc'[t] = first \/ pc'[t] = next
    BY <1>0, <2>1 DEF ThreadType
  <2>3. \A x \in {first, next} : x \notin {"copyOpen", "writeDir2"}
    BY DEF Resting
  <2> QED  BY <2>2, <2>3
<1>4. Table' = Table
  BY <1>0, <1>3, TableStays DEF Resting
<1>5. stored' = stored /\ opened' = opened /\ OpenNamed'
  BY <1>0, <1>4, Unmoved
<1>6. pc'[Main] = "copyOpen" => fd'[Main] \in Name
  BY <1>3, CopyNamed
<1>7. CASE n = 0
  <2>1. /\ ret' = [ret EXCEPT ![t] = Result(c.op, TRUE, <<>>)]
        /\ pc'[t] = next /\ UNCHANGED call
    <3>1. ~(n > 0)
      BY <1>2, <1>7, Positive
    <3>2. /\ ret' = [ret EXCEPT ![t] = Result(c.op, TRUE, <<>>)]
          /\ pc' = [pc EXCEPT ![t] = next] /\ UNCHANGED call
      BY <3>1 DEF Transfer, Goto
    <3> QED  BY <1>0, <3>2 DEF ThreadType
  <2>2. Looking(t)' /\ Moving(t)'
    BY <2>1, RestSays
  <2>3. StoreInv'
    BY <1>0, <1>4, <1>5, <1>6, <2>1, <2>2, StoreKept DEF Alone
  <2>4. effected' = effected
    <3>1. Done(t)' = FALSE /\ Done(t) = FALSE
      BY <2>1, NotDone
    <3> QED  BY <3>1, EffectedIs DEF effected
  <2>5. Store!Window(c.size) = {}
    BY <1>2, <1>7, NoRequest
  <2>6. Store!Nothing(t, c.op, c.size)
    BY <1>2, <1>5, <2>1, <2>4, <2>5 DEF Store!Nothing, Store!Answer, Result
  <2> QED  BY <2>3, <2>6 DEF Refined, Store!Next
<1>8. CASE n > 0
  <2>0. n # 0
    BY <1>2, <1>8, Positive
  <2>r. /\ pc' = [pc EXCEPT ![t] = first] /\ call' = [call EXCEPT ![t] = c]
        /\ ret' = [ret EXCEPT ![t] = Result("none", FALSE, <<>>)]
        /\ io' = [io EXCEPT ![t] = IO(opfile, pos, n, SectorOf(pos), buf)]
    BY <2>0 DEF Transfer, Goto
  <2>1. pc'[t] = first /\ call'[t] = c /\ io'[t] = IO(opfile, pos, n, SectorOf(pos), buf)
    BY <1>0, <2>r DEF ThreadType
  <2>2. PICK l : l = io'[t]
    OBVIOUS
  <2>3. l.h = opfile /\ l.pos = pos /\ l.n = n /\ l.i = SectorOf(pos) /\ l.buf = buf
    <3>1. l = IO(opfile, pos, n, SectorOf(pos), buf)
      BY <2>1, <2>2
    <3> QED  BY <3>1 DEF IO
  <2>4. HasRead(l, h)' /\ InPlace(l, h, c.buf)'
    BY <1>2, <2>3, Untouched
  <2>5. first = "write" => Around(l, h)'
    BY <2>0, <2>3 DEF Around, Window
  <2>6. Moving(t)'
    <3>1. /\ l.h = opfile' /\ Live(opfile)' /\ h = file'[l.h].hdr
          /\ l.pos = file'[opfile'].seekPosition
      BY <1>0, <1>1, <2>3 DEF Live, objects
    <3>2. /\ l.n = Clip(h.numBytes, l.pos, call'[t].size) /\ c.buf = call'[t].buf
          /\ call'[t].size \in Lengths
      BY <1>1, <2>1, <2>3
    <3>3. /\ l.i = SectorOf(l.pos) /\ (pc'[t] = "writeLast" => FirstAligned(l.pos))
          /\ (pc'[t] = "write" => Around(l, h)')
      BY <2>1, <2>3, <2>5
    <3> QED  BY <2>2, <2>4, <3>1, <3>2, <3>3, MovingNext
  <2>7. Looking(t)' /\ Done(t)' = FALSE
    <3>1. Looking(t)'
      BY <2>1 DEF Looking, Writing
    <3> QED  BY <2>1, <3>1 DEF Done
  <2>8. StoreInv'
    BY <1>0, <1>4, <1>5, <1>6, <2>1, <2>6, <2>7, StoreKept DEF Alone
  <2>9. effected' = [effected EXCEPT ![t] = FALSE]
    BY <2>7, EffectedIs
  <2>10. Store!Call(t)
    BY <1>5, <2>r, <2>9 DEF Store!Call, Store!NoResult, Result
  <2> QED  BY <2>8, <2>10 DEF Refined, Store!Next
<1> QED  BY <1>2, <1>7, <1>8, Positive

\* A sector starts where the offset is a multiple of its size, and ends there.
LEMMA AlignedStart ==
  ASSUME NEW a \in Nat, NEW S \in Nat \ {0}, a % S = 0
  PROVE  (a \div S) * S = a
OBVIOUS

\* The bytes before the end of a sector.
LEMMA DivBelow ==
  ASSUME NEW a \in Nat, NEW q \in Nat, NEW S \in Nat \ {0}
  PROVE  a < (q + 1) * S => a \div S \in Nat /\ a \div S <= q
OBVIOUS

\* A multiple of the sector size is where a sector ends.
LEMMA AlignedEnd ==
  ASSUME NEW e \in Nat \ {0}, NEW S \in Nat \ {0}, e % S = 0
  PROVE  ((e - 1) \div S + 1) * S = e
<1>1. PICK q \in Nat : e = q * S
  <2>1. (e \div S) * S = e
    BY AlignedStart
  <2> QED  BY <2>1, DivNat
<1>2. q # 0
  BY <1>1
<1>3. (q - 1) * S <= e - 1 /\ e - 1 < ((q - 1) + 1) * S /\ q - 1 \in Nat
  BY <1>1, <1>2
<1>4. (e - 1) \div S = q - 1
  BY <1>3
<1> QED  BY <1>1, <1>4

\* The same for the end of a request.
LEMMA AlignedLast ==
  ASSUME NEW pos \in Nat, NEW n \in Nat, n # 0, LastAligned(pos, n)
  PROVE  (SectorOf(pos + n - 1) + 1) * SectorSize = pos + n
<1>1. pos + n \in Nat \ {0}
  OBVIOUS
<1>2. PICK e \in Nat \ {0} : e = pos + n
  BY <1>1, Zenon
<1>3. e % SectorSize = 0
  BY <1>2, Zenon DEF LastAligned
<1>4. SectorSize \in Nat \ {0}
  BY Constants, Zenon
<1>5. ((e - 1) \div SectorSize + 1) * SectorSize = e
  BY <1>3, <1>4, AlignedEnd, Zenon
<1>6. SectorOf(e - 1) = (e - 1) \div SectorSize
  BY Zenon DEF SectorOf
<1>7. (SectorOf(e - 1) + 1) * SectorSize = e
  BY <1>5, <1>6, Zenon
<1> QED  BY <1>2, <1>7

\* A request that starts and ends where sectors do covers all of its sectors.
LEMMA AlignedRequest ==
  ASSUME NEW pos \in Nat, NEW n \in Nat, n # 0, FirstAligned(pos), LastAligned(pos, n)
  PROVE  SectorOf(pos) * SectorSize .. (SectorOf(pos + n - 1) + 1) * SectorSize - 1
           = pos .. pos + n - 1
<1>1. SectorOf(pos) * SectorSize = pos
  BY AlignedStart, Constants DEF FirstAligned, SectorOf
<1>2. (SectorOf(pos + n - 1) + 1) * SectorSize = pos + n
  BY AlignedLast, Zenon
<1> QED  BY <1>1, <1>2

\* Read, by which ReadAt starts with the first sector of its request.
LEMMA ReadAtRefined ==
  ASSUME Ready, NEW t \in Thread, Acts(t), \A u \in Thread : call[u] = NoCall,
         NEW len \in Lengths, NEW next \in Resting \ {"copyOpen"}, ReadAt(t, len, next)
  PROVE  Refined
<1> DEFINE r == [op |-> "Read", name |-> NoName, size |-> len, buf |-> <<>>]
<1>1. [NoCall EXCEPT !.op = "Read", !.size = len] = r
  BY SizedCall, Zenon
<1>2. \E buf : Transfer(t, r, "read", buf, next)
  BY <1>1 DEF ReadAt
<1>3. r \in CallSet
  <2>1. r \in [op: {"Read"}, name: {NoName}, size: Lengths, buf: {<<>>}]
    OBVIOUS
  <2> QED  BY <2>1 DEF CallSet
<1>4. r.op = "Read" /\ r.size = len
  OBVIOUS
<1> HIDE DEF r
<1> QED  BY <1>2, <1>3, <1>4, TransferRefined

\* Write, by which WriteAt starts with the first sector that it must read back.
LEMMA WriteAtRefined ==
  ASSUME Ready, NEW t \in Thread, Acts(t), \A u \in Thread : call[u] = NoCall,
         NEW len \in Lengths, NEW from \in [0 .. len - 1 -> Byte],
         NEW next \in Resting \ {"copyOpen"}, WriteAt(t, len, from, next)
  PROVE  Refined
<1> DEFINE r == [op |-> "Write", name |-> NoName, size |-> len, buf |-> from]
<1>1. [NoCall EXCEPT !.op = "Write", !.size = len, !.buf = from] = r
  BY FilledCall, Zenon
<1>2. PICK pos, n : pos = file[opfile].seekPosition /\ n = Clip(file[opfile].hdr.numBytes, pos, len)
  OBVIOUS
<1>3. PICK first, buf :
        /\ first = IF ~FirstAligned(pos) THEN "writeFirst"
                   ELSE IF ~LastAligned(pos, n) THEN "writeLast" ELSE "write"
        /\ buf = [o \in SectorOf(pos) * SectorSize ..
                          (SectorOf(pos + n - 1) + 1) * SectorSize - 1 |-> 0]
        /\ Transfer(t, r, first, buf, next)
  <2>1. PICK c : c = [NoCall EXCEPT !.op = "Write", !.size = len, !.buf = from]
    OBVIOUS
  <2>2. Transfer(t, c, IF ~FirstAligned(pos) THEN "writeFirst"
                       ELSE IF ~LastAligned(pos, n) THEN "writeLast" ELSE "write",
                 [o \in SectorOf(pos) * SectorSize ..
                          (SectorOf(pos + n - 1) + 1) * SectorSize - 1 |-> 0], next)
    BY <1>2, <2>1 DEF WriteAt
  <2>3. c = r
    BY <1>1, <2>1
  <2> HIDE DEF r
  <2> QED  BY <2>2, <2>3
<1>4. r \in CallSet
  <2>1. r \in [op: {"Write"}, name: {NoName}, size: {len}, buf: [0 .. len - 1 -> Byte]]
    OBVIOUS
  <2> HIDE DEF r
  <2>2. r \in UNION {[op: {"Write"}, name: {NoName}, size: {m}, buf: [0 .. m - 1 -> Byte]] :
                       m \in Lengths}
    BY <2>1
  <2> QED  BY <2>2 DEF CallSet
<1>5. r.op = "Write" /\ r.size = len
  OBVIOUS
<1> HIDE DEF r
<1>6. /\ first \in {"read", "writeFirst", "writeLast", "write"}
      /\ first = "writeLast" => FirstAligned(pos)
      /\ first = "write" => FirstAligned(pos) /\ LastAligned(pos, n)
  BY <1>3
<1>7. pos \in Nat /\ n \in Nat
  <2>2. Live(opfile)
    BY <1>3 DEF Transfer
  <2>3. pos \in Nat /\ file[opfile].hdr.numBytes \in Int
    BY <1>2, <2>2, LiveHeader, ReadyTypes
  <2> QED  BY <1>2, <2>3, ClipRange, LengthsInt
<1>8. first = "write" /\ n # 0 => DOMAIN buf \subseteq pos .. pos + n - 1
  <2> SUFFICES ASSUME first = "write", n # 0
               PROVE  DOMAIN buf = pos .. pos + n - 1
    OBVIOUS
  <2>1. DOMAIN buf = SectorOf(pos) * SectorSize .. (SectorOf(pos + n - 1) + 1) * SectorSize - 1
    BY <1>3
  <2>2. SectorOf(pos) * SectorSize .. (SectorOf(pos + n - 1) + 1) * SectorSize - 1
          = pos .. pos + n - 1
    BY <1>6, <1>7, AlignedRequest
  <2> QED  BY <2>1, <2>2
<1>9. r.size \in Lengths /\ n = Clip(file[opfile].hdr.numBytes, pos, r.size)
  BY <1>2, <1>5
<1>10. Transfer(t, r, first, buf, next) /\ r.op \in {"Read", "Write"}
  BY <1>3, <1>5
<1> QED  BY <1>2, <1>4, <1>6, <1>8, <1>9, <1>10, TransferRefined

\* The command copies a file in pieces, the last of which may be shorter.
LEMMA Piece ==
  ASSUME NEW len \in Int, NEW pos \in Nat
  PROVE  len - pos > 0 =>
           (IF len - pos < TransferSize THEN len - pos ELSE TransferSize) \in 1 .. TransferSize
BY Constants

\* System calls Read and Write, and the commands' Read and Write.
LEMMA TransfersRefined ==
  ASSUME OneCaller, Ready, NEW t \in Thread, Acts(t),
         \/ t = Main /\ (CopyWrite \/ PrintRead)
         \/ ReadBegin(t) \/ WriteBegin(t)
  PROVE  Refined
<1>0. ObjectType
  BY ReadyTypes
<1>1. \A labels \in SUBSET (Resting \ {"done"}) : \A op :
        Enter(t, labels, op) /\
          (t # Main => op \in {"Load", "Create", "Open", "Read", "Write", "Close"})
        => \A u \in Thread : call[u] = NoCall
  BY Entering
<1>2. \A u \in Thread : call[u] = NoCall
  <2>1. {"idle"} \subseteq Resting \ {"done"} /\ {"copy"} \subseteq Resting \ {"done"}
        /\ {"print"} \subseteq Resting \ {"done"}
    BY DEF Resting
  <2> QED  BY <1>1, <2>1 DEF CopyWrite, PrintRead, ReadBegin, WriteBegin
<1>3. {"idle", "copy", "print", "close"} \subseteq Resting \ {"copyOpen"}
  BY DEF Resting
<1>4. Length \subseteq Lengths /\ 1 .. TransferSize \subseteq Lengths /\ TransferSize \in Lengths
  BY LengthsInt
<1>5. CASE ReadBegin(t)
  <2>1. PICK len \in Length : ReadAt(t, len, "idle")
    BY <1>5 DEF ReadBegin
  <2> QED  BY <1>2, <1>3, <1>4, <2>1, ReadAtRefined
<1>6. CASE t = Main /\ PrintRead
  <2>1. PICK next \in {"close", "print"} : ReadAt(t, TransferSize, next)
    BY <1>6 DEF PrintRead
  <2> QED  BY <1>2, <1>3, <1>4, <2>1, ReadAtRefined
<1>7. CASE WriteBegin(t)
  <2>1. PICK len \in Length : \E from \in [0 .. len - 1 -> Byte] : WriteAt(t, len, from, "idle")
    BY <1>7 DEF WriteBegin
  <2> QED  BY <1>2, <1>3, <1>4, <2>1, WriteAtRefined
<1>8. CASE t = Main /\ CopyWrite
  <2>1. PICK left : left = file[opfile].hdr.numBytes - file[opfile].seekPosition
    OBVIOUS
  <2>2. PICK len : len = IF left < TransferSize THEN left ELSE TransferSize
    OBVIOUS
  <2>3. left > 0 /\ \E from \in [0 .. len - 1 -> Byte] : WriteAt(t, len, from, "copy")
    BY <1>8, <2>1, <2>2 DEF CopyWrite
  <2>4. Live(opfile)
    BY <2>3 DEF WriteAt, Transfer
  <2>5. file[opfile].hdr.numBytes \in Int /\ file[opfile].seekPosition \in Nat
    BY <1>0, <2>4, LiveHeader
  <2>6. len \in 1 .. TransferSize
    BY <2>1, <2>2, <2>3, <2>5, Piece
  <2> QED  BY <1>2, <1>3, <1>4, <2>3, <2>6, WriteAtRefined
<1> QED  BY <1>5, <1>6, <1>7, <1>8

\* The bytes of a request lie between its first and its last sector.
LEMMA WindowSectors ==
  ASSUME NEW pos \in Nat, NEW n \in Nat \ {0}, NEW o \in 0 .. n - 1
  PROVE  /\ pos + o \in Nat /\ SectorOf(pos + o) \in Nat
         /\ SectorOf(pos) \in Nat /\ SectorOf(pos + n - 1) \in Nat
         /\ SectorOf(pos) <= SectorOf(pos + o)
         /\ SectorOf(pos + o) <= SectorOf(pos + n - 1)
<1>1. pos + o \in Nat /\ pos + n - 1 \in Nat /\ pos <= pos + o /\ pos + o <= pos + n - 1
  OBVIOUS
<1> QED  BY <1>1, SectorMono

\* The sector of a byte of a request is at most its last.
LEMMA RequestSectors ==
  ASSUME NEW pos \in Nat, NEW n \in Nat \ {0}, NEW o \in pos .. pos + n - 1
  PROVE  SectorOf(o) \in Nat /\ SectorOf(o) <= SectorOf(pos + n - 1)
<1>1. o \in Nat /\ pos + n - 1 \in Nat /\ o <= pos + n - 1
  OBVIOUS
<1> QED  BY <1>1, SectorMono

\* A sector of a request is a sector of the file.
LEMMA InFileAt ==
  ASSUME NEW l, l.pos \in Nat, l.n \in Nat \ {0}, l.i \in Nat, l.i <= LastSector(l),
         NEW h \in Header(Size), l.pos + l.n <= h.numBytes
  PROVE  /\ l.i + 1 \in DOMAIN h.dataSectors
         /\ ByteToSector(h, l.i * SectorSize) = h.dataSectors[l.i + 1]
         /\ ByteToSector(h, l.i * SectorSize) \in Sector
<1>1. h \in AnyHeader
  BY DEF AnyHeader
<1>2. l.n \in Nat /\ l.n > 0
  BY LastByte
<1> QED  BY <1>1, <1>2, InFile DEF LastSector

\* Offsets into the file, from the seek position on, are offsets into the buffer.
LEMMA Shifted ==
  ASSUME NEW pos \in Nat, NEW n \in Nat \ {0}
  PROVE  {o - pos : o \in pos .. pos + n - 1} = 0 .. n - 1
<1>1. \A k \in 0 .. n - 1 : k + pos \in pos .. pos + n - 1 /\ k = (k + pos) - pos
  OBVIOUS
<1>2. \A o \in pos .. pos + n - 1 : o - pos \in 0 .. n - 1
  OBVIOUS
<1> QED  BY <1>1, <1>2

\* The bytes of a sector lie within the sectors of the request it belongs to.
LEMMA InSectors ==
  ASSUME NEW first \in Nat, NEW last \in Nat, NEW i \in Nat, first <= i, i <= last,
         NEW o \in Nat, i * SectorSize <= o, o < (i + 1) * SectorSize
  PROVE  o \in first * SectorSize .. (last + 1) * SectorSize - 1
<1>1. first * SectorSize <= i * SectorSize /\ (i + 1) * SectorSize <= (last + 1) * SectorSize
  BY MulMono, Constants
<1> QED  BY <1>1, Constants

\* The sectors of a request start in the file.
LEMMA InBuffer ==
  ASSUME NEW first \in Nat, NEW last \in Nat,
         NEW o \in first * SectorSize .. (last + 1) * SectorSize - 1
  PROVE  o \in Nat /\ first * SectorSize <= o /\ o < (last + 1) * SectorSize
BY Constants

\* Where a transfer is, in the store's terms.
LEMMA MovingIs ==
  ASSUME Ready, NEW t \in Thread, pc[t] \in {"read", "writeFirst", "writeLast", "write"},
         NEW l, l = io[t], NEW h, h = file[l.h].hdr
  PROVE  /\ l.h = opfile /\ Live(opfile) /\ call[t].size \in Lengths
         /\ l.pos = file[opfile].seekPosition /\ l.n = Clip(h.numBytes, l.pos, call[t].size)
         /\ l.pos \in Nat /\ l.n \in Nat \ {0} /\ l.i \in Nat
         /\ SectorOf(l.pos) <= l.i /\ l.i <= LastSector(l)
         /\ h \in Header(Size) /\ h.numBytes \in Int /\ l.pos + l.n <= h.numBytes
         /\ file[opfile].of \in Name
         /\ opened = [name |-> file[opfile].of, pos |-> l.pos] /\ Store!IsOpen
         /\ stored[opened.name] = FileOf(h)
         /\ Store!Window(call[t].size) = Window(l)
         /\ pc[t] \notin Resting /\ Table = directory
<1>0. Moving(t) /\ Transferring(t) /\ ThreadType
  BY ReadyTypes
<1>1. /\ l.h = opfile /\ Live(opfile) /\ call[t].size \in Lengths
      /\ l.pos = file[opfile].seekPosition /\ l.n = Clip(h.numBytes, l.pos, call[t].size)
  BY <1>0 DEF Moving
<1>2. l.pos \in Nat /\ l.n \in Nat /\ l.i \in Nat
  BY <1>0 DEF ThreadType, LocalType
<1>3. l.n > 0 /\ SectorOf(l.pos) <= l.i /\ l.i <= LastSector(l) /\ l.pos + l.n <= h.numBytes
  BY <1>0, <1>1 DEF Transferring
<1>4. call[t].size \in Int
  BY <1>1, LengthsInt
<1>5. /\ h \in Header(Size) /\ h.numBytes \in Int /\ file[opfile].of \in Name
      /\ opened = [name |-> file[opfile].of, pos |-> l.pos] /\ Store!IsOpen
      /\ stored[opened.name] = FileOf(h)
      /\ \A n \in Int : Store!Window(n) = l.pos .. l.pos + Clip(h.numBytes, l.pos, n) - 1
  <2>1. Live(opfile) /\ h = file[opfile].hdr /\ l.pos = file[opfile].seekPosition
    BY <1>1
  <2> QED  BY <2>1, OpenFileIs
<1>6. Store!Window(call[t].size) = Window(l)
  <2>1. Store!Window(call[t].size) = l.pos .. l.pos + Clip(h.numBytes, l.pos, call[t].size) - 1
    BY <1>4, <1>5
  <2> QED  BY <1>1, <2>1 DEF Window
<1>7. pc[t] \notin Resting /\ pc[t] # "writeDir2"
  BY DEF Resting
<1>8. l.n \in Nat \ {0}
  BY <1>2, <1>3, Positive
<1> QED  BY <1>1, <1>2, <1>3, <1>5, <1>6, <1>7, <1>8, TableQuiet

\* The bytes of one sector of a file lie in one sector of the disk.
LEMMA SectorBytes ==
  ASSUME NEW i \in Nat
  PROVE  /\ SectorOf(i * SectorSize) = i
         /\ \A h, o : SectorOf(o) = i =>
              /\ ByteToSector(h, o) = ByteToSector(h, i * SectorSize)
              /\ ByteAt(h, o) = disk[ByteToSector(h, i * SectorSize)].data[o % SectorSize]
<1>1. (i * SectorSize) \div SectorSize = i
  BY Constants, DivMul
<1>2. SectorOf(i * SectorSize) = i
  BY <1>1 DEF SectorOf
<1> QED  BY <1>2 DEF ByteToSector, ByteAt

\* Moving the position of an open file leaves the rest of it alone.
LEMMA Seeked ==
  ASSUME NEW f \in [live: BOOLEAN, of: Name \cup {NoName}, hdr: AnyHeader, seekPosition: Nat],
         NEW p
  PROVE  /\ [f EXCEPT !.seekPosition = p].live = f.live
         /\ [f EXCEPT !.seekPosition = p].hdr = f.hdr
         /\ [f EXCEPT !.seekPosition = p].of = f.of
         /\ [f EXCEPT !.seekPosition = p].seekPosition = p
OBVIOUS

\* The transfer is over: the position moves past what was transferred.
LEMMA Advances ==
  ASSUME Ready, NEW t \in Thread, pc[t] \in {"read", "write"}, UNCHANGED opfile,
         file' = [file EXCEPT ![io[t].h] = Advanced(@, io[t].n)]
  PROVE  /\ Live(opfile)' /\ file'[opfile'].hdr = file[opfile].hdr
         /\ file'[opfile'].of = file[opfile].of
         /\ Store!Advance(Store!Window(call[t].size))
<1>1. PICK l, h : l = io[t] /\ h = file[l.h].hdr
  OBVIOUS
<1>2. /\ l.h = opfile /\ Live(opfile) /\ l.pos = file[opfile].seekPosition
      /\ l.pos \in Nat /\ l.n \in Nat \ {0}
      /\ opened = [name |-> file[opfile].of, pos |-> l.pos]
      /\ Store!Window(call[t].size) = Window(l)
  BY <1>1, MovingIs
<1>3. ObjectType /\ opfile \in Handle
  BY <1>2, ReadyTypes DEF Live
<1>4. file'[opfile'] = [file[opfile] EXCEPT !.seekPosition = l.pos + l.n]
  BY <1>1, <1>2, <1>3 DEF Advanced, ObjectType
<1>5. /\ Live(opfile)' /\ file'[opfile'].hdr = file[opfile].hdr
      /\ file'[opfile'].of = file[opfile].of /\ file'[opfile'].seekPosition = l.pos + l.n
  <2>1. /\ file'[opfile'].live = file[opfile].live /\ file'[opfile'].hdr = file[opfile].hdr
        /\ file'[opfile'].of = file[opfile].of /\ file'[opfile'].seekPosition = l.pos + l.n
    <3>1. file[opfile] \in [live: BOOLEAN, of: Name \cup {NoName}, hdr: AnyHeader,
                            seekPosition: Nat]
      BY <1>3 DEF ObjectType
    <3>2. PICK g : g = [file[opfile] EXCEPT !.seekPosition = l.pos + l.n]
      OBVIOUS
    <3>3. /\ g.live = file[opfile].live /\ g.hdr = file[opfile].hdr
          /\ g.of = file[opfile].of /\ g.seekPosition = l.pos + l.n
      BY <3>1, <3>2, Seeked
    <3> QED  BY <1>4, <3>2, <3>3
  <2> QED  BY <1>2, <2>1 DEF Live
<1>6. opened' = [opened EXCEPT !.pos = l.pos + l.n]
  <2>1. opened' = [name |-> file[opfile].of, pos |-> l.pos + l.n]
    BY <1>5 DEF opened
  <2>2. [opened EXCEPT !.pos = l.pos + l.n] = [name |-> file[opfile].of, pos |-> l.pos + l.n]
    BY <1>2, OpenedMoves
  <2> QED  BY <2>1, <2>2
<1>7. PICK o : o = l.pos + l.n - 1
  OBVIOUS
<1>8. o \in Window(l) /\ (\A p \in Window(l) : p <= o) /\ o + 1 = l.pos + l.n
  BY <1>2, <1>7, RequestEnds DEF Window
<1>9. Store!Advance(Window(l))
  BY <1>6, <1>8 DEF Store!Advance
<1> QED  BY <1>2, <1>5, <1>9

\* The bytes of a file, by their offsets.
LEMMA FileBytes ==
  ASSUME NEW h, NEW o \in 0 .. h.numBytes - 1
  PROVE  FileOf(h).bytes[o] = ByteAt(h, o)
BY DEF FileOf

\* ReadAt takes one sector; after the last the Read returns the bytes of the file.
LEMMA ReadSectorRefined ==
  ASSUME Ready, NEW t \in Thread, Acts(t), ReadSector(t)
  PROVE  Refined
<1>0. /\ ThreadType /\ Control /\ Control' /\ ImageType /\ NamesInOrder(Table) /\ OpenNamed
      /\ pc[t] = "read" /\ UNCHANGED <<directory, disk, opfile, fd>> /\ HasRead(io[t], file[io[t].h].hdr)
  BY ReadyTypes DEF ReadSector, In, At, image, Moving
<1>1. PICK l, h, size : l = io[t] /\ h = file[l.h].hdr /\ size = call[t].size
  OBVIOUS
<1>2. /\ l.h = opfile /\ Live(opfile) /\ size \in Lengths
      /\ l.pos = file[opfile].seekPosition /\ l.n = Clip(h.numBytes, l.pos, size)
      /\ l.pos \in Nat /\ l.n \in Nat \ {0} /\ l.i \in Nat
      /\ h \in Header(Size) /\ h.numBytes \in Int /\ l.pos + l.n <= h.numBytes
  BY <1>0, <1>1, MovingIs
<1>3. PICK buf : /\ buf = [o \in 0 .. l.n - 1 |->
                             IF SectorOf(l.pos + o) = l.i
                             THEN disk[ByteToSector(h, l.i * SectorSize)].data[(l.pos + o) % SectorSize]
                             ELSE l.buf[o]]
                 /\ \/ /\ l.i < LastSector(l)
                       /\ io' = [io EXCEPT ![t] = IO(l.h, l.pos, l.n, l.i + 1, buf)]
                       /\ UNCHANGED <<file, pc, call, loc, cont, ret>>
                    \/ /\ l.i = LastSector(l)
                       /\ Transferred(t, "Read", buf)
  BY <1>1 DEF ReadSector
<1>4. \A o \in 0 .. l.n - 1 :
        /\ SectorOf(l.pos + o) \in Nat
        /\ SectorOf(l.pos + o) <= l.i => buf[o] = ByteAt(h, l.pos + o)
  <2> TAKE o \in 0 .. l.n - 1
  <2>1. SectorOf(l.pos + o) \in Nat
    BY <1>2, WindowSectors
  <2>2. CASE SectorOf(l.pos + o) = l.i
    <3>1. ByteAt(h, l.pos + o)
            = disk[ByteToSector(h, l.i * SectorSize)].data[(l.pos + o) % SectorSize]
      BY <1>2, <2>2, SectorBytes
    <3> QED  BY <1>3, <2>1, <2>2, <3>1
  <2>3. CASE SectorOf(l.pos + o) # l.i
    <3>1. buf[o] = l.buf[o]
      BY <1>3, <2>3
    <3>2. SectorOf(l.pos + o) < l.i => l.buf[o] = ByteAt(h, l.pos + o)
      BY <1>0, <1>1 DEF HasRead
    <3> QED  BY <1>2, <2>1, <2>3, <3>1, <3>2, NextSector
  <2> QED  BY <2>1, <2>2, <2>3
<1>5. pc[t] \notin Resting /\ call[t].op = "Read"
  BY <1>0 DEF Resting, Control, Placed, Where, Lookup
<1>6. CASE /\ io' = [io EXCEPT ![t] = IO(l.h, l.pos, l.n, l.i + 1, buf)]
           /\ UNCHANGED <<file, pc, call, loc, cont, ret>>
  <2>1. /\ io' = [io EXCEPT ![t] = IO(l.h, l.pos, l.n, l.i + 1, buf)]
        /\ UNCHANGED <<file, pc, call, loc, cont, ret>>
    BY <1>6
  <2>2. PICK m : m = io'[t]
    OBVIOUS
  <2>3. m.h = l.h /\ m.pos = l.pos /\ m.n = l.n /\ m.i = l.i + 1 /\ m.buf = buf
    BY <1>0, <2>1, <2>2 DEF ThreadType, IO
  <2>4. HasRead(m, h)
    <3>1. \A o \in 0 .. l.n - 1 : SectorOf(l.pos + o) < l.i + 1 => buf[o] = ByteAt(h, l.pos + o)
      BY <1>2, <1>4, NextSector
    <3> QED  BY <2>3, <3>1 DEF HasRead
  <2>5. HasRead(m, h)'
    BY <1>0, <2>4 DEF HasRead, ByteAt
  <2>6. Table' = Table
    BY <1>0, <2>1, TableStays
  <2>7. Moving(t)'
    <3>1. /\ m.h = opfile' /\ Live(opfile)' /\ call'[t].size \in Lengths /\ h = file'[m.h].hdr
          /\ m.pos = file'[opfile'].seekPosition /\ m.n = Clip(h.numBytes, m.pos, call'[t].size)
      BY <1>0, <1>1, <1>2, <2>1, <2>3 DEF Live
    <3> QED  BY <1>0, <2>1, <2>2, <2>5, <3>1, MovingNext
  <2>8. Looking(t)' /\ Done(t)' = Done(t)
    <3>1. Looking(t)'
      BY <1>0, <1>5, <2>1 DEF Looking, Writing
    <3> QED  BY <2>1, <3>1 DEF Done
  <2> QED  BY <1>0, <1>5, <2>1, <2>6, <2>7, <2>8, Inside DEF Refined, objects
<1>7. CASE l.i = LastSector(l) /\ Transferred(t, "Read", buf)
  <2>1. Return(t, "Read", TRUE, buf) /\ file' = [file EXCEPT ![io[t].h] = Advanced(@, io[t].n)]
    BY <1>7 DEF Transferred
  <2>2. /\ Live(opfile)' /\ file'[opfile'].hdr = file[opfile].hdr
        /\ file'[opfile'].of = file[opfile].of
        /\ Store!Advance(Store!Window(size))
    BY <1>0, <1>1, <2>1, Advances
  <2>3. pc'[t] # "writeDir2"
    BY <1>0, <2>1, Returned DEF Resting
  <2>4. Table' = Table
    BY <1>0, <2>3, TableStays
  <2>5. \A m : Content(m)' = Content(m)
    BY <1>0, <2>4, ContentStays
  <2>6. stored' = stored /\ OpenNamed'
    BY <1>0, <1>2, <2>2, <2>4, <2>5 DEF stored, OpenNamed
  <2>7. StoreInv' /\ Store!Return(t, TRUE, buf)
    BY <1>0, <1>5, <2>1, <2>4, <2>6, Returns
  <2>8. /\ opened.pos = l.pos /\ Store!IsOpen /\ stored[opened.name] = FileOf(h)
        /\ Store!Window(size) = Window(l)
    <3>1. /\ opened = [name |-> file[opfile].of, pos |-> l.pos] /\ Store!IsOpen
          /\ stored[opened.name] = FileOf(h) /\ Store!Window(call[t].size) = Window(l)
      BY <1>0, <1>1, MovingIs
    <3> QED  BY <1>1, <3>1, OpenedRecord
  <2>9. \A o \in 0 .. l.n - 1 : buf[o] = ByteAt(h, l.pos + o)
    <3>1. \A o \in 0 .. l.n - 1 : SectorOf(l.pos + o) <= SectorOf(l.pos + l.n - 1)
      BY <1>2, WindowSectors
    <3> QED  BY <1>4, <1>7, <3>1 DEF LastSector
  <2>10. \A o \in 0 .. l.n - 1 : stored[opened.name].bytes[l.pos + o] = ByteAt(h, l.pos + o)
    BY <1>2, <2>8, OfRequest, FileBytes
  <2>11. {o - opened.pos : o \in Window(l)} = 0 .. l.n - 1
    <3>1. {o - l.pos : o \in l.pos .. l.pos + l.n - 1} = 0 .. l.n - 1
      BY <1>2, Shifted
    <3> QED  BY <2>8, <3>1 DEF Window
  <2>12. buf = [k \in {o - opened.pos : o \in Store!Window(size)} |->
                  stored[opened.name].bytes[opened.pos + k]]
    BY <1>3, <2>8, <2>9, <2>10, <2>11
  <2>13. Store!In(t, "Read") /\ Store!Window(size) # {}
    BY <1>2, <1>5, <2>8, Rest, RequestEnds DEF Store!In, Window
  <2>14. Store!ReadReturn(t)
    BY <1>1, <2>2, <2>6, <2>7, <2>8, <2>12, <2>13 DEF Store!ReadReturn
  <2> QED  BY <2>7, <2>14 DEF Refined, Store!Next
<1> QED  BY <1>3, <1>6, <1>7

\* A byte of the sectors of a request that the request does not cover lies in the
\* first of them or in the last, and that one is covered in part.
LEMMA PartSector ==
  ASSUME NEW pos \in Nat, NEW n \in Nat \ {0},
         NEW o \in SectorOf(pos) * SectorSize .. (SectorOf(pos + n - 1) + 1) * SectorSize - 1,
         o \notin pos .. pos + n - 1, SectorOf(pos) <= SectorOf(o)
  PROVE  \/ SectorOf(o) = SectorOf(pos) /\ ~FirstAligned(pos)
         \/ SectorOf(o) = SectorOf(pos + n - 1) /\ ~LastAligned(pos, n)
<1>1. pos + n - 1 \in Nat /\ SectorOf(pos) \in Nat /\ SectorOf(pos + n - 1) \in Nat
  BY LastByte, SectorMono
<1>2. /\ o \in Nat /\ SectorOf(pos) * SectorSize <= o
      /\ o < (SectorOf(pos + n - 1) + 1) * SectorSize
  BY <1>1, InBuffer
<1>3. SectorOf(o) \in Nat /\ SectorOf(o) <= SectorOf(pos + n - 1)
  BY <1>1, <1>2, Constants, DivBelow DEF SectorOf
<1>4. CASE o < pos
  <2>1. SectorOf(o) <= SectorOf(pos)
    BY <1>2, <1>4, SectorMono
  <2>2. SectorOf(o) = SectorOf(pos)
    BY <1>1, <1>3, <2>1
  <2>3. FirstAligned(pos) => SectorOf(pos) * SectorSize = pos
    BY AlignedStart, Constants DEF FirstAligned, SectorOf
  <2> QED  BY <1>2, <1>4, <2>2, <2>3
<1>5. CASE pos + n <= o
  <2>1. SectorOf(pos + n - 1) <= SectorOf(o)
    BY <1>1, <1>2, <1>5, SectorMono
  <2>2. SectorOf(o) = SectorOf(pos + n - 1)
    BY <1>1, <1>3, <2>1
  <2>3. LastAligned(pos, n) => (SectorOf(pos + n - 1) + 1) * SectorSize = pos + n
    BY AlignedLast
  <2> QED  BY <1>2, <1>5, <2>2, <2>3
<1>6. o < pos \/ pos + n <= o
  BY <1>2
<1> QED  BY <1>4, <1>5, <1>6

\* WriteAt's buffer has the bytes of the sectors it writes in part.
LEMMA AroundIs ==
  ASSUME NEW l, l.pos \in Nat, l.n \in Nat \ {0}, l.i = SectorOf(l.pos), NEW h,
         DOMAIN l.buf = SectorOf(l.pos) * SectorSize .. (LastSector(l) + 1) * SectorSize - 1,
         FirstAligned(l.pos) \/ Filled(l, h, SectorOf(l.pos)),
         LastAligned(l.pos, l.n) \/ Filled(l, h, LastSector(l))
  PROVE  Around(l, h)
<1> SUFFICES ASSUME NEW o \in DOMAIN l.buf \ Window(l), l.i <= SectorOf(o), o < h.numBytes
             PROVE  l.buf[o] = ByteAt(h, o)
  BY DEF Around
<1>1. /\ o \in SectorOf(l.pos) * SectorSize .. (SectorOf(l.pos + l.n - 1) + 1) * SectorSize - 1
      /\ o \notin l.pos .. l.pos + l.n - 1 /\ SectorOf(l.pos) <= SectorOf(o)
  BY DEF Window, LastSector
<1>2. \/ SectorOf(o) = SectorOf(l.pos) /\ ~FirstAligned(l.pos)
      \/ SectorOf(o) = LastSector(l) /\ ~LastAligned(l.pos, l.n)
  BY <1>1, PartSector DEF LastSector
<1> QED  BY <1>2 DEF Filled

\* Reading a sector into the buffer.
LEMMA FillIs ==
  ASSUME NEW l, NEW h, h = file[l.h].hdr, NEW i \in Nat, NEW m, m.buf = Fill(l, i), NEW j
  PROVE  /\ DOMAIN m.buf = DOMAIN l.buf
         /\ Filled(m, h, i)
         /\ Filled(l, h, j) => Filled(m, h, j)
<1>1. m.buf = [o \in DOMAIN l.buf |->
                 IF SectorOf(o) = i /\ o < h.numBytes
                 THEN disk[ByteToSector(h, i * SectorSize)].data[o % SectorSize]
                 ELSE l.buf[o]]
  BY DEF Fill
<1>2. DOMAIN m.buf = DOMAIN l.buf
  BY <1>1
<1>3. \A o \in DOMAIN l.buf : SectorOf(o) = i /\ o < h.numBytes => m.buf[o] = ByteAt(h, o)
  <2> TAKE o \in DOMAIN l.buf
  <2> HAVE SectorOf(o) = i /\ o < h.numBytes
  <2>1. m.buf[o] = disk[ByteToSector(h, i * SectorSize)].data[o % SectorSize]
    BY <1>1
  <2>2. ByteAt(h, o) = disk[ByteToSector(h, i * SectorSize)].data[o % SectorSize]
    BY SectorBytes
  <2> QED  BY <2>1, <2>2
<1>4. \A o \in DOMAIN l.buf : ~(SectorOf(o) = i /\ o < h.numBytes) => m.buf[o] = l.buf[o]
  BY <1>1
<1> QED  BY <1>2, <1>3, <1>4 DEF Filled

\* Write reads the sectors that it writes in part.
LEMMA FillRefined ==
  ASSUME Ready, NEW t \in Thread, Acts(t), WriteFirst(t) \/ WriteLast(t)
  PROVE  Refined
<1>0. /\ ThreadType /\ Control /\ Control' /\ Transferring(t)
      /\ pc[t] \in {"writeFirst", "writeLast"}
      /\ UNCHANGED <<directory, disk, objects, call, ret>>
  BY ReadyTypes DEF WriteFirst, WriteLast, In, At, image
<1>1. PICK l, h, size, from : /\ l = io[t] /\ h = file[l.h].hdr
                              /\ size = call[t].size /\ from = call[t].buf
  OBVIOUS
<1>2. /\ l.h = opfile /\ Live(opfile) /\ size \in Lengths
      /\ l.pos = file[opfile].seekPosition /\ l.n = Clip(h.numBytes, l.pos, size)
      /\ l.pos \in Nat /\ l.n \in Nat \ {0} /\ l.i \in Nat /\ l.i <= LastSector(l)
      /\ pc[t] \notin Resting
  BY <1>0, <1>1, MovingIs
<1>3. /\ l.i = SectorOf(l.pos)
      /\ pc[t] = "writeLast" => FirstAligned(l.pos) \/ Filled(l, h, l.i)
  BY <1>0, <1>1, ReadyTypes DEF Moving
<1>4. PICK i : /\ io' = [io EXCEPT ![t] = IO(l.h, l.pos, l.n, l.i, Fill(l, i))]
               /\ \/ /\ pc[t] = "writeFirst" /\ i = l.i
                     /\ pc'[t] = "write" => LastAligned(l.pos, l.n) \/ l.i = LastSector(l)
                  \/ pc[t] = "writeLast" /\ i = LastSector(l) /\ pc'[t] = "write"
               /\ pc'[t] \in {"writeLast", "write"}
  BY <1>0, <1>1 DEF WriteFirst, WriteLast, In, At, Goto, ThreadType
<1>5. PICK m : m = io'[t]
  OBVIOUS
<1>6. m.h = l.h /\ m.pos = l.pos /\ m.n = l.n /\ m.i = l.i /\ m.buf = Fill(l, i)
  BY <1>0, <1>4, <1>5 DEF ThreadType, IO
<1>7. i \in Nat
  <2>1. LastSector(l) \in Nat
    BY <1>2, LastByte, SectorMono DEF LastSector
  <2> QED  BY <1>2, <1>4, <2>1
<1>8. /\ DOMAIN m.buf = DOMAIN l.buf /\ Filled(m, h, i)
      /\ \A j : Filled(l, h, j) => Filled(m, h, j)
  BY <1>1, <1>6, <1>7, FillIs
<1>9. pc'[t] = "writeLast" => Filled(m, h, m.i)'
  <2>1. pc'[t] = "writeLast" => Filled(m, h, m.i)
    BY <1>4, <1>6, <1>8
  <2> QED  BY <1>0, <2>1 DEF Filled, ByteAt
<1>10. pc'[t] = "write" => Around(m, h)'
  <2> SUFFICES ASSUME pc'[t] = "write" PROVE Around(m, h)
    BY <1>0 DEF Around, ByteAt
  <2>1. DOMAIN m.buf = SectorOf(m.pos) * SectorSize .. (LastSector(m) + 1) * SectorSize - 1
    <3>1. DOMAIN l.buf = SectorOf(l.pos) * SectorSize .. (LastSector(l) + 1) * SectorSize - 1
      BY <1>0, <1>1 DEF Transferring
    <3> QED  BY <1>6, <1>8, <3>1 DEF LastSector
  <2>2. FirstAligned(m.pos) \/ Filled(m, h, SectorOf(m.pos))
    BY <1>3, <1>4, <1>6, <1>8
  <2>3. LastAligned(m.pos, m.n) \/ Filled(m, h, LastSector(m))
    BY <1>4, <1>6, <1>8 DEF LastSector
  <2> QED  BY <1>2, <1>3, <1>6, <2>1, <2>2, <2>3, AroundIs
<1>11. InPlace(m, h, from)'
  BY <1>2, <1>3, <1>6, Untouched
<1>12. Moving(t)'
  <2>1. /\ m.h = opfile' /\ Live(opfile)' /\ call'[t].size \in Lengths /\ h = file'[m.h].hdr
        /\ m.pos = file'[opfile'].seekPosition /\ m.n = Clip(h.numBytes, m.pos, call'[t].size)
        /\ from = call'[t].buf /\ m.i = SectorOf(m.pos)
    BY <1>0, <1>1, <1>2, <1>3, <1>6 DEF Live, objects
  <2>2. pc'[t] # "read"
    BY <1>4
  <2> QED  BY <1>5, <1>9, <1>10, <1>11, <2>1, <2>2, MovingNext
<1>13. call[t].op = "Write"
  BY <1>0 DEF Control, Placed, Where, Lookup, Resting
<1>14. Looking(t)' /\ Done(t)' = Done(t) /\ pc'[t] \notin Resting /\ pc'[t] # "writeDir2"
  <2>1. Looking(t)'
    BY <1>0, <1>4, <1>13 DEF Looking, Writing
  <2> QED  BY <1>0, <1>4, <1>13, <2>1 DEF Done, Resting
<1>15. Table' = Table
  BY <1>0, <1>14, TableStays
<1> QED  BY <1>0, <1>2, <1>12, <1>14, <1>15, Inside DEF Refined

\* An offset, from its sector and its place in the sector.
LEMMA DivMod ==
  ASSUME NEW a \in Nat, NEW S \in Nat \ {0}, NEW q \in Nat, a \div S = q
  PROVE  q * S + (a % S) = a /\ q * S <= a /\ a < (q + 1) * S /\ a % S \in 0 .. S - 1
<1>1. a = S * (a \div S) + (a % S)
  OBVIOUS
<1>2. a % S \in 0 .. S - 1
  BY ModRange
<1>3. a = S * q + (a % S) /\ S * q = q * S
  BY <1>1
<1>4. q * S <= a /\ a < (q + 1) * S
  OBVIOUS
<1> QED  BY <1>2, <1>3, <1>4

\* The open file, where a Write writes one of its sectors.
LEMMA WriteInto ==
  ASSUME Ready, NEW t \in Thread, pc[t] = "write", NEW l, l = io[t], NEW h, h = file[l.h].hdr,
         NEW s, s = ByteToSector(h, l.i * SectorSize)
  PROVE  /\ s \in Sector /\ IsInjective(h.dataSectors)
         /\ s = h.dataSectors[l.i + 1] /\ l.i + 1 \in DOMAIN h.dataSectors
         /\ \A j \in InUse : directory[j].sector # s
         /\ \E k \in InUse : /\ Match(directory, k, file[opfile].of) /\ HeaderOf(k) = h
                             /\ \A j \in InUse \ {k} : s \notin Range(HeaderOf(j).dataSectors)
<1>0. ImageType /\ ObjectType /\ ThreadType /\ Disk /\ Transferring(t) /\ OpenNamed
  BY ReadyTypes
<1>1. /\ l.h = opfile /\ Live(opfile) /\ l.pos \in Nat /\ l.n \in Nat \ {0} /\ l.i \in Nat
      /\ l.i <= LastSector(l) /\ h \in Header(Size) /\ h.numBytes \in Int
      /\ l.pos + l.n <= h.numBytes /\ Table = directory
  BY MovingIs
<1>3. /\ l.i + 1 \in DOMAIN h.dataSectors /\ s = h.dataSectors[l.i + 1] /\ s \in Sector
  <2>1. /\ l.i + 1 \in DOMAIN h.dataSectors
        /\ ByteToSector(h, l.i * SectorSize) = h.dataSectors[l.i + 1]
        /\ ByteToSector(h, l.i * SectorSize) \in Sector
    BY <1>1, InFileAt
  <2> QED  BY <2>1
<1>4. s \in Range(h.dataSectors)
  BY <1>3 DEF Range
<1>5. \A j \in InUse : directory[j].sector # s
  BY <1>0, <1>1, WriteTarget
<1>6. PICK k \in Slot : Match(directory, k, file[opfile].of) /\ HeaderOf(k) = h
  BY <1>0, <1>1 DEF OpenNamed, HeaderOf
<1>7. k \in InUse
  BY <1>6 DEF InUse, Match
<1>8. IsInjective(h.dataSectors)
  BY <1>0, <1>6, <1>7 DEF Disk, NoSharedSector
<1>9. \A j \in InUse \ {k} : s \notin Range(HeaderOf(j).dataSectors)
  <2> TAKE j \in InUse \ {k}
  <2>1. Owned(k) \cap Owned(j) = {}
    BY <1>0, <1>7 DEF Disk, NoSharedSector
  <2>2. /\ Owned(k) = {directory[k].sector} \cup Range(h.dataSectors)
        /\ Owned(j) = {directory[j].sector} \cup Range(HeaderOf(j).dataSectors)
    BY <1>0, <1>6, <1>7, OwnedHeader DEF Disk
  <2> QED  BY <1>4, <2>1, <2>2
<1> QED  BY <1>3, <1>5, <1>6, <1>7, <1>8, <1>9

\* The bytes of the file after a Write of one of its sectors.
LEMMA Wrote ==
  ASSUME Ready, NEW t \in Thread, WriteSector(t), NEW l, l = io[t], NEW h, h = file[l.h].hdr,
         NEW from, from = call[t].buf, NEW o \in 0 .. h.numBytes - 1
  PROVE  ByteAt(h, o)' = IF o \in Window(l) /\ SectorOf(o) = l.i THEN from[o - l.pos]
                         ELSE ByteAt(h, o)
<1>0. pc[t] = "write" /\ ImageType /\ Around(l, h) /\ Transferring(t)
  BY ReadyTypes DEF WriteSector, In, At, Moving
<1>1. PICK s : s = ByteToSector(h, l.i * SectorSize)
  OBVIOUS
<1>2. PICK block : /\ disk' = [disk EXCEPT ![s] = DataSector(block)]
                   /\ block = [k \in 0 .. SectorSize - 1 |->
                                 IF io[t].i * SectorSize + k \in io[t].pos .. io[t].pos + io[t].n - 1
                                 THEN call[t].buf[(io[t].i * SectorSize + k) - io[t].pos]
                                 ELSE io[t].buf[io[t].i * SectorSize + k]]
  BY <1>1 DEF WriteSector
<1>3. /\ s \in Sector /\ IsInjective(h.dataSectors)
      /\ s = h.dataSectors[l.i + 1] /\ l.i + 1 \in DOMAIN h.dataSectors
  BY <1>0, <1>1, WriteInto
<1>4. /\ h \in Header(Size) /\ l.i \in Nat /\ l.pos \in Nat /\ l.n \in Nat \ {0}
      /\ SectorOf(l.pos) <= l.i /\ l.i <= LastSector(l) /\ h.numBytes \in Int
  BY <1>0, MovingIs
<1>5. /\ SectorOf(o) \in Nat /\ SectorOf(o) + 1 \in DOMAIN h.dataSectors
      /\ ByteToSector(h, o) \in Sector /\ o \in Nat /\ o < h.numBytes
  <2>1. /\ SectorOf(o) \in Nat /\ SectorOf(o) + 1 \in DOMAIN h.dataSectors
        /\ ByteToSector(h, o) \in Sector
    BY <1>0, <1>4, ByteType
  <2>2. o \in Nat /\ o < h.numBytes
    BY <1>4, InRange
  <2> QED  BY <2>1, <2>2
<1>6. CASE SectorOf(o) # l.i
  <2>1. ByteToSector(h, o) # s
    <3>1. SectorOf(o) + 1 # l.i + 1
      BY <1>4, <1>5, <1>6, NextSector
    <3> QED  BY <1>3, <1>5, <3>1 DEF ByteToSector, IsInjective
  <2>2. disk'[ByteToSector(h, o)] = disk[ByteToSector(h, o)]
    BY <1>0, <1>2, <1>5, <2>1 DEF ImageType
  <2> QED  BY <1>6, <2>2 DEF ByteAt
<1>7. CASE SectorOf(o) = l.i
  <2>1. ByteToSector(h, o) = s
    BY <1>1, <1>4, <1>7, SectorBytes
  <2>2. disk'[s].data = block
    BY <1>0, <1>2, <1>3 DEF ImageType, DataSector
  <2>3. PICK k : k = o % SectorSize
    OBVIOUS
  <2>4. ByteAt(h, o)' = block[k]
    BY <2>1, <2>2, <2>3 DEF ByteAt
  <2>5. /\ l.i * SectorSize + k = o /\ k \in 0 .. SectorSize - 1
        /\ l.i * SectorSize <= o /\ o < (l.i + 1) * SectorSize
    BY <1>4, <1>5, <1>7, <2>3, DivMod, Constants DEF SectorOf
  <2>6. block[k] = IF o \in Window(l) THEN from[o - l.pos] ELSE l.buf[o]
    <3>1. io[t].i * SectorSize + k = o
      BY <2>5
    <3>2. block[k] = IF o \in io[t].pos .. io[t].pos + io[t].n - 1
                     THEN call[t].buf[o - io[t].pos] ELSE io[t].buf[o]
      BY <1>2, <2>5, <3>1
    <3> QED  BY <3>2 DEF Window
  <2>7. o \in DOMAIN l.buf
    <3>1. SectorOf(l.pos) \in Nat /\ LastSector(l) \in Nat
      BY <1>4, LastByte, SectorMono DEF LastSector
    <3>2. o \in SectorOf(l.pos) * SectorSize .. (LastSector(l) + 1) * SectorSize - 1
      BY <1>4, <1>5, <2>5, <3>1, InSectors
    <3> QED  BY <1>0, <3>2 DEF Transferring
  <2>8. o \notin Window(l) => l.buf[o] = ByteAt(h, o)
    <3>1. l.i <= SectorOf(o)
      BY <1>5, <1>7, NatReflexive
    <3> QED  BY <1>0, <1>5, <2>7, <3>1 DEF Around
  <2> QED  BY <1>7, <2>4, <2>6, <2>8
<1> QED  BY <1>6, <1>7

\* Write changes the file it writes and no other, and no header.
LEMMA WroteFiles ==
  ASSUME Ready, NEW t \in Thread, WriteSector(t), Table' = Table, NEW l, l = io[t],
         NEW h, h = file[l.h].hdr, NEW of, of = file[opfile].of
  PROVE  /\ \A n : n # of => Content(n)' = Content(n)
         /\ Content(of)' = FileOf(h)'
         /\ \E k \in Slot : Match(Table, k, of) /\ disk'[Table[k].sector].hdr = h
<1>0. /\ pc[t] = "write" /\ ImageType /\ Disk /\ NamesInOrder(Table) /\ NamesInOrder(Table')
      /\ Table = directory
  <2>1. pc[t] = "write"
    BY DEF WriteSector, In, At
  <2>2. Table = directory
    BY <2>1, MovingIs
  <2> QED  BY <2>1, <2>2, ReadyTypes
<1>1. PICK s : s = ByteToSector(h, l.i * SectorSize)
  OBVIOUS
<1>2. /\ s \in Sector /\ \A j \in InUse : directory[j].sector # s
      /\ \E k \in InUse : /\ Match(directory, k, of) /\ HeaderOf(k) = h
                          /\ \A j \in InUse \ {k} : s \notin Range(HeaderOf(j).dataSectors)
  <2>1. pc[t] = "write"
    BY <1>0
  <2>2. /\ s \in Sector /\ \A j \in InUse : directory[j].sector # s
        /\ \E k \in InUse : /\ Match(directory, k, file[opfile].of) /\ HeaderOf(k) = h
                            /\ \A j \in InUse \ {k} : s \notin Range(HeaderOf(j).dataSectors)
    BY <1>1, <2>1, WriteInto
  <2> QED  BY <2>2
<1>3. PICK k \in InUse : /\ Match(directory, k, of) /\ HeaderOf(k) = h
                         /\ \A j \in InUse \ {k} : s \notin Range(HeaderOf(j).dataSectors)
  BY <1>2
<1>4. \E block : disk' = [disk EXCEPT ![s] = DataSector(block)]
  BY <1>1 DEF WriteSector
<1>5. \A q \in Sector \ {s} : disk'[q] = disk[q]
  BY <1>0, <1>4 DEF ImageType
<1>6. \A j \in InUse : /\ disk'[directory[j].sector].hdr = HeaderOf(j)
                       /\ HeaderOf(j) \in Header(Size) /\ j \in Slot
  <2> TAKE j \in InUse
  <2>1. j \in Slot /\ Table[j].inUse
    BY <1>0 DEF InUse
  <2>2. directory[j].sector \in Sector /\ HeaderOf(j) \in Header(Size)
    BY <1>0, <2>1, TableHeader DEF Ready, HeaderOf
  <2> QED  BY <1>2, <1>5, <2>1, <2>2 DEF HeaderOf
<1>7. Content(of)' = FileOf(h)'
  <2>1. k \in Slot /\ Match(Table', k, of) /\ disk'[Table'[k].sector].hdr = h
    BY <1>0, <1>3, <1>6
  <2>2. Content(of)' = FileOf(disk[Table[k].sector].hdr)'
    BY <1>0, <2>1, ContentIsNext
  <2> QED  BY <2>1, <2>2 DEF FileOf, ByteAt
<1>8. ASSUME NEW n, n # of PROVE Content(n)' = Content(n)
  <2>1. ASSUME NEW j \in Slot, Match(Table, j, n)
        PROVE  FileOf(disk[Table[j].sector].hdr)' = FileOf(disk[Table[j].sector].hdr)
    <3>1. j \in InUse /\ j # k
      BY <1>0, <1>3, <1>8, <2>1 DEF InUse, Match
    <3>2. PICK g : g = HeaderOf(j)
      OBVIOUS
    <3>3. /\ g \in Header(Size) /\ s \notin Range(g.dataSectors)
          /\ disk[Table[j].sector].hdr = g /\ disk'[Table'[j].sector].hdr = g
      BY <1>0, <1>3, <1>6, <3>1, <3>2 DEF HeaderOf
    <3>4. FileOf(g)' = FileOf(g)
      BY <1>0, <1>5, <3>3, FileSame
    <3> QED  BY <3>3, <3>4 DEF FileOf, ByteAt
  <2> QED  BY <1>0, <2>1, ContentSame
<1> QED  BY <1>0, <1>3, <1>6, <1>7, <1>8

\* A function that differs from another at one argument.
LEMMA ChangedAt ==
  ASSUME NEW S, NEW f, NEW g, f = [n \in S |-> f[n]], g = [n \in S |-> g[n]],
         NEW a \in S, NEW x, g[a] = x, \A n \in S \ {a} : g[n] = f[n]
  PROVE  g = [f EXCEPT ![a] = x]
<1>1. g = [n \in S |-> IF n = a THEN x ELSE f[n]]
  OBVIOUS
<1>2. [f EXCEPT ![a] = x] = [n \in S |-> IF n = a THEN x ELSE f[n]]
  OBVIOUS
<1> QED  BY <1>1, <1>2

\* A step that changes one file of the store.
LEMMA StoredAt ==
  ASSUME NEW of \in Name, NEW f, stored'[of] = f, \A n \in Name \ {of} : stored'[n] = stored[n]
  PROVE  stored' = [stored EXCEPT ![of] = f]
<1>1. stored' = [n \in Name |-> stored'[n]] /\ stored = [n \in Name |-> stored[n]]
  BY DEF stored
<1> QED  BY <1>1, ChangedAt

\* A file with other bytes.
LEMMA FileRecord ==
  ASSUME NEW len, NEW old, NEW new, NEW f, f = [length |-> len, bytes |-> old]
  PROVE  f.length = len /\ f.bytes = old /\ [f EXCEPT !.bytes = new] = [length |-> len, bytes |-> new]
OBVIOUS

\* A file with a part of its bytes replaced by the caller's.
Overwrite(f, pos, from, part) ==
  [f EXCEPT !.bytes = [o \in DOMAIN f.bytes |-> IF o \in part THEN from[o - pos] ELSE f.bytes[o]]]

\* A step puts a part of the caller's bytes into the file, and no other.
Puts(h, pos, from, part) ==
  \A o \in 0 .. h.numBytes - 1 :
    ByteAt(h, o)' = IF o \in part THEN from[o - pos] ELSE ByteAt(h, o)

\* The file is then overwritten in that part.
LEMMA PutsOverwrites ==
  ASSUME NEW h, NEW pos, NEW from, NEW part, Puts(h, pos, from, part)
  PROVE  FileOf(h)' = Overwrite(FileOf(h), pos, from, part)
<1>1. PICK f, old, new, len :
        /\ f = FileOf(h) /\ len = h.numBytes
        /\ old = [o \in 0 .. h.numBytes - 1 |-> ByteAt(h, o)]
        /\ new = [o \in 0 .. h.numBytes - 1 |-> IF o \in part THEN from[o - pos] ELSE ByteAt(h, o)]
  OBVIOUS
<1>2. f = [length |-> len, bytes |-> old]
  BY <1>1 DEF FileOf
<1>3. f.bytes = old /\ [f EXCEPT !.bytes = new] = [length |-> len, bytes |-> new]
  BY <1>2, FileRecord
<1>4. [o \in DOMAIN f.bytes |-> IF o \in part THEN from[o - pos] ELSE f.bytes[o]] = new
  <2>1. DOMAIN old = 0 .. h.numBytes - 1 /\ \A o \in DOMAIN old : old[o] = ByteAt(h, o)
    BY <1>1
  <2>2. new = [o \in DOMAIN old |-> IF o \in part THEN from[o - pos] ELSE old[o]]
    BY <1>1, <2>1
  <2> QED  BY <1>3, <2>2
<1>5. FileOf(h)' = [length |-> len, bytes |-> new]
  BY <1>1 DEF FileOf, Puts
<1> QED  BY <1>1, <1>3, <1>4, <1>5 DEF Overwrite

\* The store with part of a Write in place.
LEMMA WrittenIs ==
  ASSUME Ready, NEW t \in Thread, WriteSector(t), Table' = Table, NEW l, l = io[t],
         NEW h, h = file[l.h].hdr, NEW from, from = call[t].buf, NEW part,
         Puts(h, l.pos, from, part)
  PROVE  stored' = Store!Written(t, part)
<1>0. pc[t] = "write"
  BY DEF WriteSector, In, At
<1>1. PICK of : of = file[opfile].of
  OBVIOUS
<1>2. /\ of \in Name /\ opened = [name |-> of, pos |-> l.pos] /\ stored[of] = FileOf(h)
  <2>1. /\ file[opfile].of \in Name /\ opened = [name |-> file[opfile].of, pos |-> l.pos]
        /\ stored[opened.name] = FileOf(h)
    BY <1>0, MovingIs
  <2>2. opened.name = file[opfile].of
    BY <2>1, OpenedRecord
  <2> QED  BY <1>1, <2>1, <2>2
<1>3. /\ \A n \in Name \ {of} : stored'[n] = stored[n]
      /\ stored'[of] = FileOf(h)'
  <2>1. (\A n : n # of => Content(n)' = Content(n)) /\ Content(of)' = FileOf(h)'
    BY <1>1, WroteFiles
  <2>2. \A n \in Name : stored[n] = Content(n) /\ stored'[n] = Content(n)'
    BY DEF stored
  <2> QED  BY <1>2, <2>1, <2>2
<1>4. FileOf(h)' = Overwrite(FileOf(h), l.pos, from, part)
  BY PutsOverwrites
<1>5. Store!Written(t, part) = [stored EXCEPT ![of] = Overwrite(stored[of], l.pos, from, part)]
  BY <1>2 DEF Store!Written, Overwrite
<1>6. stored'[of] = Overwrite(stored[of], l.pos, from, part)
  BY <1>2, <1>3, <1>4
<1>7. stored' = [stored EXCEPT ![of] = Overwrite(stored[of], l.pos, from, part)]
  BY <1>2, <1>3, <1>6, StoredAt
<1> QED  BY <1>5, <1>7

\* WriteAt writes one sector, which is part of the Write; the last completes it.
LEMMA WriteSectorRefined ==
  ASSUME Ready, NEW t \in Thread, Acts(t), WriteSector(t)
  PROVE  Refined
<1>0. /\ ThreadType /\ Control /\ Control' /\ ImageType /\ NamesInOrder(Table) /\ OpenNamed
      /\ Transferring(t) /\ pc[t] = "write" /\ UNCHANGED <<directory, opfile, fd>>
      /\ Around(io[t], file[io[t].h].hdr) /\ InPlace(io[t], file[io[t].h].hdr, call[t].buf)
  BY ReadyTypes DEF WriteSector, In, At, Moving
<1>1. PICK l, h, size, from, of : /\ l = io[t] /\ h = file[l.h].hdr /\ size = call[t].size
                                  /\ from = call[t].buf /\ of = file[opfile].of
  OBVIOUS
<1>2. /\ l.h = opfile /\ Live(opfile) /\ size \in Lengths
      /\ l.pos = file[opfile].seekPosition /\ l.n = Clip(h.numBytes, l.pos, size)
      /\ l.pos \in Nat /\ l.n \in Nat \ {0} /\ l.i \in Nat
      /\ h \in Header(Size) /\ h.numBytes \in Int /\ l.pos + l.n <= h.numBytes
      /\ Store!IsOpen /\ Store!Window(size) = Window(l) /\ of \in Name
  BY <1>0, <1>1, MovingIs
<1>3. \/ /\ l.i < LastSector(l)
         /\ io' = [io EXCEPT ![t] = IO(l.h, l.pos, l.n, l.i + 1, l.buf)]
         /\ UNCHANGED <<file, pc, call, loc, cont, ret>>
      \/ /\ l.i = LastSector(l)
         /\ Transferred(t, "Write", <<>>)
  BY <1>1 DEF WriteSector
<1>4. \A o \in 0 .. h.numBytes - 1 :
        ByteAt(h, o)' = IF o \in Window(l) /\ SectorOf(o) = l.i THEN from[o - l.pos]
                        ELSE ByteAt(h, o)
  <2> TAKE o \in 0 .. h.numBytes - 1
  <2> QED  BY <1>1, Wrote
<1>5. pc[t] \notin Resting /\ call[t].op = "Write" /\ Store!In(t, "Write")
  <2>1. pc[t] \notin Resting
    BY <1>0 DEF Resting
  <2>2. Where(call[t].op, "write")
    BY <1>0 DEF Control, Placed
  <2>3. \A op : Where(op, "write") => op = "Write"
    BY DEF Where, Lookup, Resting
  <2>4. call[t].op = "Write"
    BY <2>2, <2>3
  <2> QED  BY <2>1, <2>4, Rest DEF Store!In
<1>6. \A o \in Window(l) : /\ o \in 0 .. h.numBytes - 1 /\ SectorOf(o) \in Nat
                           /\ SectorOf(o) <= LastSector(l)
  <2> TAKE o \in Window(l)
  <2>1. o \in 0 .. h.numBytes - 1
    BY <1>2, InRequest DEF Window
  <2>2. SectorOf(o) \in Nat /\ SectorOf(o) <= SectorOf(l.pos + l.n - 1)
    BY <1>2, RequestSectors DEF Window
  <2> QED  BY <2>1, <2>2 DEF LastSector
<1>7. CASE /\ io' = [io EXCEPT ![t] = IO(l.h, l.pos, l.n, l.i + 1, l.buf)]
           /\ UNCHANGED <<file, pc, call, loc, cont, ret>>
  <2>1. /\ io' = [io EXCEPT ![t] = IO(l.h, l.pos, l.n, l.i + 1, l.buf)]
        /\ UNCHANGED <<file, pc, call, loc, cont, ret>>
    BY <1>7
  <2>2. PICK m : m = io'[t]
    OBVIOUS
  <2>3. m.h = l.h /\ m.pos = l.pos /\ m.n = l.n /\ m.i = l.i + 1 /\ m.buf = l.buf
    BY <1>0, <2>1, <2>2 DEF ThreadType, IO
  <2>4. Table' = Table
    BY <1>0, <2>1, TableStays
  <2>5. PICK part : part = {o \in Window(l) : SectorOf(o) = l.i}
    OBVIOUS
  <2>6. stored' = Store!Written(t, part)
    <3>1. Puts(h, l.pos, from, part)
      BY <1>4, <2>5 DEF Puts
    <3> QED  BY <1>1, <2>4, <3>1, WrittenIs
  <2>7. UNCHANGED <<opened, call, effected, ret>>
    <3>1. opened' = opened
      BY <1>0, <2>1 DEF opened, Live
    <3>2. effected' = effected
      BY <2>1 DEF effected, Done
    <3> QED  BY <2>1, <3>1, <3>2
  <2>8. Store!WriteEffect(t)
    BY <1>1, <1>2, <1>5, <2>5, <2>6, <2>7 DEF Store!WriteEffect
  <2>9. InPlace(m, h, from)'
    <3>1. ASSUME NEW o \in Window(l), SectorOf(o) < l.i + 1
          PROVE  ByteAt(h, o)' = from[o - l.pos]
      <4>1. CASE SectorOf(o) = l.i
        BY <1>4, <1>6, <4>1
      <4>2. CASE SectorOf(o) # l.i
        <5>1. SectorOf(o) < l.i
          BY <1>2, <1>6, <3>1, <4>2, NextSector
        <5>2. ByteAt(h, o) = from[o - l.pos]
          BY <1>0, <1>1, <5>1 DEF InPlace
        <5> QED  BY <1>4, <1>6, <4>2, <5>2
      <4> QED  BY <4>1, <4>2
    <3> QED  BY <2>3, <3>1 DEF InPlace, Window
  <2>10. Around(m, h)'
    <3>1. ASSUME NEW o \in DOMAIN l.buf \ Window(l), l.i + 1 <= SectorOf(o), o < h.numBytes
          PROVE  l.buf[o] = ByteAt(h, o)'
      <4>1. o \in Nat
        <5>1. SectorOf(l.pos) \in Nat /\ LastSector(l) \in Nat
          BY <1>2, LastByte, SectorMono DEF LastSector
        <5>2. o \in SectorOf(l.pos) * SectorSize .. (LastSector(l) + 1) * SectorSize - 1
          BY <1>0, <1>1 DEF Transferring
        <5> QED  BY <5>1, <5>2, InBuffer
      <4>2. o \in 0 .. h.numBytes - 1
        BY <1>2, <3>1, <4>1, Below
      <4>3. ByteAt(h, o)' = ByteAt(h, o)
        BY <1>4, <3>1, <4>2
      <4>4. SectorOf(o) \in Nat
        BY <4>1, SectorMono
      <4>5. l.i <= SectorOf(o)
        BY <1>2, <3>1, <4>4, NextSector
      <4> QED  BY <1>0, <1>1, <3>1, <4>3, <4>5 DEF Around
    <3> QED  BY <2>3, <3>1 DEF Around, Window
  <2>11. Moving(t)'
    <3>1. /\ m.h = opfile' /\ Live(opfile)' /\ call'[t].size \in Lengths /\ h = file'[m.h].hdr
          /\ m.pos = file'[opfile'].seekPosition /\ m.n = Clip(h.numBytes, m.pos, call'[t].size)
          /\ from = call'[t].buf
      BY <1>0, <1>1, <1>2, <2>1, <2>3 DEF Live
    <3> QED  BY <1>0, <2>1, <2>2, <2>9, <2>10, <3>1, MovingNext
  <2>12. Looking(t)'
    BY <1>0, <1>5, <2>1 DEF Looking, Writing
  <2>13. OpenNamed'
    <3>1. \E k \in Slot : Match(Table', k, of) /\ disk'[Table'[k].sector].hdr = h
      BY <1>1, <2>4, WroteFiles
    <3> QED  BY <1>0, <1>1, <1>2, <2>1, <3>1 DEF OpenNamed
  <2>14. Alone(t) /\ pc'[t] # "copyOpen" /\ (call'[t].op = "none" => call'[t] = NoCall)
    BY <1>0, <1>5, <2>1, Rest
  <2>15. pc'[Main] = "copyOpen" => fd'[Main] \in Name
    BY <2>14, CopyNamed
  <2>16. StoreInv'
    BY <1>0, <2>4, <2>11, <2>12, <2>13, <2>14, <2>15, StoreKept
  <2> QED  BY <2>8, <2>16 DEF Refined, Store!Next
<1>8. CASE l.i = LastSector(l) /\ Transferred(t, "Write", <<>>)
  <2>1. Return(t, "Write", TRUE, <<>>) /\ file' = [file EXCEPT ![io[t].h] = Advanced(@, io[t].n)]
    BY <1>8 DEF Transferred
  <2>2. /\ Live(opfile)' /\ file'[opfile'].hdr = file[opfile].hdr
        /\ file'[opfile'].of = file[opfile].of
        /\ Store!Advance(Store!Window(size))
    BY <1>0, <1>1, <2>1, Advances
  <2>3. pc'[t] # "writeDir2"
    BY <1>0, <2>1, Returned DEF Resting
  <2>4. Table' = Table
    BY <1>0, <2>3, TableStays
  <2>5. \A o \in 0 .. h.numBytes - 1 :
          ByteAt(h, o)' = IF o \in Window(l) THEN from[o - l.pos] ELSE ByteAt(h, o)
    <3> TAKE o \in 0 .. h.numBytes - 1
    <3>1. CASE o \in Window(l) /\ SectorOf(o) # l.i
      <4>1. SectorOf(o) < l.i
        BY <1>2, <1>6, <1>8, <3>1, NextSector
      <4>2. ByteAt(h, o) = from[o - l.pos]
        BY <1>0, <1>1, <3>1, <4>1 DEF InPlace
      <4> QED  BY <1>4, <3>1, <4>2
    <3>2. CASE ~(o \in Window(l) /\ SectorOf(o) # l.i)
      BY <1>4, <3>2
    <3> QED  BY <3>1, <3>2
  <2>6. stored' = Store!Written(t, Window(l))
    <3>1. Puts(h, l.pos, from, Window(l))
      BY <2>5 DEF Puts
    <3> QED  BY <1>1, <2>4, <3>1, WrittenIs
  <2>7. OpenNamed'
    <3>1. \E k \in Slot : Match(Table', k, of) /\ disk'[Table'[k].sector].hdr = h
      BY <1>1, <2>4, WroteFiles
    <3> QED  BY <1>0, <1>1, <1>2, <2>2, <3>1 DEF OpenNamed
  <2>8. StoreInv' /\ Store!Return(t, TRUE, <<>>)
    BY <1>0, <1>5, <2>1, <2>4, <2>7, Returns
  <2>9. Store!WriteReturn(t)
    BY <1>1, <1>2, <1>5, <2>2, <2>6, <2>8 DEF Store!WriteReturn
  <2> QED  BY <2>8, <2>9 DEF Refined, Store!Next
<1> QED  BY <1>3, <1>7, <1>8

\* A formatted directory has no file.
LEMMA Formatted ==
  /\ NamesInOrder(FormatTable) /\ \A n : ~Found(FormatTable, n)
BY DEF FormatTable, EmptyTable, FreeEntry, NamesInOrder, Found, Match

\* The machine starts again, with the disk as it is or formatted.
LEMMA RebootRefined ==
  ASSUME Ready, Reboot
  PROVE  Refined
<1>0. /\ Control /\ Control' /\ Turns /\ NamesInOrder(Table) /\ Main \in Thread
      /\ UNCHANGED <<disk, call, loc, io>> /\ opfile' = Wild /\ pc' = Booted
      /\ ret' = [t \in Thread |-> Store!NoResult]
      /\ directory' = directory \/ directory' = FormatTable
  BY ReadyTypes DEF Reboot, Thread, Result, Store!NoResult
<1>1. \A u \in Thread : /\ pc[u] \in Resting /\ call[u] = NoCall /\ call'[u] = NoCall
                        /\ pc[u] # "writeDir2"
  <2>1. \A u \in Thread : pc[u] \in Resting /\ pc[u] # "writeDir2"
    BY DEF Reboot, Outside, Resting
  <2> QED  BY <1>0, <2>1, Rest
<1>2. \A u \in Thread : pc'[u] \in {"boot", "new"}
  BY <1>0 DEF Booted
<1>3. Table = directory /\ Table' = directory'
  BY <1>0, <1>1, <1>2, TableIs, TableIsNext
<1>4. NamesInOrder(Table')
  BY <1>0, <1>3, Formatted
<1>5. ~Live(opfile)'
  BY <1>0, Constants DEF Live
<1>6. opened' = NotOpen /\ OpenNamed'
  BY <1>5 DEF opened, OpenNamed
<1>7. \A u \in Thread : Looking(u)' /\ Moving(u)'
  BY <1>1, <1>2, RestSays DEF Resting
<1>8. Turns'
  BY <1>0 DEF Turns
<1>9. StoreInv'
  BY <1>0, <1>2, <1>4, <1>6, <1>7, <1>8 DEF StoreInv
<1>10. effected' = effected
  <2>1. \A u \in Thread : Done(u)' = FALSE /\ Done(u) = FALSE
    BY <1>1, NotDone
  <2> QED  BY <2>1 DEF effected
<1>11. stored' \in {stored, [n \in Name |-> NoFile]}
  <2>1. CASE directory' = directory
    <3>1. \A n : Content(n)' = Content(n)
      BY <1>0, <1>3, <2>1, ContentStays
    <3> QED  BY <3>1 DEF stored
  <2>2. CASE directory' = FormatTable
    <3>1. \A n : Content(n)' = NoFile
      BY <1>3, <2>2, Formatted DEF Content
    <3> QED  BY <3>1 DEF stored
  <2> QED  BY <1>0, <2>1, <2>2
<1>12. Store!Reboot
  BY <1>0, <1>1, <1>6, <1>10, <1>11 DEF Store!Reboot
<1> QED  BY <1>9, <1>12 DEF Refined, Store!Next

\* Every step of FileSystem is a step of the store, and keeps the invariant.
LEMMA StepRefined ==
  ASSUME OneCaller, Ready, [Next]_vars
  PROVE  Refined
<1>1. CASE UNCHANGED vars
  <2>1. UNCHANGED <<image, objects, call, ret, loc, io, pc, fd>>
    BY <1>1 DEF vars
  <2> QED  BY <2>1, Idles DEF Ready, Refined
<1>2. ASSUME NEW t \in Thread, Acts(t) PROVE Refined
  <2>1. CASE t = Main /\ Commands
    BY <1>2, <2>1, BeginsRefined, TransfersRefined, CloseRefined DEF Commands
  <2>2. CASE SystemCall(t)
    <3>1. CASE LoadBegin(t) \/ CreateBegin(t) \/ OpenBegin(t)
      BY <1>2, <3>1, BeginsRefined
    <3>2. CASE ReadBegin(t) \/ WriteBegin(t)
      BY <1>2, <3>2, TransfersRefined
    <3>3. CASE Close(t)
      BY <1>2, <3>3, CloseRefined
    <3>4. CASE BadPointer(t)
      BY <1>2, <3>4, FinishRefined
    <3> QED  BY <2>2, <3>1, <3>2, <3>3, <3>4 DEF SystemCall
  <2>3. CASE Step(t)
    BY <1>2, <2>3, FetchDir1Refined, FetchDir2Refined, CreateAllocateRefined,
       RemoveReadsRefined, WriteHdrRefined, WriteDir1Refined, WriteRestRefined,
       OpenHdrRefined, LoadDeleteRefined, ReadSectorRefined, FillRefined,
       WriteSectorRefined, FinishRefined DEF Step
  <2> QED  BY <1>2, <2>1, <2>2, <2>3 DEF Acts
<1> QED  BY <1>1, <1>2, NextActs, RebootRefined
=============================================================================
