-------------------------- MODULE FileSystemProofs --------------------------
(***************************************************************************)
(* Proofs about FileSystem: where threads are (Control), the types of      *)
(* headers, tables, OpenFile objects and locals, transfers that stay within *)
(* their files; the steps that write the disk keep every sector with its   *)
(* owner, as do the steps that only read it; the names in the directory    *)
(* while it is being written and after; and the theorems that follow.      *)
(***************************************************************************)
EXTENDS FileSystemLemmas

\* Leaves that name no prover: Zenon for at most 10 seconds, then SMT.
USE ZenonT(10), SMTT(30)

-----------------------------------------------------------------------------
(* Where threads are.                                                      *)

\* A step from label to label within a call keeps Control.
LEMMA GotoControl ==
  ASSUME ThreadType, Control, NEW t \in Thread, NEW label, Goto(t, label),
         Where(call[t].op, label), pc[t] \notin {"new", "done"},
         UNCHANGED <<call, cont>>
  PROVE  Control'
<1>1. \A u \in Thread : Placed(u)'
  BY DEF ThreadType, Control, Placed, Goto
<1>2. pc'[Main] # "done" => \A p \in Program : pc'[p] = "new"
  BY Constants DEF ThreadType, Control, Goto, Thread
<1> QED  BY <1>1, <1>2 DEF Control, Mutating

\* The return of a call keeps Control.
LEMMA ReturnControl ==
  ASSUME ThreadType, Control, NEW t \in Thread, NEW op, NEW ok, NEW data,
         Return(t, op, ok, data), pc[t] \notin {"new", "done"}
  PROVE  Control'
<1>1. \A u \in Thread : Placed(u)'
  <2>1. Placed(t)'
    BY DEF ThreadType, Control, Placed, Goto, Return, Where, Resting, NoCall, NoThen, Then
  <2>2. \A u \in Thread \ {t} : Placed(u)'
    BY DEF ThreadType, Control, Placed, Goto, Return
  <2> QED  BY <2>1, <2>2
<1>2. pc'[Main] # "done" => \A p \in Program : pc'[p] = "new"
  BY Constants DEF ThreadType, Control, Goto, Return, Thread
<1>3. \A u \in Thread : call'[u] = call[u] \/ call'[u].op = "none"
  BY DEF ThreadType, Return, NoCall
<1> QED  BY <1>1, <1>2, <1>3 DEF Control, Mutating, Thread

\* The start of a call on the directory keeps Control, if no other thread is
\* changing the directory when a Create or Remove starts.
LEMMA BeginControl ==
  ASSUME ThreadType, Control, NEW t \in Thread, NEW op, NEW n \in Name \cup {NoName},
         NEW size, NEW next \in Resting \ {"boot"}, NEW fail \in Resting \ {"boot"},
         Begin(t, op, n, size, next, fail), pc[t] # "done",
         op \in {"Create", "Remove", "Open", "Load"},
         t # Main => pc[Main] = "done", t # Main => op # "Remove",
         op = "Create" => size \in Size,
         t # Main /\ op = "Create" => \A u \in Thread : call[u].op # "Create"
  PROVE  Control'
<1>1. \A u \in Thread : Placed(u)'
  <2>1. Placed(t)'
    BY DEF ThreadType, Begin, Placed, Where, Lookup, NoCall, Then
  <2>2. \A u \in Thread \ {t} : Placed(u)'
    BY DEF ThreadType, Control, Begin, Placed
  <2> QED  BY <2>1, <2>2
<1>2. pc'[Main] # "done" => \A p \in Program : pc'[p] = "new"
  BY Constants DEF ThreadType, Control, Begin, Thread
<1>3. /\ call'[t].op = op
      /\ \A u \in Thread \ {t} : call'[u] = call[u]
  BY DEF ThreadType, Begin, NoCall
<1>4. \A p \in Program : call'[p].op # "Remove"
  BY <1>3, Constants DEF Control, Thread
<1>5. op \in {"Create", "Remove"} => \A u \in Thread \ {t} : ~Mutating(u)
  <2>1. CASE t = Main
    BY <2>1 DEF Control, Placed, Where, Lookup, Thread, Mutating
  <2>2. CASE t # Main
    BY <2>2 DEF Control, Placed, Where, Lookup, Thread, Mutating, Resting
  <2> QED  BY <2>1, <2>2
<1> QED  BY <1>1, <1>2, <1>3, <1>4, <1>5 DEF Control, Mutating

\* The start of a transfer, or its return with nothing to do, keeps Control.
LEMMA TransferControl ==
  ASSUME ThreadType, Control, NEW t \in Thread, NEW c, NEW first, NEW buf,
         NEW next \in Resting \ {"boot"}, Transfer(t, c, first, buf, next),
         Where(c.op, first), c.op \in {"Read", "Write"}, c.name = NoName,
         pc[t] \in Resting \ {"new", "done"}
  PROVE  Control'
<1>1. CASE Goto(t, next) /\ UNCHANGED <<call, cont>>
  BY <1>1, GotoControl DEF Control, Placed, Where, Resting, Lookup
<1>2. CASE /\ Goto(t, first) /\ call' = [call EXCEPT ![t] = c]
           /\ cont' = [cont EXCEPT ![t] = Then(next, next)]
  <2>1. \A u \in Thread : Placed(u)'
    <3>1. Placed(t)'
      BY <1>2 DEF ThreadType, Goto, Placed, Then
    <3>2. \A u \in Thread \ {t} : Placed(u)'
      BY <1>2 DEF ThreadType, Control, Goto, Placed
    <3> QED  BY <3>1, <3>2
  <2>2. pc'[Main] # "done" => \A p \in Program : pc'[p] = "new"
    BY <1>2, Constants DEF ThreadType, Control, Goto, Thread
  <2>3. \A u \in Thread : call'[u] = call[u] \/ call'[u].op \in {"Read", "Write"}
    BY <1>2 DEF ThreadType
  <2> QED  BY <2>1, <2>2, <2>3 DEF Control, Mutating, Thread
<1> QED  BY <1>1, <1>2 DEF Transfer

\* The start of OpenFile::Read keeps Control.
LEMMA ReadControl ==
  ASSUME ThreadType, Control, NEW t \in Thread, NEW len, NEW next \in Resting \ {"boot"},
         ReadAt(t, len, next), pc[t] \in Resting \ {"new", "done"}
  PROVE  Control'
<1> DEFINE n == Clip(file[opfile].hdr.numBytes, file[opfile].seekPosition, len)
           c == [NoCall EXCEPT !.op = "Read", !.size = len]
<1>1. Transfer(t, c, "read", [o \in 0 .. n - 1 |-> 0], next)
  BY DEF ReadAt
<1>2. c.op = "Read" /\ c.name = NoName
  BY DEF NoCall
<1>3. Where(c.op, "read")
  BY <1>2 DEF Where
<1> QED  BY <1>1, <1>2, <1>3, TransferControl

\* The start of OpenFile::Write keeps Control.
LEMMA WriteControl ==
  ASSUME ThreadType, Control, NEW t \in Thread, NEW len, NEW from,
         NEW next \in Resting \ {"boot"},
         WriteAt(t, len, from, next), pc[t] \in Resting \ {"new", "done"}
  PROVE  Control'
<1> DEFINE pos == file[opfile].seekPosition
           n == Clip(file[opfile].hdr.numBytes, pos, len)
           c == [NoCall EXCEPT !.op = "Write", !.size = len, !.buf = from]
           first == IF ~FirstAligned(pos) THEN "writeFirst"
                    ELSE IF ~LastAligned(pos, n) THEN "writeLast" ELSE "write"
           buf == [o \in SectorOf(pos) * SectorSize ..
                       (SectorOf(pos + n - 1) + 1) * SectorSize - 1 |-> 0]
<1>1. Transfer(t, c, first, buf, next)
  BY DEF WriteAt
<1>2. c.op = "Write" /\ c.name = NoName
  BY DEF NoCall
<1>3. Where(c.op, first)
  BY <1>2 DEF Where
<1> QED
  <2> HIDE DEF c, first, buf
  <2> QED  BY <1>1, <1>2, <1>3, TransferControl

\* Control is inductive when creates exclude each other.
LEMMA ControlStep ==
  ASSUME ThreadType, Control, Next, "Create" \in Exclusive
  PROVE  Control'
<1> Main \in Thread
  BY DEF Thread
<1>1. CASE Commands
  <2> pc[Main] # "done" => \A p \in Program : call[p].op = "none"
    BY DEF Control, Placed, Where, Lookup, Thread
  <2>1. CASE RemoveBegin
    BY <2>1, BeginControl DEF RemoveBegin, Enter, Resting
  <2>2. CASE CopyBegin
    BY <2>2, BeginControl DEF CopyBegin, Enter, Resting
  <2>3. CASE CopyOpen
    <3>1. fd[Main] \in Name \cup {NoName}
      BY DEF ThreadType
    <3> QED  BY <2>3, <3>1, BeginControl DEF CopyOpen, Enter, Resting
  <2>4. CASE PrintBegin
    BY <2>4, BeginControl DEF PrintBegin, Enter, Resting
  <2>5. CASE CopyWrite
    BY <2>5, WriteControl DEF CopyWrite, Enter, Resting
  <2>6. CASE PrintRead
    BY <2>6, ReadControl DEF PrintRead, Enter, Resting
  <2>7. CASE CopyDelete
    BY <2>7, GotoControl DEF CopyDelete, Delete, At, Control, Placed, Where, Resting, Lookup
  <2>8. CASE PrintDelete
    BY <2>8, GotoControl DEF PrintDelete, Delete, At, Control, Placed, Where, Resting, Lookup
  <2> QED  BY <1>1, <2>1, <2>2, <2>3, <2>4, <2>5, <2>6, <2>7, <2>8 DEF Commands
<1>2. ASSUME NEW t \in Program, SystemCall(t)
      PROVE  Control'
  <2> t \in Thread /\ t # Main
    BY Constants DEF Thread
  <2> pc[t] # "new" => pc[Main] = "done"
    BY DEF Control
  <2>1. CASE LoadBegin(t)
    BY <2>1, BeginControl DEF LoadBegin, Enter, Resting
  <2>2. CASE CreateBegin(t)
    BY <2>2, BeginControl DEF CreateBegin, Enter, Resting
  <2>3. CASE OpenBegin(t)
    BY <2>3, BeginControl DEF OpenBegin, Enter, Resting
  <2>4. CASE ReadBegin(t)
    BY <2>4, ReadControl DEF ReadBegin, Enter, Resting
  <2>5. CASE WriteBegin(t)
    BY <2>5, WriteControl DEF WriteBegin, Enter, Resting
  <2>6. CASE Close(t) \/ BadPointer(t)
    BY <2>6 DEF Close, BadPointer, Stop, Control, Placed, Mutating
  <2> QED  BY <1>2, <2>1, <2>2, <2>3, <2>4, <2>5, <2>6 DEF SystemCall
<1>3. ASSUME NEW t \in Thread, Step(t)
      PROVE  Control'
  <2> USE DEF At
  <2> Where(call[t].op, pc[t])
    BY DEF Control, Placed
  <2>1. CASE FetchDir1(t)
    BY <2>1, GotoControl DEF FetchDir1, Where, Lookup, Resting
  <2>2. CASE FetchDir2(t)
    BY <2>2, GotoControl, ReturnControl DEF FetchDir2, Where, Lookup, Resting
  <2>3. CASE CreateAllocate(t)
    BY <2>3, GotoControl, ReturnControl DEF CreateAllocate, CreateFails, Where, Lookup
  <2>4. CASE RemoveHdr(t) \/ RemoveFree(t)
    BY <2>4, GotoControl DEF RemoveHdr, RemoveFree, Where, Lookup
  <2>5. CASE WriteHdr(t) \/ WriteDir1(t)
    BY <2>5, GotoControl DEF WriteHdr, WriteDir1, Where, Lookup, Resting
  <2>6. CASE WriteDir2(t) \/ WriteMap(t)
    BY <2>6, GotoControl, ReturnControl DEF WriteDir2, WriteMap, Where, Lookup
  <2>7. CASE OpenHdr(t)
    BY <2>7, GotoControl, ReturnControl DEF OpenHdr, Where, Lookup
  <2>8. CASE LoadDelete(t)
    BY <2>8, ReturnControl DEF LoadDelete
  <2>9. CASE ReadSector(t) \/ WriteSector(t)
    <3>1. CASE UNCHANGED <<pc, call, cont>>
      BY <3>1 DEF Control, Placed, Mutating
    <3> QED  BY <2>9, <3>1, ReturnControl DEF ReadSector, WriteSector, Transferred, In
  <2>10. CASE WriteFirst(t) \/ WriteLast(t)
    BY <2>10, GotoControl DEF WriteFirst, WriteLast, In, Where, Lookup, Resting
  <2>11. CASE Finish(t)
    BY <2>11, GotoControl DEF Finish, Where, Lookup, Resting
  <2> QED
    BY <1>3, <2>1, <2>2, <2>3, <2>4, <2>5, <2>6, <2>7, <2>8, <2>9, <2>10, <2>11
    DEF Step
<1>4. CASE Reboot
  BY <1>4, Constants
  DEF Reboot, Control, Placed, Where, Resting, Lookup, Mutating, Booted, Outside, Thread
<1> QED  BY <1>1, <1>2, <1>3, <1>4 DEF Next

-----------------------------------------------------------------------------
(* Types of the data structures.                                           *)

\* The sectors of the system are sectors of the disk.
LEMMA SystemSectors == System \subseteq Sector
BY Constants DEF System, Sector, FreeMapSector, DirectorySector

\* Two halves of directory tables make a directory table.
LEMMA JoinType ==
  ASSUME NEW a \in [Slot -> Entry], NEW b \in [Slot -> Entry]
  PROVE  Join(a, b) \in [Slot -> Entry]
<1>1. \A i \in Slot : [a[i] EXCEPT !.name = b[i].name] \in Entry
  BY DEF Entry
<1> QED  BY <1>1 DEF Join

\* What FetchFrom reads from a sector is a header.
LEMMA HeadersType ==
  ASSUME ImageType, NEW s \in Sector
  PROVE  Headers(s) \subseteq Header(Size)
BY DEF ImageType, Headers

\* The locals of no call have their types.
LEMMA NoLocalsType ==
  /\ NoLocals.dir \in [Slot -> Entry] /\ NoLocals.map \subseteq Sector
  /\ NoLocals.hdr \in AnyHeader /\ NoLocals.sector \in Sector
BY EmptyTableType, Constants DEF NoLocals, Locals, AnyHeader, Sector

-----------------------------------------------------------------------------
(* The OpenFile objects.                                                   *)

ObjectSet == [live: BOOLEAN, of: Name \cup {NoName}, hdr: AnyHeader,
              seekPosition: Nat]

\* The actions that change an OpenFile object or opfile, and those that change
\* the disk.
ObjectAction(t) ==
  \/ FetchDir2(t) \/ OpenHdr(t) \/ LoadDelete(t) \/ Close(t)
  \/ ReadSector(t) \/ WriteSector(t)
  \/ t = Main /\ (CopyDelete \/ PrintDelete)
ImageAction(t) ==
  WriteHdr(t) \/ WriteDir1(t) \/ WriteDir2(t) \/ WriteMap(t) \/ WriteSector(t)

\* The actions that may change the objects and the disk are those named.
LEMMA Actions ==
  ASSUME NEW t \in Thread, Acts(t)
  PROVE  /\ UNCHANGED objects \/ ObjectAction(t)
         /\ UNCHANGED image \/ ImageAction(t)
<1>1. CASE t = Main /\ Commands
  <2>1. CASE RemoveBegin \/ CopyBegin \/ CopyOpen \/ PrintBegin
    BY <2>1 DEF RemoveBegin, CopyBegin, CopyOpen, PrintBegin, Begin
  <2>2. CASE CopyWrite \/ PrintRead
    BY <2>2 DEF CopyWrite, PrintRead, WriteAt, ReadAt, Transfer
  <2>3. CASE CopyDelete \/ PrintDelete
    BY <1>1, <2>3 DEF CopyDelete, PrintDelete, Delete, ObjectAction
  <2> QED  BY <1>1, <2>1, <2>2, <2>3 DEF Commands
<1>2. CASE t \in Program /\ SystemCall(t)
  <2>1. CASE LoadBegin(t) \/ CreateBegin(t) \/ OpenBegin(t)
    BY <2>1 DEF LoadBegin, CreateBegin, OpenBegin, Begin
  <2>2. CASE ReadBegin(t) \/ WriteBegin(t)
    BY <2>2 DEF ReadBegin, WriteBegin, WriteAt, ReadAt, Transfer
  <2>3. CASE BadPointer(t)
    BY <2>3 DEF BadPointer, Stop
  <2>4. CASE Close(t)
    BY <2>4 DEF Close, ObjectAction
  <2> QED  BY <1>2, <2>1, <2>2, <2>3, <2>4 DEF SystemCall
<1>3. CASE Step(t)
  <2>1. CASE FetchDir1(t) \/ RemoveHdr(t) \/ RemoveFree(t) \/ Finish(t)
    BY <2>1 DEF FetchDir1, RemoveHdr, RemoveFree, Finish
  <2>2. CASE CreateAllocate(t)
    BY <2>2 DEF CreateAllocate, CreateFails
  <2>3. CASE WriteFirst(t) \/ WriteLast(t)
    BY <2>3 DEF WriteFirst, WriteLast
  <2>4. CASE WriteHdr(t) \/ WriteDir1(t) \/ WriteDir2(t) \/ WriteMap(t)
    BY <2>4 DEF WriteHdr, WriteDir1, WriteDir2, WriteMap, ImageAction
  <2>5. CASE FetchDir2(t) \/ OpenHdr(t) \/ LoadDelete(t)
    BY <2>5 DEF FetchDir2, OpenHdr, LoadDelete, ObjectAction, image
  <2>6. CASE ReadSector(t) \/ WriteSector(t)
    BY <2>6 DEF ReadSector, WriteSector, ObjectAction, ImageAction
  <2> QED  BY <1>3, <2>1, <2>2, <2>3, <2>4, <2>5, <2>6 DEF Step
<1> QED  BY <1>1, <1>2, <1>3 DEF Acts

\* Every step keeps the types of opfile and of the OpenFile objects.
LEMMA ObjectStep ==
  ASSUME ObjectType, ImageType, ThreadType, Control, Next
  PROVE  ObjectType'
<1> USE DEF ObjectType
<1>1. Freed \in ObjectSet
  BY DEF Freed, ObjectSet, AnyHeader
<1>2. CASE Reboot
  BY <1>1, <1>2 DEF Reboot, Pointer, ObjectSet
<1>3. ASSUME NEW t \in Thread, Acts(t)
      PROVE  ObjectType'
  <2>1. CASE UNCHANGED objects
    BY <2>1 DEF objects
  <2>2. CASE OpenHdr(t)
    <3>1. PICK h \in Headers(loc[t].sector), x \in Handle :
            /\ opfile' = x
            /\ file' = Reachable([file EXCEPT ![x] = NewOpenFile(call[t].name, h)], x)
      BY <2>2 DEF OpenHdr
    <3>2. NewOpenFile(call[t].name, h) \in ObjectSet
      <4>1. h \in Header(Size)
        BY HeadersType DEF ThreadType, LocalType
      <4> QED  BY <4>1 DEF NewOpenFile, ObjectSet, AnyHeader, Control, Placed
    <3>3. [file EXCEPT ![x] = NewOpenFile(call[t].name, h)] \in [Handle -> ObjectSet]
      BY <3>2 DEF ObjectSet
    <3>4. \A o \in [Handle -> ObjectSet] : Reachable(o, x) \in [Handle -> ObjectSet]
      BY <1>1 DEF Reachable
    <3> QED  BY <3>1, <3>3, <3>4 DEF Pointer, ObjectSet
  <2>3. CASE LoadDelete(t)
    BY <1>1, <2>3 DEF LoadDelete, ObjectSet
  <2>4. CASE Close(t)
    BY <1>1, <2>4 DEF Close, Reachable, Pointer, ObjectSet
  <2>5. CASE ReadSector(t) \/ WriteSector(t)
    <3>1. UNCHANGED opfile /\ io[t].h \in Handle /\ io[t].n \in Nat
      BY <2>5 DEF ReadSector, WriteSector, In, Live, ThreadType, LocalType
    <3>2. \/ UNCHANGED file
          \/ file' = [file EXCEPT ![io[t].h] = Advanced(file[io[t].h], io[t].n)]
      BY <2>5 DEF ReadSector, WriteSector, Transferred
    <3>3. Advanced(file[io[t].h], io[t].n) \in ObjectSet
      BY <3>1 DEF ObjectSet, Advanced
    <3>4. file \in [Handle -> ObjectSet]
      BY DEF ObjectSet
    <3>5. file' \in [Handle -> ObjectSet]
      BY <3>1, <3>2, <3>3, <3>4
    <3> QED  BY <3>1, <3>5 DEF ObjectSet
  <2>6. CASE CopyDelete \/ PrintDelete
    BY <1>1, <2>6 DEF CopyDelete, PrintDelete, Delete, ObjectSet
  <2>7. CASE FetchDir2(t)
    BY <2>7 DEF FetchDir2, Pointer
  <2> QED  BY <1>3, <2>1, <2>2, <2>3, <2>4, <2>5, <2>6, <2>7, Actions DEF ObjectAction
<1> QED  BY <1>2, <1>3, NextActs

\* A live object was already live and has kept its header, or Open has just
\* made it of a header it read, at an address no transfer in progress uses.
LEMMA LiveObjects ==
  ASSUME ObjectType, ThreadType, NEW t \in Thread, Acts(t),
         NEW x \in Handle, file'[x].live
  PROVE  \/ file[x].live /\ file'[x].hdr = file[x].hdr
         \/ /\ OpenHdr(t) /\ file'[x].hdr \in Headers(loc[t].sector)
            /\ \A u \in Thread : io[u].h # x
<1> USE DEF ObjectType
<1>1. ~Freed.live
  BY DEF Freed
<1>2. CASE UNCHANGED file
  BY <1>2
<1>3. CASE OpenHdr(t)
  <2>1. PICK h \in Headers(loc[t].sector), y \in Handle :
          /\ \A u \in Thread : io[u].h # y
          /\ file' = Reachable([file EXCEPT ![y] = NewOpenFile(call[t].name, h)], y)
    BY <1>3 DEF OpenHdr
  <2>2. CASE x = y
    BY <1>3, <2>1, <2>2 DEF Reachable, NewOpenFile
  <2>3. CASE x # y
    BY <1>1, <2>1, <2>3 DEF Reachable
  <2> QED  BY <2>2, <2>3
<1>4. CASE LoadDelete(t)
  BY <1>1, <1>4 DEF LoadDelete
<1>5. CASE Close(t)
  BY <1>1, <1>5 DEF Close, Reachable
<1>6. CASE ReadSector(t) \/ WriteSector(t)
  <2>1. \/ UNCHANGED file
        \/ file' = [file EXCEPT ![io[t].h] = Advanced(file[io[t].h], io[t].n)]
    BY <1>6 DEF ReadSector, WriteSector, Transferred
  <2> QED  BY <2>1, <1>2 DEF Advanced
<1>7. CASE CopyDelete \/ PrintDelete
  BY <1>1, <1>7 DEF CopyDelete, PrintDelete, Delete
<1>8. CASE FetchDir2(t)
  BY <1>8 DEF FetchDir2
<1> QED
  BY <1>2, <1>3, <1>4, <1>5, <1>6, <1>7, <1>8, Actions DEF ObjectAction, objects

-----------------------------------------------------------------------------
(* The types of the locals.                                                *)

\* What a step of thread t must keep for ThreadType, besides its own frame.
OwnType(t) ==
  /\ panic' \in {"none", "null", "wild"}
  /\ fd' \in [Thread -> Name \cup {NoName}]
  /\ LocalType(t)'

\* The return of a call keeps the types of its locals.
LEMMA ReturnType ==
  ASSUME ThreadType, NEW t \in Thread, NEW op, NEW ok, NEW data,
         Return(t, op, ok, data)
  PROVE  LocalType(t)'
<1>1. loc'[t] = NoLocals /\ io'[t] = NoIO
  BY DEF Return, ThreadType
<1> QED  BY <1>1, NoLocalsType DEF LocalType, NoIO, IO, Pointer

\* An assignment of a table, a bitmap, a header and a sector keeps the types
\* of the locals.
LEMMA LocType ==
  ASSUME ThreadType, NEW t \in Thread, UNCHANGED io,
         NEW d \in [Slot -> Entry], NEW m \in SUBSET Sector, NEW h \in AnyHeader,
         NEW s \in Sector, loc' = [loc EXCEPT ![t] = Locals(d, m, h, s)]
  PROVE  LocalType(t)'
BY DEF Locals, ThreadType, LocalType

\* An assignment of a pointer, a position and counts keeps the types of the
\* locals of a transfer.
LEMMA IOType ==
  ASSUME ThreadType, NEW t \in Thread,
         NEW h \in Pointer, NEW pos \in Nat, NEW n \in Nat, NEW i \in Nat, NEW buf,
         io' = [io EXCEPT ![t] = IO(h, pos, n, i, buf)],
         UNCHANGED loc \/ loc' = [loc EXCEPT ![t] = NoLocals]
  PROVE  LocalType(t)'
<1>1. loc'[t] = loc[t] \/ loc'[t] = NoLocals
  BY DEF ThreadType
<1>2. io'[t] = IO(h, pos, n, i, buf)
  BY DEF ThreadType
<1> QED  BY <1>1, <1>2, NoLocalsType DEF ThreadType, LocalType, IO

\* A transfer begins.
LEMMA TransferType ==
  ASSUME ObjectType, ThreadType, NEW t \in Thread, NEW c, NEW first, NEW buf,
         NEW next, Transfer(t, c, first, buf, next), c.size \in Int
  PROVE  OwnType(t)
<1> DEFINE pos == file[opfile].seekPosition
           n == Clip(file[opfile].hdr.numBytes, pos, c.size)
<1>1. UNCHANGED <<panic, fd, loc>> /\ Live(opfile)
  BY DEF Transfer
<1>2. pos \in Nat /\ n \in Nat
  BY <1>1, LiveHeader, ClipRange
<1>3. SectorOf(pos) \in Nat
  BY <1>2, DivNat, Constants DEF SectorOf
<1>4. UNCHANGED io \/ io' = [io EXCEPT ![t] = IO(opfile, pos, n, SectorOf(pos), buf)]
  BY DEF Transfer
<1>5. LocalType(t)'
  <2>1. CASE UNCHANGED io
    BY <1>1, <2>1 DEF ThreadType, LocalType
  <2>2. CASE io' = [io EXCEPT ![t] = IO(opfile, pos, n, SectorOf(pos), buf)]
    <3> HIDE DEF pos, n
    <3> QED  BY <1>1, <1>2, <1>3, <2>2, IOType DEF ObjectType
  <2> QED  BY <1>4, <2>1, <2>2
<1> QED  BY <1>1, <1>5 DEF OwnType, ThreadType

\* The start of Read and of Write keeps the types of the locals.
LEMMA ReadWriteType ==
  ASSUME ObjectType, ThreadType, NEW t \in Thread, NEW len \in Int, NEW from, NEW next,
         ReadAt(t, len, next) \/ WriteAt(t, len, from, next)
  PROVE  OwnType(t)
<1>1. \E c, first, buf : c.size = len /\ Transfer(t, c, first, buf, next)
  <2>1. [NoCall EXCEPT !.op = "Read", !.size = len].size = len
    BY DEF NoCall
  <2>2. [NoCall EXCEPT !.op = "Write", !.size = len, !.buf = from].size = len
    BY DEF NoCall
  <2> QED  BY <2>1, <2>2, Zenon DEF ReadAt, WriteAt
<1> QED  BY <1>1, TransferType

\* The chunk that Copy writes has an integer length.
LEMMA CopyLength ==
  ASSUME ObjectType, NEW left, left = file[opfile].hdr.numBytes - file[opfile].seekPosition,
         Live(opfile)
  PROVE  (IF left < TransferSize THEN left ELSE TransferSize) \in Int
BY LiveHeader, Constants

\* A step of a thread keeps the types of its own locals.
LEMMA OwnTypeStep ==
  ASSUME ImageType, ObjectType, ThreadType, Control, NEW t \in Thread, Acts(t)
  PROVE  OwnType(t)
<1>0. ASSUME UNCHANGED <<loc, io>>
      PROVE  LocalType(t)'
  BY <1>0 DEF ThreadType, LocalType
<1>1. CASE t = Main /\ Commands
  <2>1. CASE RemoveBegin \/ CopyOpen \/ PrintBegin
    BY <2>1, <1>0 DEF RemoveBegin, CopyOpen, PrintBegin, Begin, OwnType, ThreadType
  <2>2. CASE CopyBegin
    <3>1. PICK n \in Name : fd' = [fd EXCEPT ![Main] = n]
      BY <2>2 DEF CopyBegin
    <3>2. fd' \in [Thread -> Name \cup {NoName}]
      BY <3>1 DEF ThreadType
    <3> QED  BY <2>2, <3>2, <1>0 DEF CopyBegin, Begin, OwnType, ThreadType
  <2>3. CASE CopyWrite
    <3>1. PICK len, from : WriteAt(t, len, from, "copy") /\
                len = LET left == file[opfile].hdr.numBytes - file[opfile].seekPosition
                      IN  IF left < TransferSize THEN left ELSE TransferSize
      BY <1>1, <2>3 DEF CopyWrite
    <3>2. Live(opfile)
      BY <3>1 DEF WriteAt, Transfer
    <3>3. len \in Int
      BY <3>1, <3>2, CopyLength
    <3> QED  BY <3>1, <3>3, ReadWriteType
  <2>4. CASE PrintRead
    <3>1. PICK next : ReadAt(t, TransferSize, next)
      BY <1>1, <2>4 DEF PrintRead
    <3> QED  BY <3>1, ReadWriteType, Constants
  <2>5. CASE CopyDelete \/ PrintDelete
    BY <2>5, <1>0 DEF CopyDelete, PrintDelete, Delete, OwnType, ThreadType
  <2> QED  BY <1>1, <2>1, <2>2, <2>3, <2>4, <2>5 DEF Commands
<1>2. CASE t \in Program /\ SystemCall(t)
  <2>1. CASE LoadBegin(t) \/ CreateBegin(t) \/ OpenBegin(t)
    BY <2>1, <1>0 DEF LoadBegin, CreateBegin, OpenBegin, Begin, OwnType, ThreadType
  <2>2. CASE ReadBegin(t)
    BY <2>2, ReadWriteType, Constants DEF ReadBegin
  <2>3. CASE WriteBegin(t)
    BY <2>3, ReadWriteType, Constants DEF WriteBegin
  <2>4. CASE BadPointer(t)
    BY <2>4, <1>0 DEF BadPointer, Stop, OwnType, ThreadType
  <2>5. CASE Close(t)
    BY <2>5, <1>0 DEF Close, OwnType, ThreadType
  <2> QED  BY <1>2, <2>1, <2>2, <2>3, <2>4, <2>5 DEF SystemCall
<1>3. CASE Step(t)
  <2>1. CASE FetchDir1(t)
    <3>1. Join(directory, EmptyTable) \in [Slot -> Entry]
      BY JoinType, EmptyTableType DEF ImageType
    <3>2. {} \in SUBSET Sector /\ NoHeader \in AnyHeader /\ 0 \in Sector
      BY Constants DEF AnyHeader, Sector
    <3>3. LocalType(t)'
      BY <2>1, <3>1, <3>2, LocType DEF FetchDir1
    <3> QED  BY <2>1, <3>3 DEF FetchDir1, OwnType, ThreadType
  <2>2. CASE FetchDir2(t)
    <3> DEFINE d == Join(loc[t].dir, directory)
    <3>1. d \in [Slot -> Entry]
      BY JoinType DEF ImageType, ThreadType, LocalType
    <3>2. {} \in SUBSET Sector /\ NoHeader \in AnyHeader /\ 0 \in Sector
      BY Constants DEF AnyHeader, Sector
    <3>3. UNCHANGED panic /\ fd' \in [Thread -> Name \cup {NoName}]
      BY <2>2 DEF FetchDir2, ThreadType
    <3>4. \/ Return(t, call[t].op, FALSE, <<>>)
          \/ /\ UNCHANGED io
             /\ \E s \in {0} \cup {d[i].sector : i \in Slot} :
                  loc' = [loc EXCEPT ![t] = Locals(d, {}, NoHeader, s)]
      <4> HIDE DEF d
      <4> QED  BY <2>2 DEF FetchDir2, FindIndex, d
    <3>5. \A s \in {0} \cup {d[i].sector : i \in Slot} : s \in Sector
      <4> HIDE DEF d
      <4> QED  BY <3>1, <3>2 DEF Entry
    <3>6. LocalType(t)'
      <4> HIDE DEF d
      <4> QED  BY <3>1, <3>2, <3>4, <3>5, LocType, ReturnType
    <3> QED  BY <3>3, <3>6 DEF OwnType, ThreadType
  <2>3. CASE CreateAllocate(t)
    <3>1. UNCHANGED <<panic, fd>>
      BY <2>3 DEF CreateAllocate, CreateFails
    <3>2. CASE CreateFails(t)
      BY <3>1, <3>2, ReturnType DEF CreateFails, OwnType, ThreadType
    <3>3. CASE ~CreateFails(t)
      <4>0. PICK s \in FirstClear(freeMap), i \in AddIndex(loc[t].dir) :
              /\ UNCHANGED io /\ call[t].op = "Create"
              /\ \E f \in FirstFit(Mark(freeMap, s), NumDataSectors(call[t].size)) :
                   loc' = [loc EXCEPT ![t] =
                     Locals([loc[t].dir EXCEPT ![i] = [inUse |-> TRUE, sector |-> s,
                                                       name |-> call[t].name]],
                            Mark(freeMap, s) \cup Range(f),
                            [numBytes |-> call[t].size, dataSectors |-> f], s)]
        BY <2>3, <3>3 DEF CreateAllocate
      <4>1. PICK f \in FirstFit(Mark(freeMap, s), NumDataSectors(call[t].size)) :
              loc' = [loc EXCEPT ![t] =
                Locals([loc[t].dir EXCEPT ![i] = [inUse |-> TRUE, sector |-> s,
                                                  name |-> call[t].name]],
                       Mark(freeMap, s) \cup Range(f),
                       [numBytes |-> call[t].size, dataSectors |-> f], s)]
        BY <4>0
      <4>2. s \in Sector /\ i \in Slot
        BY DEF FirstClear, AddIndex
      <4>3. [loc[t].dir EXCEPT ![i] = [inUse |-> TRUE, sector |-> s,
                                       name |-> call[t].name]] \in [Slot -> Entry]
        BY <4>2 DEF ThreadType, LocalType, Entry, Control, Placed
      <4>4. f \in [1 .. NumDataSectors(call[t].size) -> Sector]
        BY DEF FirstFit
      <4>5. Mark(freeMap, s) \cup Range(f) \in SUBSET Sector
        BY <4>2, <4>4 DEF Mark, Range, ImageType
      <4>6. [numBytes |-> call[t].size, dataSectors |-> f] \in AnyHeader
        BY <4>0, <4>4 DEF Control, Placed, AnyHeader, Header
      <4>7. LocalType(t)'
        BY <4>0, <4>1, <4>2, <4>3, <4>5, <4>6, LocType
      <4> QED  BY <3>1, <4>7 DEF OwnType, ThreadType
    <3> QED  BY <3>2, <3>3
  <2>4. CASE RemoveHdr(t)
    <3>1. PICK h \in Headers(loc[t].sector) :
            loc' = [loc EXCEPT ![t] = Locals(loc[t].dir, {}, h, loc[t].sector)]
      BY <2>4 DEF RemoveHdr
    <3>2. /\ loc[t].dir \in [Slot -> Entry] /\ loc[t].sector \in Sector
          /\ h \in AnyHeader /\ {} \in SUBSET Sector
      BY HeadersType DEF ThreadType, LocalType, AnyHeader
    <3>3. LocalType(t)'
      BY <2>4, <3>1, <3>2, LocType DEF RemoveHdr
    <3> QED  BY <2>4, <3>3 DEF RemoveHdr, OwnType, ThreadType
  <2>5. CASE RemoveFree(t)
    <3>1. PICK i \in Slot :
            loc' = [loc EXCEPT ![t] =
              Locals([loc[t].dir EXCEPT ![i] = [@ EXCEPT !.inUse = FALSE]],
                     Deallocate(freeMap, loc[t].hdr) \ {loc[t].sector},
                     loc[t].hdr, loc[t].sector)]
      BY <2>5 DEF RemoveFree, FindIndex
    <3>2. /\ loc[t].dir \in [Slot -> Entry] /\ loc[t].sector \in Sector
          /\ loc[t].hdr \in AnyHeader
          /\ Deallocate(freeMap, loc[t].hdr) \ {loc[t].sector} \in SUBSET Sector
      BY DEF ThreadType, LocalType, ImageType, Deallocate
    <3>3. [loc[t].dir EXCEPT ![i] = [@ EXCEPT !.inUse = FALSE]] \in [Slot -> Entry]
      BY <3>2 DEF Entry
    <3>4. LocalType(t)'
      BY <2>5, <3>1, <3>2, <3>3, LocType DEF RemoveFree
    <3> QED  BY <2>5, <3>4 DEF RemoveFree, OwnType, ThreadType
  <2>6. CASE WriteHdr(t) \/ WriteDir1(t) \/ WriteDir2(t) \/ WriteMap(t)
    BY <2>6, <1>0, ReturnType DEF WriteHdr, WriteDir1, WriteDir2, WriteMap, OwnType, ThreadType
  <2>7. CASE OpenHdr(t)
    <3>1. panic' = panic /\ fd' \in [Thread -> Name \cup {NoName}]
      <4>1. /\ fd \in [Thread -> Name \cup {NoName}] /\ call[t].name \in Name \cup {NoName}
        BY DEF ThreadType, Control, Placed
      <4>2. panic' = panic /\ (fd' = [fd EXCEPT ![t] = call[t].name] \/ fd' = fd)
        BY <2>7 DEF OpenHdr
      <4> QED  BY <4>1, <4>2
    <3>2. PICK x \in Handle :
            \/ Return(t, "Open", TRUE, <<>>)
            \/ /\ loc' = [loc EXCEPT ![t] = NoLocals]
               /\ io' = [io EXCEPT ![t] = IO(x, 0, 0, 0, <<>>)]
      BY <2>7 DEF OpenHdr
    <3>3. x \in Pointer
      BY DEF Pointer
    <3>4. LocalType(t)'
      BY <3>2, <3>3, IOType, ReturnType
    <3> QED  BY <3>1, <3>4 DEF OwnType, ThreadType
  <2>8. CASE LoadDelete(t)
    BY <2>8, ReturnType DEF LoadDelete, OwnType, ThreadType
  <2>9. CASE ReadSector(t) \/ WriteSector(t)
    <3>1. \/ \E op, data : Return(t, op, TRUE, data)
          \/ /\ UNCHANGED loc
             /\ \E buf : io' = [io EXCEPT ![t] =
                                  IO(io[t].h, io[t].pos, io[t].n, io[t].i + 1, buf)]
      BY <2>9 DEF ReadSector, WriteSector, Transferred
    <3>2. io[t].h \in Pointer /\ io[t].pos \in Nat /\ io[t].n \in Nat /\ io[t].i + 1 \in Nat
      BY DEF ThreadType, LocalType
    <3>3. LocalType(t)'
      BY <3>1, <3>2, IOType, ReturnType
    <3> QED  BY <2>9, <3>3 DEF ReadSector, WriteSector, OwnType, ThreadType
  <2>10. CASE WriteFirst(t) \/ WriteLast(t)
    <3>1. /\ UNCHANGED loc
          /\ \E buf : io' = [io EXCEPT ![t] =
                               IO(io[t].h, io[t].pos, io[t].n, io[t].i, buf)]
      BY <2>10 DEF WriteFirst, WriteLast
    <3>2. io[t].h \in Pointer /\ io[t].pos \in Nat /\ io[t].n \in Nat /\ io[t].i \in Nat
      BY DEF ThreadType, LocalType
    <3>3. LocalType(t)'
      BY <3>1, <3>2, IOType
    <3> QED  BY <2>10, <3>3 DEF WriteFirst, WriteLast, OwnType, ThreadType
  <2>11. CASE Finish(t)
    BY <2>11, <1>0 DEF Finish, OwnType, ThreadType
  <2> QED
    BY <1>3, <2>1, <2>2, <2>3, <2>4, <2>5, <2>6, <2>7, <2>8, <2>9, <2>10, <2>11
    DEF Step
<1> QED  BY <1>1, <1>2, <1>3 DEF Acts

\* Every step keeps the types of the locals of all threads.
LEMMA ThreadStep ==
  ASSUME ImageType, ObjectType, ThreadType, Control, Control', Next
  PROVE  ThreadType'
<1>1. CASE Reboot
  BY <1>1, Constants
  DEF Reboot, ThreadType, LocalType, Booted, Label
<1>2. ASSUME NEW t \in Thread, Acts(t)
      PROVE  ThreadType'
  <2>1. Frame(t)
    BY <1>2, StepFrame
  <2>2. OwnType(t)
    BY <1>2, OwnTypeStep
  <2>3. \A u \in Thread : LocalType(u)'
    BY <2>1, <2>2 DEF Frame, OwnType, ThreadType, LocalType
  <2>4. \A u \in Thread : pc'[u] \in Label
    BY DEF Control, Placed, Where, Resting, Lookup, Label
  <2>5. pc' \in [Thread -> Label]
    BY <2>1, <2>4 DEF Frame
  <2> QED  BY <2>1, <2>2, <2>3, <2>5 DEF Frame, OwnType, ThreadType
<1> QED  BY <1>1, <1>2, NextActs

-----------------------------------------------------------------------------
(* Transfers.                                                              *)

\* What WriteAt reads into its buffer are bytes of a sector of the file.
LEMMA FillType ==
  ASSUME ImageType, ObjectType, ThreadType, NEW t \in Thread, Transferring(t),
         pc[t] \in {"writeFirst", "writeLast"}, Live(io[t].h),
         NEW i \in Nat, i <= LastSector(io[t])
  PROVE  Fill(io[t], i) \in [SectorOf(io[t].pos) * SectorSize ..
                       (LastSector(io[t]) + 1) * SectorSize - 1 -> AnyByte]
<1> DEFINE l == io[t]
           h == file[l.h].hdr
           b == disk[ByteToSector(h, i * SectorSize)].data
           D == SectorOf(l.pos) * SectorSize .. (LastSector(l) + 1) * SectorSize - 1
<1>1. l.buf \in [D -> AnyByte] /\ l.n > 0 /\ l.pos + l.n <= h.numBytes
  BY DEF Transferring
<1>2. l.pos \in Nat /\ l.n \in Nat /\ h \in AnyHeader
  BY LiveHeader DEF ThreadType, LocalType
<1>3. ByteToSector(h, i * SectorSize) \in Sector
  <2> HIDE DEF h
  <2> QED  BY <1>1, <1>2, InFile DEF LastSector
<1>4. b \in [0 .. SectorSize - 1 -> AnyByte]
  BY <1>3 DEF ImageType
<1>5. \A o \in D : o \in Nat
  <2>1. SectorOf(l.pos) \in Nat /\ SectorSize \in Nat
    BY <1>2, DivNat, Constants DEF SectorOf
  <2>2. SectorOf(l.pos) * SectorSize \in Nat
    BY <2>1
  <2>3. LastSector(l) \in Int
    BY <1>2, Constants DEF LastSector, SectorOf
  <2>4. (LastSector(l) + 1) * SectorSize - 1 \in Int
    BY <2>1, <2>3
  <2> QED  BY <2>2, <2>4
<1>6. \A o \in D : b[o % SectorSize] \in AnyByte
  <2> HIDE DEF b, D
  <2> QED  BY <1>4, <1>5, ModRange, Constants
<1>7. Fill(l, i) = [o \in D |-> IF SectorOf(o) = i /\ o < h.numBytes
                                THEN b[o % SectorSize] ELSE l.buf[o]]
  BY <1>1 DEF Fill
<1> HIDE DEF l, h, b, D
<1>8. Fill(l, i) \in [D -> AnyByte]
  BY <1>1, <1>6, <1>7
<1> QED  BY <1>8 DEF l, D

\* A transfer of another thread keeps its file.
LEMMA OtherTransfer ==
  ASSUME ObjectType, ThreadType, NEW t \in Thread, Acts(t),
         NEW u \in Thread, u # t, Transferring(u)
  PROVE  Transferring(u)'
<1>1. pc'[u] = pc[u] /\ call'[u] = call[u] /\ io'[u] = io[u]
  BY StepFrame DEF Frame
<1>2. Live(io[u].h)' => Live(io[u].h) /\ file'[io[u].h].hdr = file[io[u].h].hdr
  BY <1>1, LiveObjects DEF Live
<1>3. LastSector(io[u])' = LastSector(io[u]) /\ SectorOf(io[u].pos)' = SectorOf(io[u].pos)
  BY <1>1 DEF LastSector, SectorOf
<1> QED  BY <1>1, <1>2, <1>3 DEF Transferring

\* A transfer starts within the file.
LEMMA TransferStart ==
  ASSUME ObjectType, ThreadType, NEW t \in Thread, NEW c, NEW first, NEW buf,
         NEW next \in Resting, Transfer(t, c, first, buf, next), c.size \in Int,
         first = "read" \/
           /\ c.buf \in [0 .. c.size - 1 -> Byte]
           /\ buf = [o \in SectorOf(file[opfile].seekPosition) * SectorSize ..
                       (SectorOf(file[opfile].seekPosition +
                          Clip(file[opfile].hdr.numBytes, file[opfile].seekPosition,
                               c.size) - 1) + 1) * SectorSize - 1 |-> 0]
  PROVE  Transferring(t)'
<1> DEFINE pos == file[opfile].seekPosition
           len == file[opfile].hdr.numBytes
           n == Clip(len, pos, c.size)
<1>1. Live(opfile) /\ UNCHANGED objects
  BY DEF Transfer
<1>2. pos \in Nat /\ len \in Int /\ opfile \in Handle
  BY <1>1, LiveHeader
<1>3. /\ n \in Nat
      /\ n > 0 => pos + n <= len /\ n <= c.size
  <2> HIDE DEF pos, len
  <2> QED  BY <1>2, ClipRange
<1>4. CASE n = 0 /\ Goto(t, next)
  BY <1>4 DEF Goto, ThreadType, Resting, Transferring
<1>5. CASE /\ n > 0 /\ Goto(t, first) /\ call' = [call EXCEPT ![t] = c]
           /\ io' = [io EXCEPT ![t] = IO(opfile, pos, n, SectorOf(pos), buf)]
  <2>1. /\ pc'[t] = first /\ call'[t] = c
        /\ io'[t] = IO(opfile, pos, n, SectorOf(pos), buf)
    BY <1>5 DEF Goto, ThreadType
  <2>2. /\ io'[t].h = opfile /\ io'[t].pos = pos /\ io'[t].n = n
        /\ io'[t].i = SectorOf(pos) /\ io'[t].buf = buf
    BY <2>1 DEF IO
  <2>3. LastSector(io[t])' = SectorOf(pos + n - 1) /\ SectorOf(io[t].pos)' = SectorOf(pos)
    BY <2>2 DEF LastSector, SectorOf
  <2>4. SectorOf(pos) <= SectorOf(pos + n - 1)
    <3> HIDE DEF pos, n
    <3>1. pos + n - 1 \in Nat /\ pos <= pos + n - 1
      BY <1>2, <1>3, <1>5
    <3> QED  BY <1>2, <3>1, DivMono, Constants DEF SectorOf
  <2>5. Live(opfile)' /\ file'[opfile].hdr.numBytes = len
    BY <1>1 DEF Live, objects
  <2>6. first # "read" =>
          /\ buf \in [SectorOf(pos) * SectorSize ..
                       (SectorOf(pos + n - 1) + 1) * SectorSize - 1 -> AnyByte]
          /\ c.buf \in [0 .. c.size - 1 -> Byte]
    <3> DEFINE D == SectorOf(pos) * SectorSize ..
                      (SectorOf(pos + n - 1) + 1) * SectorSize - 1
    <3>1. first # "read" => buf = [o \in D |-> 0] /\ c.buf \in [0 .. c.size - 1 -> Byte]
      OBVIOUS
    <3>2. 0 \in AnyByte
      BY Constants DEF AnyByte
    <3> HIDE DEF D
    <3>3. first # "read" => buf \in [D -> AnyByte]
      BY <3>1, <3>2
    <3> QED  BY <3>1, <3>3 DEF D
  <2> HIDE DEF pos, n, len
  <2>7. /\ io'[t].n > 0 /\ SectorOf(io[t].pos)' <= io'[t].i
        /\ io'[t].i <= LastSector(io[t])'
        /\ io'[t].pos + io'[t].n <= file'[io'[t].h].hdr.numBytes
    <3>1. SectorOf(pos) \in Nat
      BY <1>2, DivNat, Constants DEF SectorOf
    <3>2. io'[t].n > 0
      BY <1>5, <2>2
    <3>3. SectorOf(io[t].pos)' <= io'[t].i
      BY <2>2, <2>3, <3>1
    <3>4. io'[t].i <= LastSector(io[t])'
      BY <2>2, <2>3, <2>4
    <3>5. io'[t].pos + io'[t].n <= file'[io'[t].h].hdr.numBytes
      BY <1>3, <1>5, <2>2, <2>5
    <3> QED  BY <3>2, <3>3, <3>4, <3>5
  <2>8. pc'[t] # "read" =>
          /\ io'[t].buf \in [SectorOf(io[t].pos)' * SectorSize ..
                       (LastSector(io[t])' + 1) * SectorSize - 1 -> AnyByte]
          /\ call'[t].buf \in [0 .. call'[t].size - 1 -> Byte]
          /\ call'[t].size \in Int /\ io'[t].n <= call'[t].size
    BY <1>3, <1>5, <2>1, <2>2, <2>3, <2>6
  <2> QED  BY <2>7, <2>8 DEF Transferring
<1> QED  BY <1>3, <1>4, <1>5 DEF Transfer

\* A Read starts within the file.
LEMMA ReadStart ==
  ASSUME ObjectType, ThreadType, NEW t \in Thread, NEW len \in Int,
         NEW next \in Resting, ReadAt(t, len, next)
  PROVE  Transferring(t)'
<1>1. \E buf : Transfer(t, [NoCall EXCEPT !.op = "Read", !.size = len], "read", buf, next)
  BY DEF ReadAt
<1>2. [NoCall EXCEPT !.op = "Read", !.size = len].size = len
  BY DEF NoCall
<1> QED  BY <1>1, <1>2, TransferStart

\* A Write starts within the file and within its buffers.
LEMMA WriteStart ==
  ASSUME ObjectType, ThreadType, NEW t \in Thread, NEW len \in Int,
         NEW from \in [0 .. len - 1 -> Byte], NEW next \in Resting,
         WriteAt(t, len, from, next)
  PROVE  Transferring(t)'
<1> DEFINE c == [NoCall EXCEPT !.op = "Write", !.size = len, !.buf = from]
<1>1. c.size = len /\ c.buf = from
  BY DEF NoCall
<1>2. \E first :
        Transfer(t, c, first,
          [o \in SectorOf(file[opfile].seekPosition) * SectorSize ..
                       (SectorOf(file[opfile].seekPosition +
                          Clip(file[opfile].hdr.numBytes, file[opfile].seekPosition,
                               c.size) - 1) + 1) * SectorSize - 1 |-> 0],
          next)
  BY <1>1 DEF WriteAt
<1> HIDE DEF c
<1> QED  BY <1>1, <1>2, TransferStart

\* The steps of a transfer keep it within the file and its buffer.
LEMMA TransferringStep ==
  ASSUME ImageType, ObjectType, ThreadType, Control, Control', Next,
         \A u \in Thread : Transferring(u)
  PROVE  \A u \in Thread : Transferring(u)'
<1>1. CASE Reboot
  BY <1>1 DEF Reboot, Booted, Transferring
<1>2. ASSUME NEW t \in Thread, Acts(t)
      PROVE  Transferring(t)'
  <2>0. ASSUME pc'[t] \notin {"read", "writeFirst", "writeLast", "write"}
        PROVE  Transferring(t)'
    BY <2>0 DEF Transferring
  <2>1. CASE t = Main /\ Commands
    <3>1. CASE CopyWrite
      <4> DEFINE left == file[opfile].hdr.numBytes - file[opfile].seekPosition
                 len == IF left < TransferSize THEN left ELSE TransferSize
      <4>1. PICK from \in [0 .. len - 1 -> Byte] : WriteAt(t, len, from, "copy")
        BY <2>1, <3>1 DEF CopyWrite
      <4>2. Live(opfile)
        BY <4>1 DEF WriteAt, Transfer
      <4>3. len \in Int
        BY <4>2, CopyLength
      <4> HIDE DEF len
      <4> QED  BY <4>1, <4>3, WriteStart DEF Resting
    <3>2. CASE PrintRead
      <4>1. PICK next \in Resting : ReadAt(t, TransferSize, next)
        BY <2>1, <3>2 DEF PrintRead, Resting
      <4> QED  BY <4>1, ReadStart, Constants
    <3>3. CASE CopyDelete \/ PrintDelete
      BY <3>3, <2>0, <2>1 DEF CopyDelete, PrintDelete, Delete, Goto, ThreadType
    <3>4. CASE RemoveBegin \/ CopyBegin \/ CopyOpen \/ PrintBegin
      BY <3>4, <2>0, <2>1
      DEF RemoveBegin, CopyBegin, CopyOpen, PrintBegin, Begin, ThreadType
    <3> QED  BY <2>1, <3>1, <3>2, <3>3, <3>4 DEF Commands
  <2>2. CASE t \in Program /\ SystemCall(t)
    <3>1. CASE LoadBegin(t) \/ CreateBegin(t) \/ OpenBegin(t)
      BY <3>1, <2>0 DEF LoadBegin, CreateBegin, OpenBegin, Begin, ThreadType
    <3>2. CASE ReadBegin(t)
      BY <3>2, ReadStart, Constants DEF ReadBegin, Resting
    <3>3. CASE WriteBegin(t)
      BY <3>3, WriteStart, Constants DEF WriteBegin, Resting
    <3>4. CASE BadPointer(t)
      BY <3>4 DEF BadPointer, Stop, objects, Transferring, LastSector, SectorOf, Live
    <3>5. CASE Close(t)
      BY <3>5, <2>0 DEF Close, Enter
    <3> QED  BY <2>2, <3>1, <3>2, <3>3, <3>4, <3>5 DEF SystemCall
  <2>3. CASE Step(t)
    <3>0. ASSUME NEW op, NEW ok, NEW data, Return(t, op, ok, data)
          PROVE  Transferring(t)'
      <4>1. call'[t].op = "none"
        BY <3>0 DEF Return, NoCall, ThreadType
      <4> QED  BY <4>1, <2>0 DEF Control, Placed, Where, Resting, Lookup
    <3>1. CASE FetchDir1(t) \/ FetchDir2(t)
      BY <3>1, <3>0, <2>0 DEF FetchDir1, FetchDir2, Goto, ThreadType
    <3>2. CASE CreateAllocate(t)
      BY <3>2, <3>0, <2>0 DEF CreateAllocate, CreateFails, Goto, ThreadType
    <3>3. CASE RemoveHdr(t) \/ RemoveFree(t) \/ Finish(t)
      BY <3>3, <2>0 DEF RemoveHdr, RemoveFree, Finish, Goto, ThreadType
    <3>4. CASE WriteHdr(t) \/ WriteDir1(t) \/ WriteDir2(t) \/ WriteMap(t)
      BY <3>4, <3>0, <2>0 DEF WriteHdr, WriteDir1, WriteDir2, WriteMap, Goto, ThreadType
    <3>5. CASE OpenHdr(t) \/ LoadDelete(t)
      BY <3>5, <3>0, <2>0 DEF OpenHdr, LoadDelete, Goto, ThreadType
    <3>6. CASE ReadSector(t) \/ WriteSector(t)
      <4> DEFINE l == io[t]
      <4>1. CASE \E op, data : Return(t, op, TRUE, data)
        BY <4>1, <3>0
      <4>2. CASE /\ l.i < LastSector(l) /\ UNCHANGED <<file, pc, call>>
                 /\ \E buf : /\ io' = [io EXCEPT ![t] = IO(l.h, l.pos, l.n, l.i + 1, buf)]
                             /\ pc[t] # "read" => buf = l.buf
        <5>1. /\ io'[t].h = l.h /\ io'[t].pos = l.pos /\ io'[t].n = l.n
              /\ io'[t].i = l.i + 1 /\ (pc[t] # "read" => io'[t].buf = l.buf)
          BY <4>2 DEF IO, ThreadType
        <5>2. LastSector(l)' = LastSector(l) /\ SectorOf(l.pos)' = SectorOf(l.pos)
          BY <5>1 DEF LastSector, SectorOf
        <5>3. l.i \in Nat /\ LastSector(l) \in Int /\ SectorOf(l.pos) \in Int
          BY Constants DEF ThreadType, LocalType, LastSector, SectorOf
        <5>4. Transferring(t) /\ pc[t] \in {"read", "write"}
          BY <3>6 DEF ReadSector, WriteSector, In, At
        <5>5. /\ l.n > 0 /\ SectorOf(l.pos) <= l.i + 1 /\ l.i + 1 <= LastSector(l)
              /\ Live(l.h) => l.pos + l.n <= file[l.h].hdr.numBytes
          <6>1. /\ l.n > 0 /\ SectorOf(l.pos) <= l.i
                /\ Live(l.h) => l.pos + l.n <= file[l.h].hdr.numBytes
            BY <5>4 DEF Transferring
          <6>2. SectorOf(l.pos) <= l.i + 1
            BY <6>1, <5>3
          <6>3. l.i + 1 <= LastSector(l)
            BY <4>2, <5>3
          <6> QED  BY <6>1, <6>2, <6>3
        <5>6. pc[t] = "write" =>
                /\ l.buf \in [SectorOf(l.pos) * SectorSize ..
                             (LastSector(l) + 1) * SectorSize - 1 -> AnyByte]
                /\ call[t].buf \in [0 .. call[t].size - 1 -> Byte]
                /\ call[t].size \in Int /\ l.n <= call[t].size
          BY <5>4 DEF Transferring
        <5>7. Live(l.h)' = Live(l.h) /\ file'[l.h] = file[l.h] /\ UNCHANGED <<pc, call>>
          BY <4>2, <5>1 DEF Live
        <5>8. /\ io'[t].n > 0 /\ SectorOf(io[t].pos)' <= io'[t].i
              /\ io'[t].i <= LastSector(io[t])'
              /\ Live(io[t].h)' =>
                   io'[t].pos + io'[t].n <= file'[io'[t].h].hdr.numBytes
          BY <5>1, <5>2, <5>5, <5>7
        <5>9. pc'[t] # "read" =>
                /\ io'[t].buf \in [SectorOf(io[t].pos)' * SectorSize ..
                             (LastSector(io[t])' + 1) * SectorSize - 1 -> AnyByte]
                /\ call'[t].buf \in [0 .. call'[t].size - 1 -> Byte]
                /\ call'[t].size \in Int /\ io'[t].n <= call'[t].size
          BY <5>1, <5>2, <5>4, <5>6, <5>7
        <5> QED  BY <5>8, <5>9 DEF Transferring
      <4>3. \/ \E op, data : Return(t, op, TRUE, data)
            \/ /\ l.i < LastSector(l) /\ UNCHANGED <<file, pc, call>>
               /\ \E buf : /\ io' = [io EXCEPT ![t] = IO(l.h, l.pos, l.n, l.i + 1, buf)]
                           /\ pc[t] # "read" => buf = l.buf
        BY <3>6 DEF ReadSector, WriteSector, In, At, Transferred
      <4> QED  BY <4>1, <4>2, <4>3
    <3>7. CASE WriteFirst(t) \/ WriteLast(t)
      <4> DEFINE l == io[t]
      <4>1. Transferring(t) /\ pc[t] \in {"writeFirst", "writeLast"} /\ Live(l.h)
        BY <3>7 DEF WriteFirst, WriteLast, In, At
      <4>2. l.pos \in Nat /\ l.n \in Nat /\ l.i \in Nat /\ l.n > 0
            /\ l.i <= LastSector(l)
        BY <4>1 DEF ThreadType, LocalType, Transferring
      <4>3. l.pos + l.n - 1 \in Nat
        BY <4>2
      <4>4. LastSector(l) \in Nat /\ LastSector(l) <= LastSector(l)
        BY <4>3, DivNat, Constants DEF LastSector, SectorOf
      <4>5. PICK i \in {l.i, LastSector(l)} :
              io' = [io EXCEPT ![t] = IO(l.h, l.pos, l.n, l.i, Fill(l, i))]
        BY <3>7 DEF WriteFirst, WriteLast
      <4>6. Fill(l, i) \in [SectorOf(l.pos) * SectorSize ..
                       (LastSector(l) + 1) * SectorSize - 1 -> AnyByte]
        BY <4>1, <4>2, <4>4, FillType
      <4>7. /\ io'[t].h = l.h /\ io'[t].pos = l.pos /\ io'[t].n = l.n
            /\ io'[t].i = l.i /\ io'[t].buf = Fill(l, i)
        BY <4>5 DEF IO, ThreadType
      <4>8. LastSector(l)' = LastSector(l) /\ SectorOf(l.pos)' = SectorOf(l.pos)
        BY <4>7 DEF LastSector, SectorOf
      <4>9. UNCHANGED <<file, call>>
        BY <3>7 DEF WriteFirst, WriteLast, objects
      <4> QED  BY <4>1, <4>6, <4>7, <4>8, <4>9 DEF Transferring, Live
    <3> QED
      BY <2>3, <3>1, <3>2, <3>3, <3>4, <3>5, <3>6, <3>7 DEF Step
  <2> QED  BY <1>2, <2>1, <2>2, <2>3 DEF Acts
<1> QED  BY <1>1, <1>2, OtherTransfer, NextActs

-----------------------------------------------------------------------------
(* Who acts when.                                                          *)

\* A thread that is about to write the disk does nothing else.
LEMMA WriteActs ==
  ASSUME NEW t \in Thread, Acts(t),
         pc[t] \in {"writeHdr", "writeDir1", "writeDir2", "writeMap"}
  PROVE  ImageAction(t)
<1>1. CASE t = Main /\ Commands
  BY <1>1 DEF Commands, RemoveBegin, CopyBegin, CopyOpen, CopyWrite, CopyDelete,
    PrintBegin, PrintRead, PrintDelete, Delete, Enter, At
<1>2. CASE SystemCall(t)
  BY <1>2 DEF SystemCall, LoadBegin, CreateBegin, OpenBegin, ReadBegin, WriteBegin,
    Close, BadPointer, Enter
<1>3. CASE Step(t)
  BY <1>3 DEF Step, FetchDir1, FetchDir2, CreateAllocate, RemoveHdr, RemoveFree,
    OpenHdr, LoadDelete, ReadSector, WriteFirst, WriteLast, Finish, At, In, ImageAction
<1> QED  BY <1>1, <1>2, <1>3 DEF Acts

\* While main is booting or in Remove it opens no file.
LEMMA RemoveActs ==
  ASSUME ThreadType, Control, Acts(Main), pc'[Main] = "boot" \/ call'[Main].op = "Remove"
  PROVE  (pc[Main] = "boot" \/ call[Main].op = "Remove") /\ ~OpenHdr(Main)
<1> Main \in Thread /\ Main \notin Program
  BY Constants DEF Thread
<1>0. ASSUME NEW op, NEW ok, NEW data, Return(Main, op, ok, data)
      PROVE  FALSE
  <2>1. call'[Main].op = "none"
    BY <1>0 DEF Return, ThreadType, NoCall
  <2>2. pc'[Main] # "boot"
    BY <1>0 DEF Return, Goto, ThreadType, Control, Placed
  <2> QED  BY <2>1, <2>2
<1>1. CASE Commands
  <2>1. ASSUME NEW op, NEW n, NEW size, NEW next, NEW fail, op # "Remove",
               Begin(Main, op, n, size, next, fail)
        PROVE  FALSE
    <3>1. pc'[Main] = "fetchDir1" /\ call'[Main].op = op
      BY <2>1 DEF Begin, ThreadType, NoCall
    <3> QED  BY <2>1, <3>1
  <2>2. ASSUME NEW c, NEW first, NEW buf, NEW next, Transfer(Main, c, first, buf, next),
               c.op # "Remove", first # "boot", next # "boot", pc[Main] \in {"copy", "print"}
        PROVE  FALSE
    <3>1. call[Main].op # "Remove"
      BY <2>2 DEF Control, Placed, Where, Lookup
    <3>2. pc'[Main] # "boot" /\ call'[Main].op # "Remove"
      BY <2>2, <3>1 DEF Transfer, ThreadType, Goto
    <3> QED  BY <3>2
  <2>3. CASE CopyBegin \/ CopyOpen \/ PrintBegin
    BY <2>3, <2>1 DEF CopyBegin, CopyOpen, PrintBegin
  <2>4. CASE RemoveBegin
    BY <2>4 DEF RemoveBegin, Enter, OpenHdr, At
  <2>6. CASE CopyWrite
    <3>1. PICK len, from : WriteAt(Main, len, from, "copy") /\ pc[Main] = "copy"
      BY <2>6 DEF CopyWrite, Enter
    <3>2. [NoCall EXCEPT !.op = "Write", !.size = len, !.buf = from].op # "Remove"
      BY DEF NoCall
    <3> QED  BY <3>1, <3>2, <2>2 DEF WriteAt
  <2>7. CASE PrintRead
    <3>1. PICK next \in {"close", "print"} :
            ReadAt(Main, TransferSize, next) /\ pc[Main] = "print"
      BY <2>7 DEF PrintRead, Enter
    <3>2. [NoCall EXCEPT !.op = "Read", !.size = TransferSize].op # "Remove"
      BY DEF NoCall
    <3> QED  BY <3>1, <3>2, <2>2 DEF ReadAt
  <2>5. CASE CopyDelete \/ PrintDelete
    BY <2>5 DEF CopyDelete, PrintDelete, Delete, ThreadType, Goto, OpenHdr, At
  <2> QED  BY <1>1, <2>3, <2>4, <2>5, <2>6, <2>7 DEF Commands
<1>2. CASE Step(Main)
  <2>1. CASE FetchDir1(Main) \/ FetchDir2(Main)
    BY <2>1, <1>0 DEF FetchDir1, FetchDir2, Goto, ThreadType, OpenHdr, At
  <2>2. CASE CreateAllocate(Main)
    BY <2>2, <1>0 DEF CreateAllocate, CreateFails, Goto, ThreadType, OpenHdr, At
  <2>3. CASE RemoveHdr(Main) \/ RemoveFree(Main)
    BY <2>3 DEF RemoveHdr, RemoveFree, OpenHdr, At
  <2>4. CASE WriteHdr(Main) \/ WriteDir1(Main) \/ WriteDir2(Main) \/ WriteMap(Main)
    BY <2>4, <1>0 DEF WriteHdr, WriteDir1, WriteDir2, WriteMap, Goto, ThreadType, OpenHdr, At
  <2>5. CASE OpenHdr(Main) \/ LoadDelete(Main)
    BY <2>5, <1>0 DEF OpenHdr, LoadDelete, Goto, ThreadType
  <2>6. CASE ReadSector(Main) \/ WriteSector(Main)
    BY <2>6, <1>0 DEF ReadSector, WriteSector, Transferred, OpenHdr, At, In
  <2>7. CASE WriteFirst(Main) \/ WriteLast(Main)
    BY <2>7 DEF WriteFirst, WriteLast, OpenHdr, At, In, Goto, ThreadType
  <2>8. CASE Finish(Main)
    BY <2>8 DEF Finish, Goto, ThreadType, OpenHdr, At
  <2> QED
    BY <1>2, <2>1, <2>2, <2>3, <2>4, <2>5, <2>6, <2>7, <2>8 DEF Step
<1> QED  BY <1>1, <1>2 DEF Acts

-----------------------------------------------------------------------------
(* The disk.                                                               *)

\* What becomes of one entry when two halves are joined.
LEMMA JoinEntry ==
  ASSUME NEW a \in [Slot -> Entry], NEW b \in [Slot -> Entry], NEW i \in Slot
  PROVE  /\ a[i] = b[i] => Join(a, b)[i] = a[i]
         /\ i <= Straddle => /\ Join(a, b)[i].inUse = a[i].inUse
                             /\ Join(a, b)[i].sector = a[i].sector
         /\ i > Straddle => Join(a, b)[i] = b[i]
<1>1. a[i] \in Entry /\ b[i] \in Entry /\ i \in Int /\ Straddle \in Int
  BY Constants DEF Slot
<1>2. [a[i] EXCEPT !.name = a[i].name] = a[i]
  BY <1>1 DEF Entry
<1>3. /\ [a[i] EXCEPT !.name = b[i].name].inUse = a[i].inUse
      /\ [a[i] EXCEPT !.name = b[i].name].sector = a[i].sector
  BY <1>1 DEF Entry
<1> QED  BY <1>1, <1>2, <1>3 DEF Join

-----------------------------------------------------------------------------
(* The image.                                                              *)

\* The sector a step of a Write puts together holds bytes.
LEMMA BlockType ==
  ASSUME ImageType, ThreadType, NEW t \in Thread, Transferring(t), pc[t] = "write"
  PROVE  [k \in 0 .. SectorSize - 1 |->
            LET o == io[t].i * SectorSize + k IN
            IF o \in io[t].pos .. io[t].pos + io[t].n - 1
            THEN call[t].buf[o - io[t].pos] ELSE io[t].buf[o]]
         \in [0 .. SectorSize - 1 -> AnyByte]
<1> DEFINE l == io[t]
           a == SectorOf(l.pos)
           z == LastSector(l)
<1>1. /\ l.pos \in Nat /\ l.n \in Nat /\ l.i \in Nat
      /\ l.n > 0 /\ a <= l.i /\ l.i <= z
      /\ l.buf \in [a * SectorSize .. (z + 1) * SectorSize - 1 -> AnyByte]
      /\ call[t].buf \in [0 .. call[t].size - 1 -> Byte]
      /\ call[t].size \in Int /\ l.n <= call[t].size
  BY DEF ThreadType, LocalType, Transferring
<1>2. SectorSize \in Nat \ {0}
  BY Constants
<1>3. a \in Nat /\ z \in Nat
  <2>1. l.pos \in Nat /\ l.pos + l.n - 1 \in Nat
    BY <1>1
  <2> QED  BY <1>2, <2>1, DivNat DEF SectorOf, LastSector
<1> HIDE DEF l, a, z
<1>4. ASSUME NEW k \in 0 .. SectorSize - 1
      PROVE  LET o == l.i * SectorSize + k IN
             (IF o \in l.pos .. l.pos + l.n - 1
              THEN call[t].buf[o - l.pos] ELSE l.buf[o]) \in AnyByte
  <2> DEFINE o == l.i * SectorSize + k
  <2>1. a * SectorSize <= l.i * SectorSize /\ l.i * SectorSize <= z * SectorSize
    BY <1>1, <1>2, <1>3, MulMono
  <2>2. (z + 1) * SectorSize = z * SectorSize + SectorSize
    BY <1>2, <1>3
  <2>3. /\ a * SectorSize \in Nat /\ l.i * SectorSize \in Nat /\ z * SectorSize \in Nat
        /\ (z + 1) * SectorSize \in Nat
    BY <1>1, <1>2, <1>3
  <2>4. o \in a * SectorSize .. (z + 1) * SectorSize - 1
    BY <1>2, <2>1, <2>2, <2>3
  <2> HIDE DEF o
  <2>5. l.buf[o] \in AnyByte
    BY <1>1, <2>4
  <2>6. o \in l.pos .. l.pos + l.n - 1 => call[t].buf[o - l.pos] \in AnyByte
    <3> HAVE o \in l.pos .. l.pos + l.n - 1
    <3>1. o - l.pos \in 0 .. call[t].size - 1
      BY <1>1
    <3> QED  BY <1>1, <3>1 DEF AnyByte
  <2> QED  BY <2>5, <2>6 DEF o
<1> QED  BY <1>4 DEF l

\* Every step keeps the types of the image of the disk.
LEMMA ImageStep ==
  ASSUME ImageType, ObjectType, ThreadType, Control, Next,
         \A u \in Thread : Changing(u) /\ Transferring(u)
  PROVE  ImageType'
<1> USE DEF ImageType
<1>1. CASE Reboot
  BY <1>1, SystemSectors, EmptyTableType
  DEF Reboot, FormatMap, FormatTable
<1>2. ASSUME NEW t \in Thread, Acts(t)
      PROVE  ImageType'
  <2>1. CASE UNCHANGED image
    BY <2>1 DEF image
  <2>2. CASE WriteHdr(t)
    <3>1. loc[t].hdr \in Header(Size)
      BY <2>2 DEF WriteHdr, At, Changing, Update
    <3>2. StaleBlock \in [0 .. SectorSize - 1 -> AnyByte]
      BY DEF StaleBlock, AnyByte
    <3> QED  BY <2>2, <3>1, <3>2 DEF WriteHdr, HeaderSector
  <2>3. CASE WriteDir1(t) \/ WriteDir2(t)
    <3>1. loc[t].dir \in [Slot -> Entry]
      BY DEF ThreadType, LocalType
    <3>2. /\ Join(loc[t].dir, directory) \in [Slot -> Entry]
          /\ Join(directory, loc[t].dir) \in [Slot -> Entry]
      BY <3>1, JoinType
    <3> QED  BY <2>3, <3>2 DEF WriteDir1, WriteDir2
  <2>4. CASE WriteMap(t)
    BY <2>4 DEF WriteMap, ThreadType, LocalType
  <2>5. CASE WriteSector(t)
    <3>1. pc[t] = "write" /\ Transferring(t) /\ UNCHANGED <<freeMap, directory>>
      BY <2>5 DEF WriteSector, In, At
    <3> DEFINE block == [k \in 0 .. SectorSize - 1 |->
            LET o == io[t].i * SectorSize + k IN
            IF o \in io[t].pos .. io[t].pos + io[t].n - 1
            THEN call[t].buf[o - io[t].pos] ELSE io[t].buf[o]]
    <3>2. block \in [0 .. SectorSize - 1 -> AnyByte]
      BY <3>1, BlockType
    <3>3. \E s : disk' = [disk EXCEPT ![s] = DataSector(block)]
      BY <2>5 DEF WriteSector
    <3> HIDE DEF block
    <3> QED  BY <3>1, <3>2, <3>3 DEF DataSector
  <2> QED  BY <1>2, <2>1, <2>2, <2>3, <2>4, <2>5, Actions DEF ImageAction
<1> QED  BY <1>1, <1>2, NextActs

-----------------------------------------------------------------------------
(* Sectors and their owners.                                               *)

\* What the files other than that of entry k own changes only with their
\* entries and headers.
LEMMA OthersSame ==
  ASSUME NEW k,
         \A j \in Slot \ {k} :
           /\ directory'[j] = directory[j]
           /\ directory[j].inUse =>
                disk'[directory[j].sector].hdr = disk[directory[j].sector].hdr
  PROVE  /\ InUse' \ {k} = InUse \ {k}
         /\ \A j \in InUse \ {k} : HeaderOf(j)' = HeaderOf(j) /\ Owned(j)' = Owned(j)
         /\ Others(k)' = Others(k)
<1>1. InUse' \ {k} = InUse \ {k}
  BY DEF InUse
<1>2. \A j \in InUse \ {k} : HeaderOf(j)' = HeaderOf(j) /\ Owned(j)' = Owned(j)
  BY DEF InUse, HeaderOf, Owned
<1>3. Others(k)' = Others(k)
  BY <1>1, <1>2 DEF Others
<1> QED  BY <1>1, <1>2, <1>3

\* The sectors of all but one file, and those of that file, are the sectors
\* of all files.
LEMMA AllOthers ==
  ASSUME NEW k \in Slot
  PROVE  /\ ~directory[k].inUse =>
              Others(k) = System \cup UNION {Owned(i) : i \in InUse}
         /\ directory[k].inUse =>
              Others(k) \cup Owned(k) = System \cup UNION {Owned(i) : i \in InUse}
BY DEF Others, InUse

\* While a thread writes the directory, the bitmap or a header, it is the only
\* one that does.
LEMMA OnlyMutator ==
  ASSUME Control, NEW t \in Thread, Mutating(t), NEW u \in Thread, u # t
  PROVE  /\ ~Mutating(u) /\ ~Updating(u)
         /\ pc[u] \notin {"fetchMap", "writeHdr", "writeDir1", "writeDir2", "writeMap"}
BY DEF Control, Placed, Where, Resting, Lookup, Mutating, Updating

-----------------------------------------------------------------------------
(* The steps that write the disk.                                          *)

\* Enough for the threads that are not changing the directory: entries in use
\* stay in use, for the same file.
LEMMA OtherThreads ==
  ASSUME ThreadType, Control, NEW t \in Thread, Acts(t), Mutating(t), Frame(t),
         NEW u \in Thread, u # t, Opening(u),
         call[t].op = "Create" =>
           \A j \in Slot : directory[j].inUse =>
             directory'[j].inUse /\ directory'[j].sector = directory[j].sector
  PROVE  Changing(u)' /\ Opening(u)'
<1>1. /\ pc'[u] = pc[u] /\ call'[u] = call[u] /\ loc'[u] = loc[u]
      /\ ~Mutating(u)
      /\ pc[u] \notin {"fetchMap", "writeHdr", "writeDir1", "writeDir2", "writeMap"}
  BY OnlyMutator DEF Frame
<1>2. Changing(u)'
  BY <1>1 DEF Changing, Mutating
<1>3. CASE call[t].op = "Create"
  BY <1>1, <1>2, <1>3, Constants DEF Opening, InUse, Slot
<1>4. CASE call[t].op = "Remove"
  <2>1. t = Main /\ u \in Program
    BY <1>4 DEF Control, Thread
  <2>2. call[u].op = "none"
    BY <1>4, <2>1 DEF Control, Placed, Where, Lookup, Resting, Thread
  <2> QED  BY <1>1, <1>2, <2>2 DEF Opening
<1> QED  BY <1>2, <1>3, <1>4 DEF Mutating

\* The write of a new file's header keeps the invariant of the disk.
LEMMA WriteHdrStep ==
  ASSUME ImageType, ThreadType, Control, Disk, NEW t \in Thread, Acts(t), WriteHdr(t)
  PROVE  Disk'
<1>1. pc[t] = "writeHdr" /\ call[t].op = "Create" /\ Mutating(t)
  BY DEF WriteHdr, At, Control, Placed, Where, Lookup, Resting, Mutating
<1>2. PICK k \in Slot : Update(t, k)
  BY <1>1 DEF Disk, Changing
<1>3. /\ disk' = [disk EXCEPT ![loc[t].sector] = HeaderSector(loc[t].hdr)]
      /\ UNCHANGED <<freeMap, directory, call, loc, file>> /\ pc'[t] = "writeDir1"
  BY DEF WriteHdr, Goto, ThreadType, objects
<1>4. /\ ~directory[k].inUse /\ loc[t].sector \notin Others(k)
      /\ loc[t].sector \in Sector
  BY <1>1, <1>2 DEF Update, Pending, ThreadType, LocalType
<1>5. \A j \in Slot \ {k} : directory[j].inUse => directory[j].sector # loc[t].sector
  BY <1>4 DEF Others, InUse, Owned
<1>6. /\ InUse' \ {k} = InUse \ {k}
      /\ \A j \in InUse \ {k} : HeaderOf(j)' = HeaderOf(j) /\ Owned(j)' = Owned(j)
      /\ Others(k)' = Others(k)
  <2>1. \A j \in Slot \ {k} :
          /\ directory'[j] = directory[j]
          /\ directory[j].inUse =>
               disk'[directory[j].sector].hdr = disk[directory[j].sector].hdr
    BY <1>3, <1>5, <1>4 DEF ImageType
  <2> QED  BY <2>1, OthersSame
<1>7. InUse' = InUse /\ k \notin InUse
  BY <1>3, <1>4 DEF InUse
<1>8. NoSharedSector'
  BY <1>3, <1>6, <1>7 DEF Disk, NoSharedSector
<1>9. NoLeak'
  BY <1>3 DEF NoLeak, Updating
<1>10. OpenHeaderOwned'
  BY <1>3, <1>6, <1>7 DEF Disk, OpenHeaderOwned
<1>11. Update(t, k)'
  <2>1. disk'[loc'[t].sector].hdr = loc'[t].hdr
    BY <1>3, <1>4 DEF ImageType, HeaderSector
  <2>2. Pending(t)' = Pending(t)
    BY <1>3 DEF Pending
  <2> QED  BY <1>1, <1>2, <1>3, <1>4, <1>6, <2>1, <2>2 DEF Update
<1>12. Changing(t)' /\ Opening(t)'
  BY <1>1, <1>3, <1>11 DEF Changing, Opening
<1>13. \A u \in Thread \ {t} : Changing(u)' /\ Opening(u)'
  BY <1>1, <1>3, OtherThreads, StepFrame DEF Disk
<1> QED  BY <1>8, <1>9, <1>10, <1>12, <1>13 DEF Disk

\* An update in progress depends on the image of the disk and on the locals
\* of its thread only.
LEMMA UpdateSame ==
  ASSUME NEW u \in Thread, NEW k \in Slot, Update(u, k),
         UNCHANGED <<freeMap, directory>>, Others(k)' = Others(k),
         pc'[u] = pc[u], call'[u] = call[u], loc'[u] = loc[u],
         disk'[loc[u].sector] = disk[loc[u].sector]
  PROVE  Update(u, k)'
<1>1. Pending(u)' = Pending(u)
  BY DEF Pending
<1>2. /\ loc'[u].hdr \in Header(Size) /\ IsInjective(loc'[u].hdr.dataSectors)
      /\ loc'[u].sector \notin Range(loc'[u].hdr.dataSectors)
      /\ Pending(u)' \cap Others(k)' = {}
      /\ \A j \in Slot \ {k} : directory'[j] = loc'[u].dir[j]
      /\ directory'[k].inUse => directory'[k].sector = loc'[u].sector
      /\ pc'[u] # "writeHdr" => disk'[loc'[u].sector].hdr = loc'[u].hdr
      /\ pc'[u] = "writeDir2" => Join(directory', loc'[u].dir) = loc'[u].dir
  BY <1>1 DEF Update
<1>3. call'[u].op = "Create" =>
       /\ loc'[u].dir[k].inUse /\ loc'[u].dir[k].sector = loc'[u].sector
       /\ freeMap' = Others(k)' /\ loc'[u].map = Others(k)' \cup Pending(u)'
       /\ pc'[u] \in {"writeHdr", "writeDir1"} => ~directory'[k].inUse
       /\ pc'[u] = "writeMap" => directory'[k].inUse
  BY <1>1 DEF Update
<1>4. call'[u].op = "Remove" =>
       /\ ~loc'[u].dir[k].inUse /\ loc'[u].map = Others(k)'
       /\ pc'[u] = "writeMap" => directory'[k].inUse
       /\ freeMap' = IF pc'[u] = "writeMap" THEN Others(k)' \cup Pending(u)'
                     ELSE Others(k)'
  BY <1>1 DEF Update
<1> QED  BY <1>2, <1>3, <1>4 DEF Update

\* A thread writes one of the two sectors of the directory and so changes
\* entry k only.
LEMMA UpdateDirectory ==
  ASSUME ImageType, ThreadType, Control, Disk, NothingOpen,
         NEW t \in Thread, Acts(t), NEW k \in Slot, Update(t, k),
         pc[t] \in {"writeDir1", "writeDir2"}, Mutating(t),
         UNCHANGED <<freeMap, disk, file>>,
         directory' \in [Slot -> Entry],
         \A j \in Slot \ {k} : directory'[j] = directory[j],
         directory'[k].inUse => directory'[k].sector = loc[t].sector,
         call[t].op = "Create" /\ directory[k].inUse => directory'[k].inUse
  PROVE  /\ NoSharedSector' /\ OpenHeaderOwned'
         /\ Others(k)' = Others(k)
         /\ directory'[k].inUse => Owned(k)' = Pending(t)
         /\ \A u \in Thread \ {t} : Changing(u)' /\ Opening(u)'
<1>1. /\ InUse' \ {k} = InUse \ {k}
      /\ \A j \in InUse \ {k} : HeaderOf(j)' = HeaderOf(j) /\ Owned(j)' = Owned(j)
      /\ Others(k)' = Others(k)
  BY OthersSame
<1>2. /\ loc[t].hdr \in Header(Size) /\ disk[loc[t].sector].hdr = loc[t].hdr
      /\ IsInjective(loc[t].hdr.dataSectors)
      /\ loc[t].sector \notin Range(loc[t].hdr.dataSectors)
      /\ Pending(t) \cap Others(k) = {}
      /\ directory[k].inUse => directory[k].sector = loc[t].sector
  BY DEF Update
<1>3. directory'[k].inUse => HeaderOf(k)' = loc[t].hdr /\ Owned(k)' = Pending(t)
  BY <1>2, NotAHeader DEF HeaderOf, Owned, Pending
<1>4. \A j \in InUse \ {k} : Owned(j) \subseteq Others(k) /\ System \subseteq Others(k)
  BY DEF Others
<1>5. System \subseteq Others(k)
  BY DEF Others
<1>6. NoSharedSector'
  <2> SUFFICES ASSUME NEW i \in InUse'
               PROVE  /\ HeaderOf(i)' # Garbage /\ IsInjective(HeaderOf(i)'.dataSectors)
                      /\ directory'[i].sector \notin Range(HeaderOf(i)'.dataSectors)
                      /\ Owned(i)' \cap System = {}
                      /\ \A j \in InUse' \ {i} : Owned(i)' \cap Owned(j)' = {}
    BY DEF NoSharedSector
  <2>1. CASE i = k
    <3>1. directory'[k].inUse
      BY <2>1 DEF InUse
    <3> QED  BY <1>1, <1>2, <1>3, <1>4, <1>5, <2>1, <3>1, NotAHeader
  <2>2. CASE i # k
    <3>1. i \in InUse \ {k} /\ directory'[i] = directory[i]
      BY <1>1, <2>2 DEF InUse
    <3>2. /\ HeaderOf(i) # Garbage /\ IsInjective(HeaderOf(i).dataSectors)
          /\ directory[i].sector \notin Range(HeaderOf(i).dataSectors)
          /\ Owned(i) \cap System = {}
          /\ \A j \in InUse \ {i} : Owned(i) \cap Owned(j) = {}
      BY <3>1 DEF Disk, NoSharedSector
    <3>3. ASSUME NEW j \in InUse' \ {i}
          PROVE  Owned(i)' \cap Owned(j)' = {}
      <4>1. CASE j = k
        <5>1. directory'[k].inUse
          BY <4>1 DEF InUse
        <5> QED  BY <1>1, <1>2, <1>3, <1>4, <3>1, <4>1, <5>1
      <4>2. CASE j # k
        BY <1>1, <3>1, <3>2, <4>2
      <4> QED  BY <4>1, <4>2
    <3> QED  BY <1>1, <3>1, <3>2, <3>3
  <2> QED  BY <2>1, <2>2
<1>7. CASE call[t].op = "Create"
  <2>1. \A j \in Slot : directory[j].inUse =>
          directory'[j].inUse /\ directory'[j].sector = directory[j].sector
    BY <1>2, <1>7
  <2>2. \A j \in InUse : j \in InUse' /\ HeaderOf(j)' = HeaderOf(j)
    BY <2>1 DEF InUse, HeaderOf
  <2>3. OpenHeaderOwned'
    BY <2>2 DEF Disk, OpenHeaderOwned
  <2>4. \A u \in Thread \ {t} : Changing(u)' /\ Opening(u)'
    BY <2>1, OtherThreads, StepFrame DEF Disk
  <2> QED  BY <1>1, <1>3, <1>6, <2>3, <2>4
<1>8. CASE call[t].op = "Remove"
  <2>1. t = Main
    BY <1>8 DEF Control, Thread
  <2>2. OpenHeaderOwned'
    BY <1>8, <2>1 DEF OpenHeaderOwned, NothingOpen
  <2>3. \A u \in Thread \ {t} : Changing(u)' /\ Opening(u)'
    BY <1>8, OtherThreads, StepFrame DEF Disk
  <2> QED  BY <1>1, <1>3, <1>6, <2>2, <2>3
<1> QED  BY <1>7, <1>8 DEF Mutating

\* The write of the first directory sector keeps the invariant of the disk.
LEMMA WriteDir1Step ==
  ASSUME ImageType, ThreadType, Control, Disk, NothingOpen,
         NEW t \in Thread, Acts(t), WriteDir1(t)
  PROVE  Disk'
<1>1. pc[t] = "writeDir1" /\ Mutating(t)
  BY DEF WriteDir1, At, Control, Placed, Where, Lookup, Resting, Mutating
<1>2. PICK k \in Slot : Update(t, k)
  BY <1>1 DEF Disk, Changing
<1>3. /\ directory' = Join(loc[t].dir, directory)
      /\ UNCHANGED <<freeMap, disk, call, loc, file>> /\ pc'[t] = "writeDir2"
  BY DEF WriteDir1, Goto, ThreadType, objects
<1>4. loc[t].dir \in [Slot -> Entry] /\ directory \in [Slot -> Entry]
  BY DEF ThreadType, LocalType, ImageType
<1>5. directory' \in [Slot -> Entry]
  BY <1>3, <1>4, JoinType
<1>6. \A j \in Slot \ {k} : directory'[j] = directory[j] /\ directory'[j] = loc[t].dir[j]
  <2>1. \A j \in Slot \ {k} : directory[j] = loc[t].dir[j]
    BY <1>2 DEF Update
  <2>2. \A j \in Slot : loc[t].dir[j] = directory[j] =>
          Join(loc[t].dir, directory)[j] = loc[t].dir[j]
    BY <1>4, JoinEntry
  <2> QED  BY <1>3, <2>1, <2>2
<1>7. /\ k <= Straddle => /\ directory'[k].inUse = loc[t].dir[k].inUse
                          /\ directory'[k].sector = loc[t].dir[k].sector
      /\ k > Straddle => directory'[k] = directory[k]
  BY <1>3, <1>4, JoinEntry
<1>8. directory'[k].inUse => directory'[k].sector = loc[t].sector
  <2>1. k <= Straddle \/ k > Straddle
    BY Constants DEF Slot
  <2>2. /\ directory[k].inUse => directory[k].sector = loc[t].sector
        /\ loc[t].dir[k].inUse => loc[t].dir[k].sector = loc[t].sector
    BY <1>1, <1>2 DEF Update, Mutating
  <2> QED  BY <1>7, <2>1, <2>2
<1>9. call[t].op = "Create" => ~directory[k].inUse
  BY <1>1, <1>2 DEF Update
<1>10. /\ NoSharedSector' /\ OpenHeaderOwned'
       /\ Others(k)' = Others(k)
       /\ \A u \in Thread \ {t} : Changing(u)' /\ Opening(u)'
  BY <1>1, <1>2, <1>3, <1>5, <1>6, <1>8, <1>9, UpdateDirectory
<1>11. NoLeak'
  BY <1>3 DEF NoLeak, Updating
<1>12. Update(t, k)'
  <2>1. Join(directory', loc[t].dir) = loc[t].dir
    BY <1>3, <1>4, JoinBack
  <2>2. Pending(t)' = Pending(t)
    BY <1>3 DEF Pending
  <2> QED  BY <1>1, <1>2, <1>3, <1>6, <1>8, <1>10, <2>1, <2>2 DEF Update
<1>13. Changing(t)' /\ Opening(t)'
  BY <1>1, <1>3, <1>12 DEF Changing, Opening
<1> QED  BY <1>10, <1>11, <1>13 DEF Disk

\* The write of the second directory sector keeps the invariant of the disk.
LEMMA WriteDir2Step ==
  ASSUME ImageType, ThreadType, Control, Disk, NothingOpen,
         NEW t \in Thread, Acts(t), WriteDir2(t)
  PROVE  Disk'
<1>1. pc[t] = "writeDir2" /\ Mutating(t)
  BY DEF WriteDir2, At, Control, Placed, Where, Lookup, Resting, Mutating
<1>2. PICK k \in Slot : Update(t, k)
  BY <1>1 DEF Disk, Changing
<1>3. directory' = loc[t].dir /\ UNCHANGED <<freeMap, disk, file>>
  BY <1>1, <1>2 DEF WriteDir2, objects, Update
<1>4. directory' \in [Slot -> Entry]
  BY <1>3 DEF ThreadType, LocalType
<1>5. \A j \in Slot \ {k} : directory'[j] = directory[j]
  BY <1>2, <1>3 DEF Update
<1>6. /\ directory'[k].inUse => directory'[k].sector = loc[t].sector
      /\ call[t].op = "Create" => directory'[k].inUse
      /\ call[t].op = "Remove" => ~directory'[k].inUse
  BY <1>1, <1>2, <1>3 DEF Update, Mutating
<1>7. /\ NoSharedSector' /\ OpenHeaderOwned'
      /\ Others(k)' = Others(k)
      /\ \A u \in Thread \ {t} : Changing(u)' /\ Opening(u)'
  BY <1>1, <1>2, <1>3, <1>4, <1>5, <1>6, UpdateDirectory
<1>8. CASE call[t].op = "Create"
  <2>1. UNCHANGED <<call, loc>> /\ pc'[t] = "writeMap"
    BY <1>8 DEF WriteDir2, Goto, ThreadType
  <2>2. NoLeak'
    BY <2>1 DEF NoLeak, Updating
  <2>3. Update(t, k)'
    <3>1. Pending(t)' = Pending(t)
      BY <2>1 DEF Pending
    <3> QED  BY <1>1, <1>2, <1>3, <1>6, <1>7, <1>8, <2>1, <3>1 DEF Update
  <2>4. Changing(t)' /\ Opening(t)'
    BY <1>8, <2>1, <2>3 DEF Changing, Opening
  <2> QED  BY <1>7, <2>2, <2>4 DEF Disk
<1>9. CASE call[t].op = "Remove"
  <2>1. Changing(t)' /\ Opening(t)'
    BY <1>9, Returned DEF WriteDir2
  <2>2. freeMap' = Others(k)'
    BY <1>1, <1>2, <1>3, <1>7, <1>9 DEF Update
  <2>3. Others(k)' = System \cup (UNION {Owned(i) : i \in InUse})'
    BY <1>6, <1>9 DEF Others, InUse
  <2> QED  BY <1>7, <2>1, <2>2, <2>3 DEF Disk, NoLeak
<1> QED  BY <1>1, <1>8, <1>9 DEF Mutating

\* The write of the bitmap keeps the invariant of the disk.
LEMMA WriteMapStep ==
  ASSUME ImageType, ThreadType, Control, Disk,
         NEW t \in Thread, Acts(t), WriteMap(t)
  PROVE  Disk'
<1>1. pc[t] = "writeMap" /\ Mutating(t)
  BY DEF WriteMap, At, Control, Placed, Where, Lookup, Resting, Mutating
<1>2. PICK k \in Slot : Update(t, k)
  BY <1>1 DEF Disk, Changing
<1>3. UNCHANGED <<directory, disk, file>> /\ freeMap' = loc[t].map
  BY DEF WriteMap, objects
<1>4. /\ InUse' = InUse /\ Others(k)' = Others(k)
      /\ \A j \in InUse : HeaderOf(j)' = HeaderOf(j) /\ Owned(j)' = Owned(j)
  BY <1>3 DEF InUse, Others, HeaderOf, Owned
<1>5. NoSharedSector' /\ OpenHeaderOwned'
  BY <1>3, <1>4 DEF Disk, NoSharedSector, OpenHeaderOwned
<1>6. \A u \in Thread \ {t} : Changing(u)' /\ Opening(u)'
  BY <1>1, <1>3, OtherThreads, StepFrame DEF Disk
<1>7. CASE call[t].op = "Create"
  <2>1. Changing(t)' /\ Opening(t)'
    BY <1>7, Returned DEF WriteMap
  <2>2. directory[k].inUse /\ freeMap' = Others(k) \cup Pending(t)
    BY <1>1, <1>2, <1>3, <1>7 DEF Update
  <2>3. Owned(k) = Pending(t)
    <3>1. disk[loc[t].sector].hdr = loc[t].hdr /\ loc[t].hdr # Garbage
          /\ directory[k].sector = loc[t].sector
      BY <1>1, <1>2, <2>2, NotAHeader DEF Update
    <3> QED  BY <3>1 DEF Owned, Pending, HeaderOf
  <2>4. freeMap' = System \cup UNION {Owned(i) : i \in InUse}
    BY <2>2, <2>3, AllOthers
  <2>5. UNION {Owned(i) : i \in InUse} = (UNION {Owned(i) : i \in InUse})'
    BY <1>4
  <2> QED  BY <1>5, <1>6, <2>1, <2>4, <2>5 DEF Disk, NoLeak
<1>8. CASE call[t].op = "Remove"
  <2>1. UNCHANGED <<call, loc>> /\ pc'[t] = "writeDir1"
    BY <1>8 DEF WriteMap, Goto, ThreadType
  <2>2. NoLeak'
    BY <2>1 DEF NoLeak, Updating
  <2>3. Update(t, k)'
    <3>1. Pending(t)' = Pending(t)
      BY <2>1 DEF Pending
    <3> QED  BY <1>1, <1>2, <1>3, <1>4, <1>8, <2>1, <3>1 DEF Update
  <2>4. Changing(t)' /\ Opening(t)'
    BY <1>8, <2>1, <2>3 DEF Changing, Opening
  <2> QED  BY <1>5, <1>6, <2>2, <2>4 DEF Disk
<1> QED  BY <1>1, <1>7, <1>8 DEF Mutating

\* The write of a data sector keeps the invariant of the disk.
LEMMA WriteSectorStep ==
  ASSUME ImageType, ObjectType, ThreadType, Control, Disk,
         NEW t \in Thread, Acts(t), Transferring(t), WriteSector(t)
  PROVE  Disk'
<1>1. /\ pc[t] = "write" /\ Live(io[t].h) /\ call[t].op = "Write"
      /\ UNCHANGED <<freeMap, directory>>
  BY DEF WriteSector, In, At, Control, Placed, Where, Lookup, Resting
<1>2. PICK s : /\ s = ByteToSector(file[io[t].h].hdr, io[t].i * SectorSize)
               /\ \E b : disk' = [disk EXCEPT ![s] = b]
  BY DEF WriteSector
<1>3. /\ \A j \in InUse : directory[j].sector # s
      /\ \A k \in Slot, u \in Thread : Update(u, k) => loc[u].sector # s
  BY <1>1, <1>2, WriteTarget
<1>4. \A x \in Sector : x # s => disk'[x] = disk[x]
  BY <1>2 DEF ImageType
<1>5. /\ InUse' = InUse
      /\ \A j \in InUse : HeaderOf(j)' = HeaderOf(j) /\ Owned(j)' = Owned(j)
      /\ \A k \in Slot : Others(k)' = Others(k)
  <2>1. \A j \in InUse : directory[j].sector \in Sector
    BY DEF InUse, ImageType, Entry
  <2>2. \A j \in InUse : HeaderOf(j)' = HeaderOf(j) /\ Owned(j)' = Owned(j)
    BY <1>1, <1>3, <1>4, <2>1 DEF HeaderOf, Owned
  <2> QED  BY <1>1, <2>2 DEF InUse, Others
<1>6. NoSharedSector'
  BY <1>1, <1>5 DEF Disk, NoSharedSector
<1>7. OpenHeaderOwned'
  <2> SUFFICES ASSUME NEW x \in Handle, file'[x].live
               PROVE  \E i \in InUse : HeaderOf(i) = file'[x].hdr
    BY <1>5 DEF OpenHeaderOwned
  <2>1. file[x].live /\ file'[x].hdr = file[x].hdr
    BY <1>1, LiveObjects DEF OpenHdr, At
  <2> QED  BY <2>1 DEF Disk, OpenHeaderOwned
<1>8. \/ UNCHANGED <<pc, call, loc>>
      \/ Return(t, "Write", TRUE, <<>>)
  BY DEF WriteSector, Transferred
<1>9. ~Updating(t) /\ ~Updating(t)'
  BY <1>1, <1>8, Returned DEF Updating
<1>10. NoLeak'
  <2>1. \A u \in Thread \ {t} : Updating(u)' = Updating(u)
    BY StepFrame DEF Frame, Updating
  <2>2. UNION {Owned(i) : i \in InUse} = (UNION {Owned(i) : i \in InUse})'
    BY <1>5
  <2> QED  BY <1>1, <1>9, <2>1, <2>2 DEF Disk, NoLeak
<1>11. Changing(t)' /\ Opening(t)'
  <2>1. CASE UNCHANGED <<pc, call, loc>>
    BY <1>1, <2>1 DEF Changing, Opening, Mutating
  <2> QED  BY <1>8, <2>1, Returned
<1>12. ASSUME NEW u \in Thread \ {t}
       PROVE  Changing(u)' /\ Opening(u)'
  <2>1. pc'[u] = pc[u] /\ call'[u] = call[u] /\ loc'[u] = loc[u]
    BY StepFrame DEF Frame
  <2>2. loc[u].sector \in Sector
    BY DEF ThreadType, LocalType
  <2>3. ASSUME NEW k \in Slot, Update(u, k)
        PROVE  Update(u, k)'
    <3>1. disk'[loc[u].sector] = disk[loc[u].sector]
      BY <1>3, <1>4, <2>2, <2>3
    <3> QED  BY <1>1, <1>5, <2>1, <2>3, <3>1, UpdateSame
  <2>4. pc[u] = "fetchMap" /\ call[u].op = "Remove" =>
          disk'[loc[u].sector].hdr = disk[loc[u].sector].hdr
    <3> HAVE pc[u] = "fetchMap" /\ call[u].op = "Remove"
    <3>1. PICK k \in FindIndex(directory, call[u].name) :
            loc[u].sector = directory[k].sector
      BY DEF Disk, Changing
    <3>2. k \in InUse
      BY <3>1 DEF FindIndex, Match, InUse
    <3> QED  BY <1>3, <1>4, <2>2, <3>1, <3>2
  <2>5. Changing(u) /\ Opening(u)
    BY DEF Disk
  <2>6. Changing(u)'
    BY <1>1, <2>1, <2>3, <2>4, <2>5 DEF Changing, Mutating
  <2>7. Opening(u)'
    BY <1>1, <1>5, <2>1, <2>5 DEF Opening
  <2> QED  BY <2>6, <2>7
<1> QED  BY <1>6, <1>7, <1>10, <1>11, <1>12 DEF Disk

-----------------------------------------------------------------------------
(* The steps that only read the disk.                                      *)

\* Where a thread's locals say nothing of the disk.
Settled == Label \ {"fetchDir2", "fetchMap", "fetchHdr",
                    "writeHdr", "writeDir1", "writeDir2", "writeMap"}

\* Every step but the lookups, the two allocation steps and the writes ends
\* where the thread's locals say nothing of the disk.
LEMMA SettledStep ==
  ASSUME ThreadType, Control, NEW t \in Thread, Acts(t), ~ImageAction(t)
  PROVE  \/ FetchDir1(t) \/ FetchDir2(t) \/ CreateAllocate(t)
         \/ RemoveHdr(t) \/ RemoveFree(t)
         \/ pc'[t] \in Settled
<1> USE DEF Settled, Label
<1>1. ASSUME NEW op, NEW n, NEW size, NEW next, NEW fail,
             Begin(t, op, n, size, next, fail)
      PROVE  pc'[t] \in Settled
  BY <1>1 DEF Begin, ThreadType
<1>2. ASSUME NEW c, NEW first \in {"read", "writeFirst", "writeLast", "write"}, NEW buf,
             NEW next \in Resting, Transfer(t, c, first, buf, next)
      PROVE  pc'[t] \in Settled
  <2>1. pc'[t] = next \/ pc'[t] = first
    BY <1>2 DEF Transfer, Goto, ThreadType
  <2> QED
    BY <2>1 DEF Resting
<1>3. ASSUME NEW len, NEW from, NEW next \in Resting,
             ReadAt(t, len, next) \/ WriteAt(t, len, from, next)
      PROVE  pc'[t] \in Settled
  BY <1>2, <1>3 DEF ReadAt, WriteAt
<1>4. ASSUME NEW op, NEW ok, NEW data, Return(t, op, ok, data)
      PROVE  pc'[t] \in Settled
  BY <1>4, Returned DEF Resting
<1>5. CASE t = Main /\ Commands
  <2>1. CASE RemoveBegin \/ CopyBegin \/ CopyOpen \/ PrintBegin
    BY <1>1, <1>5, <2>1 DEF RemoveBegin, CopyBegin, CopyOpen, PrintBegin
  <2>2. CASE CopyWrite \/ PrintRead
    BY <1>3, <1>5, <2>2 DEF CopyWrite, PrintRead, Resting
  <2>3. CASE CopyDelete \/ PrintDelete
    BY <1>5, <2>3 DEF CopyDelete, PrintDelete, Delete, Goto, ThreadType
  <2> QED  BY <1>5, <2>1, <2>2, <2>3 DEF Commands
<1>6. CASE SystemCall(t)
  <2>1. CASE LoadBegin(t) \/ CreateBegin(t) \/ OpenBegin(t)
    BY <1>1, <2>1 DEF LoadBegin, CreateBegin, OpenBegin
  <2>2. CASE ReadBegin(t) \/ WriteBegin(t)
    BY <1>3, <2>2 DEF ReadBegin, WriteBegin, Resting
  <2>3. CASE Close(t) \/ BadPointer(t)
    BY <2>3 DEF Close, BadPointer, Stop, Enter
  <2> QED  BY <1>6, <2>1, <2>2, <2>3 DEF SystemCall
<1>7. CASE Step(t)
  <2>1. CASE OpenHdr(t) \/ LoadDelete(t)
    BY <1>4, <2>1 DEF OpenHdr, LoadDelete, Goto, ThreadType
  <2>2. CASE ReadSector(t)
    BY <1>4, <2>2 DEF ReadSector, Transferred, In, At
  <2>3. CASE WriteFirst(t) \/ WriteLast(t) \/ Finish(t)
    BY <2>3 DEF WriteFirst, WriteLast, Finish, Goto, ThreadType
  <2> QED  BY <1>7, <2>1, <2>2, <2>3 DEF Step, ImageAction
<1> QED  BY <1>5, <1>6, <1>7 DEF Acts

\* What a lookup reads of the directory agrees with the disk.
LEMMA FetchStep ==
  ASSUME ImageType, ThreadType, Control, Disk, UNCHANGED image,
         NEW t \in Thread, FetchDir1(t) \/ FetchDir2(t)
  PROVE  Changing(t)' /\ Opening(t)'
<1>1. /\ directory \in [Slot -> Entry] /\ loc[t].dir \in [Slot -> Entry]
      /\ EmptyTable \in [Slot -> Entry] /\ UNCHANGED <<directory, disk, freeMap>>
  BY EmptyTableType DEF ImageType, ThreadType, LocalType, image
<1>2. CASE FetchDir1(t)
  <2>1. /\ pc'[t] = "fetchDir2" /\ call' = call
        /\ loc'[t].dir = Join(directory, EmptyTable)
    BY <1>2 DEF FetchDir1, Goto, ThreadType, Locals
  <2>2. Join(loc'[t].dir, directory) = directory
    BY <1>1, <2>1, JoinBack
  <2>3. \A j \in 0 .. Straddle : /\ loc'[t].dir[j].inUse = directory[j].inUse
                                 /\ loc'[t].dir[j].sector = directory[j].sector
    <3>1. TAKE j \in 0 .. Straddle
    <3>2. j \in Slot /\ j <= Straddle
      BY Constants DEF Slot
    <3> QED  BY <1>1, <2>1, <3>2, JoinEntry
  <2> QED  BY <1>1, <2>1, <2>2, <2>3 DEF Changing, Opening
<1>3. CASE FetchDir2(t)
  <2> DEFINE d == Join(loc[t].dir, directory)
  <2>0. pc[t] = "fetchDir2"
    BY <1>3 DEF FetchDir2, At
  <2>1. Mutating(t) => d = directory
    BY <2>0 DEF Disk, Changing
  <2>2. CASE \E op, ok, data : Return(t, op, ok, data)
    BY <2>2, Returned
  <2>3. CASE /\ call[t].op = "Create" /\ pc'[t] = "fetchMap" /\ call' = call
             /\ loc'[t].dir = d
    BY <1>1, <2>1, <2>3 DEF Changing, Opening, Mutating
  <2>4. ASSUME call[t].op # "Create", pc'[t] = "fetchHdr", call' = call,
               NEW i \in FindIndex(d, call[t].name),
               loc'[t].dir = d, loc'[t].sector = d[i].sector
        PROVE  Changing(t)' /\ Opening(t)'
    <3>1. CASE call[t].op = "Remove"
      BY <1>1, <2>1, <2>4, <3>1 DEF Changing, Opening, Mutating
    <3>2. CASE call[t].op \in {"Open", "Load"}
      <4>1. i \in Slot /\ d[i].inUse
        BY <2>4 DEF FindIndex, Match
      <4>2. CASE i <= Straddle
        <5>1. d[i].inUse = loc[t].dir[i].inUse /\ d[i].sector = loc[t].dir[i].sector
          BY <1>1, <4>1, <4>2, JoinEntry
        <5>2. directory[i].inUse /\ directory[i].sector = loc[t].dir[i].sector
          <6>1. \A j \in 0 .. Straddle : loc[t].dir[j].inUse =>
                  directory[j].inUse /\ directory[j].sector = loc[t].dir[j].sector
            BY <2>0, <3>2 DEF Disk, Opening
          <6>2. i \in 0 .. Straddle
            BY <4>1, <4>2, Constants DEF Slot
          <6> QED  BY <4>1, <5>1, <6>1, <6>2
        <5> QED  BY <1>1, <2>4, <3>2, <4>1, <5>1, <5>2 DEF Changing, Opening, InUse
      <4>3. CASE i > Straddle
        <5>1. d[i] = directory[i]
          BY <1>1, <4>1, <4>3, JoinEntry
        <5> QED  BY <1>1, <2>4, <3>2, <4>1, <5>1 DEF Changing, Opening, InUse
      <4>4. i <= Straddle \/ i > Straddle
        BY <4>1, Constants DEF Slot
      <4> QED  BY <4>2, <4>3, <4>4
    <3> QED  BY <2>0, <2>4, <3>1, <3>2 DEF Control, Placed, Where, Lookup, Resting
  <2>5. \/ \E op, ok, data : Return(t, op, ok, data)
        \/ /\ call[t].op = "Create" /\ Goto(t, "fetchMap") /\ call' = call
           /\ loc' = [loc EXCEPT ![t] = Locals(d, {}, NoHeader, 0)]
        \/ /\ call[t].op # "Create" /\ Goto(t, "fetchHdr") /\ call' = call
           /\ \E i \in FindIndex(d, call[t].name) :
                loc' = [loc EXCEPT ![t] = Locals(d, {}, NoHeader, d[i].sector)]
    BY <1>3 DEF FetchDir2
  <2> HIDE DEF d
  <2>6. CASE /\ call[t].op = "Create" /\ Goto(t, "fetchMap") /\ call' = call
             /\ loc' = [loc EXCEPT ![t] = Locals(d, {}, NoHeader, 0)]
    <3>1. pc'[t] = "fetchMap" /\ loc'[t].dir = d
      BY <2>6 DEF Goto, ThreadType, Locals
    <3> QED  BY <2>3, <2>6, <3>1
  <2>7. ASSUME call[t].op # "Create", Goto(t, "fetchHdr"), call' = call,
               NEW i \in FindIndex(d, call[t].name),
               loc' = [loc EXCEPT ![t] = Locals(d, {}, NoHeader, d[i].sector)]
        PROVE  Changing(t)' /\ Opening(t)'
    <3>1. pc'[t] = "fetchHdr" /\ loc'[t].dir = d /\ loc'[t].sector = d[i].sector
      BY <2>7 DEF Goto, ThreadType, Locals
    <3> QED  BY <2>4, <2>7, <3>1
  <2> QED  BY <2>2, <2>5, <2>6, <2>7
<1> QED  BY <1>2, <1>3

\* The header that Remove reads is the one of the file in the directory.
LEMMA RemoveHdrStep ==
  ASSUME ImageType, ThreadType, Control, Disk, UNCHANGED image,
         NEW t \in Thread, RemoveHdr(t)
  PROVE  Changing(t)' /\ Opening(t)'
<1>1. PICK h \in Headers(loc[t].sector) :
        loc' = [loc EXCEPT ![t] = Locals(loc[t].dir, {}, h, loc[t].sector)]
  BY DEF RemoveHdr
<1>2. /\ pc[t] = "fetchHdr" /\ call[t].op = "Remove"
      /\ pc'[t] = "fetchMap" /\ UNCHANGED <<call, directory, disk>>
      /\ loc'[t].dir = loc[t].dir /\ loc'[t].hdr = h /\ loc'[t].sector = loc[t].sector
  BY <1>1 DEF RemoveHdr, At, Goto, ThreadType, Locals, image
<1>3. /\ loc[t].dir = directory
      /\ \E k \in FindIndex(directory, call[t].name) : loc[t].sector = directory[k].sector
  BY <1>2 DEF Disk, Changing
<1>4. PICK k \in FindIndex(directory, call[t].name) : loc[t].sector = directory[k].sector
  BY <1>3
<1>5. k \in InUse
  BY <1>4 DEF FindIndex, Match, InUse
<1>6. h = disk[loc[t].sector].hdr
  BY <1>1, <1>4, <1>5, OwnedHeader DEF Disk, HeaderOf
<1> QED  BY <1>2, <1>3, <1>6 DEF Changing, Opening

\* A thread about to allocate or free sees a bitmap that marks exactly the
\* sectors of the system and of the files.
LEMMA QuietMap ==
  ASSUME Control, NoLeak, NEW t \in Thread, pc[t] = "fetchMap"
  PROVE  freeMap = System \cup UNION {Owned(i) : i \in InUse}
<1>1. Mutating(t) /\ ~Updating(t)
  BY DEF Control, Placed, Where, Lookup, Resting, Mutating, Updating
<1>2. \A u \in Thread : ~Updating(u)
  BY <1>1, OnlyMutator
<1> QED  BY <1>2 DEF NoLeak

\* What Create allocates is free and its own: the update it is about to write
\* satisfies Update.
LEMMA AllocateStep ==
  ASSUME ImageType, ThreadType, Control, Disk, UNCHANGED image,
         NEW t \in Thread, CreateAllocate(t)
  PROVE  Changing(t)' /\ Opening(t)'
<1> DEFINE d == loc[t].dir
           c == call[t]
           k == NumDataSectors(c.size)
<1>1. CASE CreateFails(t)
  BY <1>1, Returned DEF CreateFails
<1>2. ASSUME NEW s \in FirstClear(freeMap), NEW i \in AddIndex(d),
             NEW f \in FirstFit(Mark(freeMap, s), k),
             loc' = [loc EXCEPT ![t] =
                    Locals([d EXCEPT ![i] = [inUse |-> TRUE, sector |-> s,
                                             name |-> c.name]],
                           Mark(freeMap, s) \cup Range(f),
                           [numBytes |-> c.size, dataSectors |-> f],
                           s)],
             pc' = [pc EXCEPT ![t] = "writeHdr"], call' = call
      PROVE  Changing(t)' /\ Opening(t)'
  <2>1. /\ pc[t] = "fetchMap" /\ c.op = "Create" /\ c.size \in Size
        /\ d = directory /\ d \in [Slot -> Entry]
    BY DEF CreateAllocate, At, Control, Placed, Disk, Changing, ImageType
  <2>2. i \in Slot /\ ~directory[i].inUse
    BY <2>1 DEF AddIndex
  <2>3. freeMap = Others(i)
    BY <2>1, <2>2, QuietMap, AllOthers DEF Disk
  <2>4. s \in Sector \ freeMap
    BY DEF FirstClear
  <2>5. /\ f \in [1 .. k -> Sector \ (freeMap \cup {s})]
        /\ \A a, b \in 1 .. k : a < b => f[a] < f[b]
    BY DEF FirstFit, Mark
  <2>6. Range(f) \cap (freeMap \cup {s}) = {}
    BY <2>5 DEF Range
  <2>7. IsInjective(f)
    <3>1. k \in Int /\ \A a \in 1 .. k : f[a] \in Int
      <4>1. Sector \subseteq Int
        BY DEF Sector
      <4>2. k \in Int
        <5>1. c.size \in Int /\ SectorSize \in Nat \ {0}
          BY <2>1, Constants
        <5>2. c.size > 0 => c.size + SectorSize - 1 \in Nat
          BY <5>1
        <5>3. c.size > 0 => (c.size + SectorSize - 1) \div SectorSize \in Nat
          BY <5>1, <5>2, DivNat
        <5> QED  BY <5>1, <5>3 DEF NumDataSectors
      <4> QED  BY <2>5, <4>1, <4>2
    <3>2. \A a, b \in 1 .. k : f[a] = f[b] => a = b
      BY <2>5, <3>1
    <3> QED  BY <2>5, <3>2 DEF IsInjective
  <2> DEFINE h == [numBytes |-> c.size, dataSectors |-> f]
  <2>8. h \in Header(Size)
    <3>1. h \in [numBytes: {c.size}, dataSectors: [1 .. k -> Sector]]
      BY <2>5
    <3> QED  BY <2>1, <3>1 DEF Header
  <2>9. /\ loc'[t].dir = [d EXCEPT ![i] = [inUse |-> TRUE, sector |-> s, name |-> c.name]]
        /\ loc'[t].map = freeMap \cup {s} \cup Range(f)
        /\ loc'[t].hdr = h /\ loc'[t].sector = s
        /\ pc'[t] = "writeHdr"
    BY <1>2 DEF Locals, Mark, ThreadType
  <2> h.dataSectors = f
    OBVIOUS
  <2> HIDE DEF h, d, c
  <2>10. Pending(t)' = {s} \cup Range(f)
    BY <2>9 DEF Pending
  <2>11. Others(i)' = Others(i) /\ UNCHANGED <<directory, disk, freeMap>>
    BY DEF image, Others, InUse, Owned, HeaderOf
  <2>12. /\ \A j \in Slot \ {i} : directory[j] = loc'[t].dir[j]
         /\ loc'[t].dir[i].inUse /\ loc'[t].dir[i].sector = s
    <3>1. loc'[t].dir[i] = [inUse |-> TRUE, sector |-> s, name |-> c.name]
      BY <2>1, <2>2, <2>9
    <3>2. \A j \in Slot \ {i} : loc'[t].dir[j] = d[j]
      BY <2>1, <2>2, <2>9
    <3>3. loc'[t].dir[i].inUse /\ loc'[t].dir[i].sector = s
      BY <3>1
    <3>4. d = directory
      BY <2>1
    <3> QED  BY <3>2, <3>3, <3>4
  <2>13. call'[t].op = "Create"
    BY <1>2, <2>1 DEF c
  <2>14. Update(t, i)'
    <3>1. /\ loc'[t].hdr \in Header(Size) /\ IsInjective(loc'[t].hdr.dataSectors)
          /\ loc'[t].sector \notin Range(loc'[t].hdr.dataSectors)
      BY <2>6, <2>7, <2>8, <2>9
    <3>2. Pending(t)' \cap Others(i)' = {}
      BY <2>3, <2>4, <2>6, <2>10, <2>11
    <3>3. freeMap' = Others(i)' /\ loc'[t].map = Others(i)' \cup Pending(t)'
      BY <2>3, <2>9, <2>10, <2>11
    <3>4. /\ \A j \in Slot \ {i} : directory'[j] = loc'[t].dir[j]
          /\ ~directory'[i].inUse
          /\ loc'[t].dir[i].inUse /\ loc'[t].dir[i].sector = loc'[t].sector
      BY <2>2, <2>9, <2>11, <2>12
    <3> QED  BY <2>9, <2>13, <3>1, <3>2, <3>3, <3>4 DEF Update
  <2> QED  BY <2>2, <2>9, <2>13, <2>14 DEF Changing, Opening
<1>3. \/ CreateFails(t)
      \/ \E s \in FirstClear(freeMap) : \E i \in AddIndex(d) :
         \E f \in FirstFit(Mark(freeMap, s), k) :
           /\ loc' = [loc EXCEPT ![t] =
                    Locals([d EXCEPT ![i] = [inUse |-> TRUE, sector |-> s,
                                             name |-> c.name]],
                           Mark(freeMap, s) \cup Range(f),
                           [numBytes |-> c.size, dataSectors |-> f],
                           s)]
           /\ pc' = [pc EXCEPT ![t] = "writeHdr"] /\ call' = call
  BY DEF CreateAllocate, Goto
<1> HIDE DEF d, c, k
<1> QED  BY <1>1, <1>2, <1>3

\* What Remove frees is exactly what the file owned: the update it is about to
\* write satisfies Update.
LEMMA FreeStep ==
  ASSUME ImageType, ThreadType, Control, Disk, UNCHANGED image,
         NEW t \in Thread, RemoveFree(t)
  PROVE  Changing(t)' /\ Opening(t)'
<1> DEFINE d == loc[t].dir
           h == loc[t].hdr
           s == loc[t].sector
<1>1. /\ pc[t] = "fetchMap" /\ call[t].op = "Remove" /\ UNCHANGED <<call, directory, disk, freeMap>>
      /\ pc'[t] = "writeMap"
  BY DEF RemoveFree, At, Goto, ThreadType, image
<1>2. PICK i \in FindIndex(d, call[t].name) :
        loc' = [loc EXCEPT ![t] =
         Locals([d EXCEPT ![i] = [@ EXCEPT !.inUse = FALSE]],
                Deallocate(freeMap, h) \ {s}, h, s)]
  BY DEF RemoveFree
<1>3. /\ loc'[t].dir = [d EXCEPT ![i] = [@ EXCEPT !.inUse = FALSE]]
      /\ loc'[t].map = (freeMap \ Range(h.dataSectors)) \ {s}
      /\ loc'[t].hdr = h /\ loc'[t].sector = s
  BY <1>2 DEF ThreadType, Locals, Deallocate
<1>4. d = directory /\ h = disk[s].hdr /\ d \in [Slot -> Entry]
  BY <1>1 DEF Disk, Changing, ImageType
<1>5. PICK k \in FindIndex(directory, call[t].name) : s = directory[k].sector
  BY <1>1 DEF Disk, Changing
<1> HIDE DEF d, h, s
<1>6. i \in Slot /\ i \in InUse /\ s = directory[i].sector
  <2>1. i = k
    BY <1>2, <1>4, <1>5 DEF FindIndex, Slot
  <2> QED  BY <1>2, <1>4, <1>5, <2>1 DEF FindIndex, Match, InUse
<1>7. h = HeaderOf(i)
  BY <1>4, <1>6 DEF HeaderOf
<1>8. h \in Header(Size) /\ Owned(i) = {s} \cup Range(h.dataSectors)
  BY <1>6, <1>7, OwnedHeader DEF Disk
<1>9. /\ IsInjective(h.dataSectors) /\ s \notin Range(h.dataSectors)
      /\ Owned(i) \cap System = {}
      /\ \A j \in InUse \ {i} : Owned(i) \cap Owned(j) = {}
  BY <1>6, <1>7 DEF Disk, NoSharedSector
<1>10. Owned(i) \cap Others(i) = {}
  BY <1>9 DEF Others
<1>11. freeMap = Others(i) \cup Owned(i)
  BY <1>1, <1>6, QuietMap, AllOthers DEF Disk, InUse
<1>12. loc'[t].map = Others(i) /\ Pending(t)' = Owned(i)
  BY <1>3, <1>8, <1>10, <1>11 DEF Pending
<1>13. Others(i)' = Others(i)
  BY <1>1 DEF Others, InUse, Owned, HeaderOf
<1>14. /\ \A j \in Slot \ {i} : directory[j] = loc'[t].dir[j]
       /\ ~loc'[t].dir[i].inUse
  BY <1>3, <1>4, <1>6 DEF Entry
<1>15. Update(t, i)'
  <2>1. directory[i].inUse
    BY <1>6 DEF InUse
  <2> QED
    BY <1>1, <1>3, <1>4, <1>6, <1>8, <1>9, <1>10, <1>11, <1>12, <1>13, <1>14, <2>1 DEF Update
<1> QED  BY <1>1, <1>6, <1>15 DEF Changing, Opening

\* A step that does not write the disk keeps the invariant of the disk.
LEMMA QuietStep ==
  ASSUME ImageType, ObjectType, ThreadType, Control, Disk,
         NEW t \in Thread, Acts(t), ~ImageAction(t)
  PROVE  Disk'
<1>1. UNCHANGED image /\ UNCHANGED <<freeMap, directory, disk>>
  BY Actions DEF image
<1>2. /\ InUse' = InUse
      /\ \A j \in InUse : HeaderOf(j)' = HeaderOf(j) /\ Owned(j)' = Owned(j)
      /\ \A k \in Slot : Others(k)' = Others(k)
  BY <1>1 DEF InUse, HeaderOf, Owned, Others
<1>3. NoSharedSector'
  BY <1>1, <1>2 DEF Disk, NoSharedSector
<1>4. NoLeak'
  <2>1. \A u \in Thread \ {t} : Updating(u)' = Updating(u)
    BY StepFrame DEF Frame, Updating
  <2>2. ~Updating(t)
    BY WriteActs DEF Updating
  <2>3. UNION {Owned(i) : i \in InUse} = (UNION {Owned(i) : i \in InUse})'
    BY <1>2
  <2> QED  BY <1>1, <2>1, <2>2, <2>3 DEF Disk, NoLeak
<1>5. OpenHeaderOwned'
  <2> SUFFICES ASSUME NEW x \in Handle, file'[x].live
               PROVE  \E i \in InUse : HeaderOf(i) = file'[x].hdr
    BY <1>2 DEF OpenHeaderOwned
  <2>1. CASE file[x].live /\ file'[x].hdr = file[x].hdr
    BY <2>1 DEF Disk, OpenHeaderOwned
  <2>2. CASE OpenHdr(t) /\ file'[x].hdr \in Headers(loc[t].sector)
    <3>1. PICK i \in InUse : directory[i].sector = loc[t].sector
      BY <2>2 DEF OpenHdr, At, Disk, Opening
    <3> QED  BY <2>2, <3>1, OwnedHeader DEF Disk
  <2> QED  BY <2>1, <2>2, LiveObjects
<1>6. Changing(t)' /\ Opening(t)'
  <2>1. CASE pc'[t] \in Settled
    BY <2>1 DEF Settled, Label, Changing, Opening
  <2> QED  BY <1>1, <2>1, SettledStep, FetchStep, AllocateStep, RemoveHdrStep, FreeStep
<1>7. ASSUME NEW u \in Thread \ {t}
      PROVE  Changing(u)' /\ Opening(u)'
  <2>1. pc'[u] = pc[u] /\ call'[u] = call[u] /\ loc'[u] = loc[u]
    BY StepFrame DEF Frame
  <2>2. \A k \in Slot : Update(u, k) => Update(u, k)'
    BY <1>1, <1>2, <2>1, UpdateSame
  <2>3. Changing(u) /\ Opening(u)
    BY DEF Disk
  <2>4. Changing(u)'
    BY <1>1, <2>1, <2>2, <2>3 DEF Changing, Mutating
  <2>5. Opening(u)'
    BY <1>1, <1>2, <2>1, <2>3 DEF Opening
  <2> QED  BY <2>4, <2>5
<1> QED  BY <1>3, <1>4, <1>5, <1>6, <1>7 DEF Disk

\* A reboot, formatting the disk or not, keeps the invariant of the disk.
LEMMA RebootDisk ==
  ASSUME ImageType, ThreadType, Control, Disk, Reboot
  PROVE  Disk' /\ NothingOpen'
<1>1. /\ \A t \in Thread : Outside(t) /\ pc'[t] \in {"boot", "new"}
      /\ disk' = disk /\ file' = [h \in Handle |-> Freed]
  BY DEF Reboot, Booted
<1>2. \A t \in Thread : ~Updating(t) /\ Changing(t)' /\ Opening(t)'
  BY <1>1 DEF Outside, Updating, Changing, Opening
<1>3. \A x \in Handle : ~file'[x].live
  BY <1>1 DEF Freed
<1>4. OpenHeaderOwned' /\ NothingOpen'
  BY <1>3 DEF OpenHeaderOwned, NothingOpen
<1>5. CASE UNCHANGED <<freeMap, directory>>
  <2>1. /\ InUse' = InUse
        /\ \A j \in InUse : HeaderOf(j)' = HeaderOf(j) /\ Owned(j)' = Owned(j)
    BY <1>1, <1>5 DEF InUse, HeaderOf, Owned
  <2>2. NoSharedSector'
    BY <1>5, <2>1 DEF Disk, NoSharedSector
  <2>3. NoLeak'
    <3>1. UNION {Owned(i) : i \in InUse} = (UNION {Owned(i) : i \in InUse})'
      BY <2>1
    <3> QED  BY <1>2, <1>5, <3>1 DEF Disk, NoLeak
  <2> QED  BY <1>2, <1>4, <2>2, <2>3 DEF Disk
<1>6. CASE freeMap' = FormatMap /\ directory' = FormatTable
  <2>1. InUse' = {}
    BY <1>6 DEF InUse, FormatTable, EmptyTable, FreeEntry
  <2> QED  BY <1>2, <1>4, <1>6, <2>1 DEF Disk, NoSharedSector, NoLeak, FormatMap
<1> QED  BY <1>5, <1>6 DEF Reboot

\* No file is opened while main is booting or in Remove.
LEMMA NothingOpenStep ==
  ASSUME ObjectType, ThreadType, Control, NothingOpen, NEW t \in Thread, Acts(t)
  PROVE  NothingOpen'
<1> SUFFICES ASSUME pc'[Main] = "boot" \/ call'[Main].op = "Remove",
                    NEW x \in Handle, file'[x].live
             PROVE  FALSE
  BY DEF NothingOpen
<1>1. t = Main
  <2> SUFFICES ASSUME t \in Program  PROVE FALSE
    BY DEF Thread
  <2>1. pc[Main] = "done" /\ Main # t /\ Main \in Thread
    BY MainDone, Constants DEF Thread
  <2>2. pc'[Main] = "done" /\ call'[Main] = call[Main]
    BY <2>1, StepFrame DEF Frame
  <2>3. call[Main].op # "Remove"
    BY <2>1 DEF Control, Placed, Where, Lookup
  <2> QED  BY <2>2, <2>3
<1>2. (pc[Main] = "boot" \/ call[Main].op = "Remove") /\ ~OpenHdr(Main)
  BY <1>1, RemoveActs
<1>3. file[x].live
  BY <1>1, <1>2, LiveObjects
<1> QED  BY <1>2, <1>3 DEF NothingOpen

-----------------------------------------------------------------------------
(* The invariant.                                                          *)

\* The invariant holds on a machine just booted on a formatted disk.
LEMMA InitInv == Init => Inv
<1> SUFFICES ASSUME Init PROVE Inv
  OBVIOUS
<1> USE DEF Init
<1>1. ImageType
  <2>1. StaleBlock \in [0 .. SectorSize - 1 -> AnyByte]
    BY DEF StaleBlock, AnyByte
  <2> QED  BY <2>1, SystemSectors, EmptyTableType DEF ImageType, FormatMap, FormatTable, DataSector
<1>2. ObjectType
  BY DEF ObjectType, Freed, AnyHeader, Pointer
<1>3. ThreadType
  <2>1. \A t \in Thread : LocalType(t)
    BY NoLocalsType DEF LocalType, NoIO, IO, Pointer
  <2> QED  BY <2>1 DEF ThreadType, Booted, Label
<1>4. Control
  <2>1. \A t \in Thread : call[t].op = "none" /\ pc[t] \in {"boot", "new"}
    BY DEF NoCall, Booted
  <2>2. \A t \in Thread : Placed(t)
    BY <2>1 DEF Placed, Where, Resting, NoCall, NoThen, Then
  <2> QED  BY <2>1, <2>2, Constants DEF Control, Mutating, Booted, Thread
<1>5. InUse = {}
  BY DEF InUse, FormatTable, EmptyTable, FreeEntry
<1>6. NoSharedSector /\ NoLeak
  BY <1>5 DEF NoSharedSector, NoLeak, FormatMap
<1>7. OpenHeaderOwned /\ NothingOpen
  BY DEF OpenHeaderOwned, NothingOpen, Freed
<1>8. \A t \in Thread : Changing(t) /\ Opening(t) /\ Transferring(t)
  BY DEF Changing, Opening, Transferring, Booted, NoCall
<1> QED  BY <1>1, <1>2, <1>3, <1>4, <1>6, <1>7, <1>8 DEF Inv, TypeOK

\* Every step keeps the invariant, if callers make one Create at a time.
LEMMA NextInv ==
  ASSUME "Create" \in Exclusive, Inv, Next
  PROVE  Inv'
<1>1. /\ ImageType /\ ObjectType /\ ThreadType /\ Control /\ NothingOpen
      /\ \A t \in Thread : Changing(t) /\ Transferring(t)
  BY DEF Inv, TypeOK
<1>2. Disk
  BY DEF Inv, Disk
<1>3. Control' /\ ObjectType' /\ ImageType'
  BY <1>1, ControlStep, ObjectStep, ImageStep
<1>4. ThreadType' /\ \A t \in Thread : Transferring(t)'
  BY <1>1, <1>3, ThreadStep, TransferringStep
<1>5. Disk' /\ NothingOpen'
  <2>1. CASE Reboot
    BY <1>1, <1>2, <2>1, RebootDisk
  <2>2. ASSUME NEW t \in Thread, Acts(t)
        PROVE  Disk' /\ NothingOpen'
    <3>1. NothingOpen'
      BY <1>1, <2>2, NothingOpenStep
    <3>2. CASE ~ImageAction(t)
      BY <1>1, <1>2, <2>2, <3>1, <3>2, QuietStep
    <3>3. CASE ImageAction(t)
      BY <1>1, <1>2, <2>2, <3>1, <3>3, WriteHdrStep, WriteDir1Step, WriteDir2Step,
         WriteMapStep, WriteSectorStep DEF ImageAction
    <3> QED  BY <3>2, <3>3
  <2> QED  BY <2>1, <2>2, NextActs
<1> QED  BY <1>3, <1>4, <1>5 DEF Inv, TypeOK, Disk

\* A stuttering step keeps the invariant.
LEMMA StutterInv ==
  ASSUME Inv, UNCHANGED vars
  PROVE  Inv'
<1> USE DEF vars, image, objects
<1>1. TypeOK'
  BY DEF Inv, TypeOK, ImageType, ObjectType, ThreadType, LocalType
<1>2. Control'
  BY DEF Inv, Control, Placed, Mutating
<1>3. NoSharedSector' /\ NoLeak' /\ OpenHeaderOwned' /\ NothingOpen'
  <2>1. /\ InUse' = InUse
        /\ \A i \in InUse : HeaderOf(i)' = HeaderOf(i) /\ Owned(i)' = Owned(i)
    BY DEF InUse, HeaderOf, Owned
  <2>2. NoSharedSector'
    BY <2>1 DEF Inv, NoSharedSector
  <2>3. NoLeak'
    <3>1. (UNION {Owned(i) : i \in InUse})' = UNION {Owned(i) : i \in InUse}
      BY <2>1
    <3> QED  BY <3>1 DEF Inv, NoLeak, Updating
  <2>4. OpenHeaderOwned' /\ NothingOpen'
    BY <2>1 DEF Inv, OpenHeaderOwned, NothingOpen
  <2> QED  BY <2>2, <2>3, <2>4
<1>4. ASSUME NEW t \in Thread
      PROVE  Changing(t)'
  <2>1. \A k \in Slot : Others(k)' = Others(k)
    BY DEF Others, InUse, HeaderOf, Owned
  <2>2. \A k \in Slot : Update(t, k) => Update(t, k)'
    BY <2>1, UpdateSame
  <2> QED  BY <2>2 DEF Inv, Changing, Mutating
<1>5. \A t \in Thread : Opening(t)' /\ Transferring(t)'
  BY DEF Inv, Opening, InUse, Transferring, Live
<1> QED  BY <1>1, <1>2, <1>3, <1>4, <1>5 DEF Inv

\* The invariant implies that all files but the one being created or removed
\* are marked.
LEMMA InvBystanders ==
  ASSUME Inv
  PROVE  BystandersMarked
<1> SUFFICES ASSUME NEW i \in InUse,
                    ~\E t \in Thread : Updating(t) /\ loc[t].sector = directory[i].sector
             PROVE  Owned(i) \subseteq freeMap
  BY DEF BystandersMarked
<1>1. CASE \A t \in Thread : ~Updating(t)
  BY <1>1 DEF Inv, NoLeak
<1>2. ASSUME NEW t \in Thread, Updating(t)
      PROVE  Owned(i) \subseteq freeMap
  <2>1. PICK k \in Slot : Update(t, k)
    BY <1>2 DEF Inv, Changing, Updating
  <2>2. i # k
    BY <1>2, <2>1 DEF Update, InUse
  <2>3. Others(k) \subseteq freeMap
    <3>1. Mutating(t)
      BY <1>2 DEF Inv, Control, Placed, Where, Lookup, Resting, Updating, Mutating
    <3> QED  BY <2>1, <3>1 DEF Update, Mutating
  <2> QED  BY <2>2, <2>3 DEF Others
<1> QED  BY <1>1, <1>2

-----------------------------------------------------------------------------
(* The names in the directory, and Copy.                                   *)

\* Directory::Add puts a new name into the first free entry: names stay in
\* order, and what the entry held before is in use, if at all, further up.
LEMMA AddInOrder ==
  ASSUME NEW table \in [Slot -> Entry], NamesInOrder(table),
         NEW n, ~Found(table, n), NEW k \in AddIndex(table),
         NEW new, new[k].inUse, new[k].name = n, \A j \in Slot \ {k} : table[j] = new[j]
  PROVE  /\ NamesInOrder(new)
         /\ \A j \in Slot \ {k} : new[j].inUse /\ new[j].name = table[k].name => j < k
<1>1. k \in Slot /\ ~table[k].inUse /\ \A j \in 0 .. k - 1 : table[j].inUse
  BY DEF AddIndex
<1>2. \A j \in Slot : table[j].inUse => table[j].name # n
  BY DEF Found, Match
<1>3. \A j \in Slot \ {k} : ~table[j].inUse => k < j
  BY <1>1, Constants DEF Slot
<1>4. NamesInOrder(new)
  BY <1>1, <1>2, <1>3 DEF NamesInOrder
<1>5. \A j \in Slot \ {k} : new[j].inUse /\ new[j].name = table[k].name => j < k
  BY <1>1 DEF NamesInOrder
<1> QED  BY <1>4, <1>5

\* Directory::Remove leaves the name in the entry that it frees.
LEMMA FreeInOrder ==
  ASSUME NEW table \in [Slot -> Entry], NamesInOrder(table), NEW n,
         NEW k \in FindIndex(table, n),
         NEW new, new = [table EXCEPT ![k] = [@ EXCEPT !.inUse = FALSE]]
  PROVE  /\ k \in Slot /\ NamesInOrder(new) /\ ~new[k].inUse
         /\ \A j \in Slot \ {k} : table[j] = new[j]
         /\ \A j \in Slot \ {k} : new[j].inUse /\ new[j].name = table[k].name => j < k
<1>1. k \in Slot /\ table[k].inUse /\ table[k] \in Entry
  BY DEF FindIndex, Match
<1>2. ~new[k].inUse /\ new[k].name = table[k].name
  BY <1>1 DEF Entry
<1>3. \A j \in Slot \ {k} : table[j] = new[j]
  BY <1>1
<1>4. \A j \in Slot \ {k} : table[j].inUse => table[j].name # table[k].name
  BY <1>1 DEF NamesInOrder
<1> QED  BY <1>1, <1>2, <1>3, <1>4 DEF NamesInOrder

\* The name in a joined entry is that of one of the two tables.
LEMMA JoinName ==
  ASSUME NEW a \in [Slot -> Entry], NEW b \in [Slot -> Entry], NEW i \in Slot
  PROVE  Join(a, b)[i].name \in {a[i].name, b[i].name}
<1>1. a[i] \in Entry /\ b[i] \in Entry
  OBVIOUS
<1>2. [a[i] EXCEPT !.name = b[i].name].name = b[i].name
  BY <1>1 DEF Entry
<1> QED  BY <1>1, <1>2 DEF Join

\* A thread that the step leaves alone, while the directory stays as it is.
LEMMA NamingSame ==
  ASSUME NEW u \in Thread, Naming(u), UNCHANGED directory,
         pc'[u] = pc[u], call'[u] = call[u], loc'[u] = loc[u]
  PROVE  Naming(u)' /\ Writing(u)' = Writing(u)
<1>1. Writing(u)' = Writing(u)
  BY DEF Writing
<1>2. \A k \in Slot : Renaming(u, k) => Renaming(u, k)'
  BY DEF Renaming
<1> QED  BY <1>1, <1>2 DEF Naming

\* A lookup, an allocation or a step that leaves the disk alone.
LEMMA NamesQuiet ==
  ASSUME Inv, NameInv, NEW t \in Thread, Acts(t), ~ImageAction(t)
  PROVE  NameInv'
<1>0. ImageType /\ ThreadType /\ Control /\ Disk
  BY DEF Inv, TypeOK, Disk
<1>1. UNCHANGED directory /\ directory \in [Slot -> Entry]
  BY <1>0, Actions DEF image, ImageType
<1>2. \A u \in Thread \ {t} : pc'[u] = pc[u] /\ call'[u] = call[u] /\ loc'[u] = loc[u]
  BY <1>0, StepFrame DEF Frame
<1>3. \A u \in Thread \ {t} : Naming(u)' /\ Writing(u)' = Writing(u)
  BY <1>1, <1>2, NamingSame DEF NameInv
<1>4. ~Writing(t)
  BY WriteActs DEF Writing
<1>5. (\A u \in Thread : ~Writing(u)') => NamesInOrder(directory')
  BY <1>1, <1>3, <1>4 DEF NameInv
<1>6. pc[t] = "fetchMap" => NamesInOrder(directory) /\ loc[t].dir = directory
  <2> SUFFICES ASSUME pc[t] = "fetchMap" PROVE NamesInOrder(directory) /\ loc[t].dir = directory
    OBVIOUS
  <2>1. Mutating(t)
    BY <1>0 DEF Control, Placed, Where, Lookup, Resting, Mutating
  <2>2. \A u \in Thread : ~Writing(u)
    BY <1>0, <2>1, OnlyMutator DEF Writing
  <2> QED  BY <2>2 DEF NameInv, Inv, Changing
<1>7. Naming(t)'
  <2>1. CASE pc'[t] \in Settled
    BY <2>1 DEF Settled, Label, Naming, Writing
  <2>2. CASE FetchDir1(t) \/ RemoveHdr(t)
    <3>1. pc'[t] = "fetchDir2" \/ (pc'[t] = "fetchMap" /\ call'[t].op = "Remove")
      BY <1>0, <2>2 DEF FetchDir1, RemoveHdr, Goto, ThreadType
    <3> QED  BY <3>1 DEF Naming, Writing
  <2>3. CASE FetchDir2(t)
    <3> DEFINE d == Join(loc[t].dir, directory)
    <3>1. CASE \E op, ok, data : Return(t, op, ok, data)
      <4>1. pc'[t] \in Resting
        BY <1>0, <3>1, Returned
      <4> QED  BY <4>1 DEF Naming, Writing, Resting
    <3>2. CASE /\ ~Found(d, call[t].name) /\ Goto(t, "fetchMap") /\ call' = call
               /\ loc' = [loc EXCEPT ![t] = Locals(d, {}, NoHeader, 0)]
      <4> HIDE DEF d
      <4>1. pc'[t] = "fetchMap" /\ loc'[t].dir = d
        BY <1>0, <3>2 DEF Goto, ThreadType, Locals
      <4> QED  BY <3>2, <4>1 DEF Naming, Writing
    <3>3. CASE Goto(t, "fetchHdr")
      <4>1. pc'[t] = "fetchHdr"
        BY <1>0, <3>3 DEF Goto, ThreadType
      <4> QED  BY <4>1 DEF Naming, Writing
    <3> QED  BY <2>3, <3>1, <3>2, <3>3 DEF FetchDir2
  <2>4. CASE CreateAllocate(t)
    <3>1. CASE \E op, ok, data : Return(t, op, ok, data)
      <4>1. pc'[t] \in Resting
        BY <1>0, <3>1, Returned
      <4> QED  BY <4>1 DEF Naming, Writing, Resting
    <3>2. ASSUME NEW s, NEW i \in AddIndex(loc[t].dir), NEW map, NEW hdr,
                 loc' = [loc EXCEPT ![t] =
                    Locals([loc[t].dir EXCEPT ![i] = [inUse |-> TRUE, sector |-> s,
                                                      name |-> call[t].name]], map, hdr, s)],
                 Goto(t, "writeHdr"), call' = call
          PROVE  Naming(t)'
      <4> DEFINE new == [directory EXCEPT ![i] = [inUse |-> TRUE, sector |-> s,
                                                  name |-> call[t].name]]
      <4>1. pc[t] = "fetchMap" /\ call[t].op = "Create"
        BY <2>4 DEF CreateAllocate, At
      <4>2. /\ ~Found(directory, call[t].name) /\ NamesInOrder(directory)
            /\ i \in AddIndex(directory) /\ loc[t].dir = directory
        BY <1>6, <3>2, <4>1 DEF NameInv, Naming
      <4>3. pc'[t] = "writeHdr" /\ loc'[t].dir = new
        BY <1>0, <3>2, <4>2 DEF Goto, ThreadType, Locals
      <4>new. new = [directory EXCEPT ![i] = [inUse |-> TRUE, sector |-> s, name |-> call[t].name]]
        OBVIOUS
      <4> HIDE DEF new
      <4>slot. /\ i \in Slot /\ new[i].inUse /\ new[i].name = call[t].name
               /\ \A j \in Slot \ {i} : directory[j] = new[j]
        BY <1>1, <4>2, <4>new DEF AddIndex
      <4>4. /\ NamesInOrder(new)
            /\ \A j \in Slot \ {i} : new[j].inUse /\ new[j].name = directory[i].name => j < i
        BY <1>1, <4>2, <4>slot, AddInOrder
      <4>5. Renaming(t, i)'
        BY <1>1, <3>2, <4>1, <4>3, <4>slot, <4>4 DEF Renaming
      <4> QED  BY <4>3, <4>slot, <4>4, <4>5 DEF Naming
    <3> QED  BY <2>4, <3>1, <3>2 DEF CreateAllocate, CreateFails
  <2>5. CASE RemoveFree(t)
    <3>1. /\ pc[t] = "fetchMap" /\ call[t].op = "Remove" /\ call' = call
          /\ pc'[t] = "writeMap"
      BY <1>0, <2>5 DEF RemoveFree, At, Goto, ThreadType
    <3>2. loc[t].dir = directory /\ NamesInOrder(directory)
      BY <1>6, <3>1
    <3>i. PICK i \in FindIndex(loc[t].dir, call[t].name) :
            \E map : loc' = [loc EXCEPT ![t] =
              Locals([loc[t].dir EXCEPT ![i] = [@ EXCEPT !.inUse = FALSE]], map,
                     loc[t].hdr, loc[t].sector)]
      BY <2>5 DEF RemoveFree
    <3>3. /\ i \in FindIndex(directory, call[t].name)
          /\ loc'[t].dir = [directory EXCEPT ![i] = [@ EXCEPT !.inUse = FALSE]]
      BY <1>0, <3>2, <3>i DEF ThreadType, Locals
    <3> DEFINE new == loc'[t].dir
    <3>4. /\ i \in Slot /\ NamesInOrder(new) /\ ~new[i].inUse
          /\ \A j \in Slot \ {i} : directory[j] = new[j]
          /\ \A j \in Slot \ {i} : new[j].inUse /\ new[j].name = directory[i].name => j < i
      BY <1>1, <3>2, <3>3, FreeInOrder
    <3>5. Renaming(t, i)'
      BY <1>1, <3>1, <3>4 DEF Renaming
    <3> QED  BY <3>1, <3>4, <3>5 DEF Naming
  <2> QED  BY <1>0, <2>1, <2>2, <2>3, <2>4, <2>5, SettledStep
<1> QED  BY <1>3, <1>5, <1>7 DEF NameInv

\* The writes of Create and Remove, and the write of a data sector.
LEMMA NamesWritten ==
  ASSUME Inv, NameInv, NEW t \in Thread, Acts(t), ImageAction(t)
  PROVE  NameInv'
<1>0. ImageType /\ ThreadType /\ Control
  BY DEF Inv, TypeOK
<1>1. /\ directory \in [Slot -> Entry] /\ loc[t].dir \in [Slot -> Entry]
      /\ \A u \in Thread \ {t} : pc'[u] = pc[u] /\ call'[u] = call[u] /\ loc'[u] = loc[u]
  BY <1>0, StepFrame DEF Frame, ImageType, ThreadType, LocalType
<1>2. CASE WriteSector(t)
  <2>1. UNCHANGED directory /\ pc[t] = "write" /\ pc'[t] \in Resting \cup {"write"}
    BY <1>0, <1>2, Returned DEF WriteSector, In, At, Transferred
  <2>2. \A u \in Thread \ {t} : Naming(u)' /\ Writing(u)' = Writing(u)
    BY <1>1, <2>1, NamingSame DEF NameInv
  <2>3. ~Writing(t) /\ Naming(t)'
    BY <2>1 DEF Writing, Naming, Resting
  <2> QED  BY <2>1, <2>2, <2>3 DEF NameInv
<1>3. ASSUME Writing(t), Naming(t)',
             ~Writing(t)' => NamesInOrder(directory')
      PROVE  NameInv'
  <2>1. Mutating(t)
    BY <1>0, <1>3 DEF Control, Placed, Where, Lookup, Resting, Mutating, Writing
  <2>2. \A u \in Thread \ {t} : Naming(u)'
    BY <1>0, <1>1, <2>1, OnlyMutator DEF Naming, Writing
  <2> QED  BY <1>3, <2>2 DEF NameInv
<1>4. ASSUME Writing(t)
      PROVE  NamesInOrder(loc[t].dir) /\ \E k \in Slot : Renaming(t, k)
  BY <1>4 DEF NameInv, Naming
<1>5. CASE WriteHdr(t)
  <2>1. /\ pc[t] = "writeHdr" /\ pc'[t] = "writeDir1" /\ UNCHANGED <<call, loc, directory>>
    BY <1>0, <1>5 DEF WriteHdr, At, Goto, ThreadType
  <2>2. Writing(t) /\ Writing(t)'
    BY <2>1 DEF Writing
  <2>3. \A k \in Slot : Renaming(t, k) => Renaming(t, k)'
    BY <2>1 DEF Renaming
  <2>4. Naming(t)'
    BY <1>4, <2>1, <2>2, <2>3 DEF Naming
  <2> QED  BY <1>3, <2>2, <2>4
<1>6. CASE WriteDir1(t)
  <2>1. /\ pc[t] = "writeDir1" /\ pc'[t] = "writeDir2" /\ UNCHANGED <<call, loc>>
        /\ directory' = Join(loc[t].dir, directory)
    BY <1>0, <1>6 DEF WriteDir1, At, Goto, ThreadType
  <2>2. Writing(t) /\ Writing(t)'
    BY <2>1 DEF Writing
  <2>3. PICK k \in Slot : Renaming(t, k)
    BY <1>4, <2>2
  <2>4. Join(directory', loc[t].dir) = loc[t].dir
    BY <1>1, <2>1, JoinBack
  <2>5. \A j \in Slot \ {k} : directory'[j] = loc[t].dir[j]
    <3>1. \A j \in Slot \ {k} : directory[j] = loc[t].dir[j]
      BY <2>3 DEF Renaming
    <3> QED  BY <1>1, <2>1, <3>1, JoinEntry
  <2>6. directory'[k].name \in {loc[t].dir[k].name, directory[k].name}
    BY <1>1, <2>1, JoinName
  <2>7. \A j \in Slot \ {k} :
          loc[t].dir[j].inUse /\ loc[t].dir[j].name = directory'[k].name => j < k
    BY <1>4, <2>2, <2>3, <2>6 DEF Renaming, NamesInOrder
  <2>8. Renaming(t, k)'
    BY <2>1, <2>3, <2>4, <2>5, <2>7 DEF Renaming
  <2>9. Naming(t)'
    BY <1>4, <2>1, <2>2, <2>8 DEF Naming
  <2> QED  BY <1>3, <2>2, <2>9
<1>7. CASE WriteDir2(t)
  <2>1. pc[t] = "writeDir2" /\ Writing(t) /\ directory' = Join(directory, loc[t].dir)
    BY <1>7 DEF WriteDir2, At, Writing
  <2>2. PICK k \in Slot : Renaming(t, k)
    BY <1>4, <2>1
  <2>3. directory' = loc[t].dir /\ NamesInOrder(directory')
    BY <1>4, <2>1, <2>2 DEF Renaming
  <2>4. CASE \E op, ok, data : Return(t, op, ok, data)
    <3>1. pc'[t] \in Resting
      BY <1>0, <2>4, Returned
    <3> QED  BY <1>3, <2>1, <2>3, <3>1 DEF Naming, Writing, Resting
  <2>5. CASE call[t].op = "Create" /\ Goto(t, "writeMap") /\ UNCHANGED <<call, loc>>
    <3>1. pc'[t] = "writeMap" /\ Writing(t)'
      BY <1>0, <2>5 DEF Goto, ThreadType, Writing
    <3>2. \A j \in Slot \ {k} :
            loc[t].dir[j].inUse /\ loc[t].dir[j].name = directory'[k].name => j < k
      BY <2>3 DEF NamesInOrder
    <3>3. Renaming(t, k)'
      BY <2>2, <2>3, <2>5, <3>1, <3>2 DEF Renaming
    <3>4. Naming(t)'
      BY <2>3, <2>5, <3>1, <3>3 DEF Naming
    <3> QED  BY <1>3, <2>1, <2>3, <3>4
  <2> QED  BY <1>7, <2>4, <2>5 DEF WriteDir2
<1>8. CASE WriteMap(t)
  <2>1. pc[t] = "writeMap" /\ Writing(t) /\ UNCHANGED directory
    BY <1>8 DEF WriteMap, At, Writing
  <2>2. PICK k \in Slot : Renaming(t, k)
    BY <1>4, <2>1
  <2>3. CASE call[t].op = "Create" /\ \E op, ok, data : Return(t, op, ok, data)
    <3>1. pc'[t] \in Resting
      BY <1>0, <2>3, Returned
    <3>2. NamesInOrder(directory')
      BY <1>4, <2>1, <2>2, <2>3 DEF Renaming
    <3> QED  BY <1>3, <2>1, <3>1, <3>2 DEF Naming, Writing, Resting
  <2>4. CASE call[t].op = "Remove" /\ Goto(t, "writeDir1") /\ UNCHANGED <<call, loc>>
    <3>1. pc'[t] = "writeDir1" /\ Writing(t)'
      BY <1>0, <2>4 DEF Goto, ThreadType, Writing
    <3>2. Renaming(t, k)'
      BY <2>1, <2>2, <2>4, <3>1 DEF Renaming
    <3>3. Naming(t)'
      BY <1>4, <2>1, <2>4, <3>1, <3>2 DEF Naming
    <3> QED  BY <1>3, <2>1, <3>1, <3>3
  <2> QED  BY <1>8, <2>3, <2>4 DEF WriteMap
<1> QED  BY <1>2, <1>5, <1>6, <1>7, <1>8 DEF ImageAction

\* Names stay in order.
LEMMA NamesStep == ASSUME Inv, NameInv, [Next]_vars PROVE NameInv'
<1>1. CASE UNCHANGED vars
  <2>1. \A u \in Thread : Naming(u)' /\ Writing(u)' = Writing(u)
    BY <1>1, NamingSame DEF vars, image, NameInv
  <2> QED  BY <1>1, <2>1 DEF vars, image, NameInv
<1>2. CASE Reboot
  <2>1. \A u \in Thread : Naming(u)' /\ ~Writing(u)
    BY <1>2 DEF Reboot, Booted, Naming, Writing, Outside
  <2>2. CASE UNCHANGED directory
    BY <2>1, <2>2 DEF NameInv
  <2>3. CASE directory' = FormatTable
    BY <2>1, <2>3 DEF NameInv, FormatTable, EmptyTable, FreeEntry, NamesInOrder
  <2> QED  BY <1>2, <2>2, <2>3 DEF Reboot
<1> QED  BY <1>1, <1>2, NamesQuiet, NamesWritten, NextActs

\* An entry that is being changed hides no other file.
LEMMA TornSafe == ASSUME Inv, NameInv PROVE TornDirectorySafe
<1> SUFFICES ASSUME NEW t \in Thread, Updating(t), NEW n \in Name \ {call[t].name},
                    Found(loc[t].dir, n)
             PROVE  FindIndex(directory, n) = FindIndex(loc[t].dir, n)
  BY DEF TornDirectorySafe
<1>1. Writing(t) /\ Mutating(t)
  BY DEF Updating, Writing, Mutating, Inv, Control, Placed, Where, Lookup, Resting
<1>2. NamesInOrder(loc[t].dir)
  BY <1>1 DEF NameInv, Naming
<1>3. PICK k \in Slot : Renaming(t, k)
  BY <1>1 DEF NameInv, Naming
<1>4. PICK i \in Slot : loc[t].dir[i].inUse /\ loc[t].dir[i].name = n
  BY DEF Found, Match
<1>5. \A j \in Slot : Match(loc[t].dir, j, n) <=> j = i
  BY <1>2, <1>4 DEF NamesInOrder, Match
<1>6. i # k
  BY <1>1, <1>3, <1>4 DEF Renaming, Mutating
<1>7. Match(directory, i, n) /\ \A j \in Slot : Match(directory, j, n) => j = i \/ i < j
  <2>1. \A j \in Slot \ {k} : Match(directory, j, n) <=> Match(loc[t].dir, j, n)
    BY <1>3 DEF Renaming, Match
  <2>2. Match(directory, k, n) => i < k
    BY <1>3, <1>4, <1>6 DEF Renaming, Match
  <2> QED  BY <1>5, <1>6, <2>1, <2>2
<1>8. FindIndex(loc[t].dir, n) = {i}
  BY <1>5, Constants DEF FindIndex, Slot
<1>9. FindIndex(directory, n) = {i}
  BY <1>7, Constants DEF FindIndex, Slot
<1> QED  BY <1>8, <1>9

\* What Remove has read of a file is marked when it is about to be freed.
LEMMA RemoveMarked ==
  ASSUME Inv, NEW t \in Thread, pc[t] = "fetchMap", call[t].op = "Remove"
  PROVE  Marked(t)
<1>1. PICK k \in FindIndex(directory, call[t].name) : loc[t].sector = directory[k].sector
  BY DEF Inv, Changing
<1>2. k \in InUse /\ loc[t].hdr = HeaderOf(k)
  BY <1>1 DEF Inv, Changing, FindIndex, Match, InUse, HeaderOf
<1>3. HeaderOf(k) # Garbage /\ IsInjective(HeaderOf(k).dataSectors)
  BY <1>2 DEF Inv, NoSharedSector
<1>4. Range(HeaderOf(k).dataSectors) \subseteq Owned(k)
  BY <1>3 DEF Owned
<1>5. Owned(k) \subseteq freeMap
  BY <1>2, QuietMap DEF Inv
<1> QED  BY <1>2, <1>3, <1>4, <1>5 DEF Marked

\* A call of main's that returns.
LEMMA CopyReturn ==
  ASSUME ThreadType, CopyInv, NEW op, NEW ok \in BOOLEAN, NEW data,
         Return(Main, op, ok, data),
         ok /\ cont[Main].next = "copyOpen" => Found(directory', fd'[Main]),
         ~ok => cont[Main].fail # "noFile"
  PROVE  CopyInv'
<1>1. Main \in Thread
  BY DEF Thread
<1>2. /\ pc'[Main] = IF ok THEN cont[Main].next ELSE cont[Main].fail
      /\ cont'[Main].next = "idle" /\ cont'[Main].fail = "idle"
  BY <1>1 DEF Return, Goto, ThreadType, NoThen, Then
<1> QED  BY <1>2 DEF CopyInv

\* A step of main's inside a call.
LEMMA CopyGoes ==
  ASSUME CopyInv, pc'[Main] \notin {"noFile", "copyOpen"},
         call'[Main] = call[Main], cont'[Main] = cont[Main], fd' = fd,
         call[Main].op = "Open" => UNCHANGED directory,
         call[Main].op = "Open" /\ pc'[Main] = "fetchDir2" =>
           Join(loc'[Main].dir, directory) = directory
  PROVE  CopyInv'
  BY DEF CopyInv

\* A step of main's outside of Create and Open, to where it is not in them.
LEMMA CopyAway ==
  ASSUME CopyInv, pc'[Main] \notin {"noFile", "copyOpen"},
         \/ cont'[Main] = cont[Main] /\ call[Main].op \notin {"Create", "Open"}
         \/ /\ cont'[Main].next \notin {"copyOpen", "noFile"}
            /\ cont'[Main].fail \notin {"copyOpen", "noFile"}
  PROVE  CopyInv'
  BY DEF CopyInv

\* The commands of main.
LEMMA CopyCommands ==
  ASSUME ThreadType, Control, CopyInv, Commands
  PROVE  CopyInv'
<1>0. Main \in Thread
  BY DEF Thread
<1>1. ASSUME NEW op, NEW n, NEW size, NEW next, NEW fail,
             Begin(Main, op, n, size, next, fail)
      PROVE  /\ pc'[Main] = "fetchDir1" /\ UNCHANGED directory
             /\ call'[Main].op = op /\ call'[Main].name = n
             /\ cont'[Main].next = next /\ cont'[Main].fail = fail
  BY <1>0, <1>1 DEF Begin, ThreadType, NoCall, Then, image
<1>2. CASE RemoveBegin
  <2>1. PICK n \in Name : Begin(Main, "Remove", n, 0, "removed", "removed")
    BY <1>2 DEF RemoveBegin
  <2> QED  BY <1>1, <2>1, CopyAway
<1>3. CASE CopyBegin
  <2>1. PICK n \in Name, size \in Size : /\ Begin(Main, "Create", n, size, "copyOpen", "copied")
                                         /\ fd' = [fd EXCEPT ![Main] = n]
    BY <1>3 DEF CopyBegin
  <2>2. fd'[Main] = n
    BY <1>0, <2>1 DEF ThreadType
  <2> QED  BY <1>1, <2>1, <2>2 DEF CopyInv
<1>4. CASE CopyOpen
  <2>1. /\ Begin(Main, "Open", fd[Main], 0, "copy", "noFile") /\ UNCHANGED fd
        /\ pc[Main] = "copyOpen"
    BY <1>4 DEF CopyOpen, Enter
  <2>2. Found(directory, fd[Main])
    BY <2>1 DEF CopyInv
  <2> QED  BY <1>1, <2>1, <2>2 DEF CopyInv
<1>5. CASE PrintBegin
  <2>1. PICK n \in Name : Begin(Main, "Open", n, 0, "print", "printed")
    BY <1>5 DEF PrintBegin
  <2> QED  BY <1>1, <2>1, CopyAway
<1>6. ASSUME pc[Main] \in {"copy", "print", "close"}
      PROVE  call[Main].op = "none"
  BY <1>0, <1>6 DEF Control, Placed, Where, Lookup
<1>7. ASSUME NEW c, NEW first \in {"read", "writeFirst", "writeLast", "write"}, NEW buf,
             NEW next \in {"copy", "print", "close"}, Transfer(Main, c, first, buf, next),
             pc[Main] \in {"copy", "print"}
      PROVE  CopyInv'
  <2>1. pc'[Main] \notin {"noFile", "copyOpen"}
    BY <1>0, <1>7 DEF Transfer, Goto, ThreadType
  <2>2. cont'[Main] = cont[Main] \/ cont'[Main] = Then(next, next)
    BY <1>0, <1>7 DEF Transfer, ThreadType
  <2> QED  BY <1>6, <1>7, <2>1, <2>2, CopyAway DEF Then
<1>8. CASE CopyWrite
  <2>1. PICK len, from : WriteAt(Main, len, from, "copy") /\ pc[Main] = "copy"
    BY <1>8 DEF CopyWrite, Enter
  <2> QED  BY <1>7, <2>1 DEF WriteAt
<1>9. CASE PrintRead
  <2>1. PICK next \in {"close", "print"} :
          ReadAt(Main, TransferSize, next) /\ pc[Main] = "print"
    BY <1>9 DEF PrintRead, Enter
  <2> QED  BY <1>7, <2>1 DEF ReadAt
<1>10. CASE CopyDelete \/ PrintDelete
  <2>1. /\ pc[Main] \in {"copy", "close"} /\ cont' = cont
        /\ pc'[Main] \in {"copied", "printed"}
    BY <1>0, <1>10 DEF CopyDelete, PrintDelete, Delete, At, Goto, ThreadType
  <2> QED  BY <1>6, <2>1, CopyAway
<1> QED  BY <1>2, <1>3, <1>4, <1>5, <1>8, <1>9, <1>10 DEF Commands

\* The steps of main inside its calls.
LEMMA CopySteps ==
  ASSUME ImageType, ThreadType, Control, NameInv, CopyInv, Step(Main)
  PROVE  CopyInv'
<1>0. Main \in Thread
  BY DEF Thread
<1>1. \A label : Goto(Main, label) => pc'[Main] = label
  BY <1>0 DEF Goto, ThreadType
<1>2. Where(call[Main].op, pc[Main])
  BY <1>0 DEF Control, Placed
<1>3. CASE FetchDir1(Main)
  <2>1. /\ pc'[Main] = "fetchDir2" /\ UNCHANGED <<directory, call, cont, fd>>
        /\ loc'[Main].dir = Join(directory, EmptyTable)
    BY <1>0, <1>1, <1>3 DEF FetchDir1, ThreadType, Locals, image
  <2>2. Join(loc'[Main].dir, directory) = directory
    BY <2>1, JoinBack, EmptyTableType DEF ImageType
  <2> QED  BY <2>1, <2>2, CopyGoes
<1>4. CASE FetchDir2(Main)
  <2> DEFINE d == Join(loc[Main].dir, directory)
  <2>1. UNCHANGED directory /\ pc[Main] = "fetchDir2"
    BY <1>4 DEF FetchDir2, At, image
  <2>2. CASE /\ call[Main].op \in {"Create", "Remove"}
             /\ Return(Main, call[Main].op, FALSE, <<>>)
    <3>1. cont[Main].fail # "noFile"
      BY <2>2 DEF CopyInv
    <3> QED  BY <2>2, <3>1, CopyReturn
  <2>3. CASE /\ call[Main].op \in {"Open", "Load"} /\ ~Found(d, call[Main].name)
             /\ Return(Main, call[Main].op, FALSE, <<>>)
    <3>1. cont[Main].fail # "noFile"
      BY <2>1, <2>3 DEF CopyInv
    <3> QED  BY <2>3, <3>1, CopyReturn
  <2>4. CASE /\ Goto(Main, "fetchMap") \/ Goto(Main, "fetchHdr")
             /\ UNCHANGED <<call, cont, fd>>
    BY <1>1, <2>1, <2>4, CopyGoes
  <2> QED  BY <1>4, <2>2, <2>3, <2>4 DEF FetchDir2
<1>5. CASE CreateAllocate(Main)
  <2>1. CASE call[Main].op = "Create" /\ Return(Main, "Create", FALSE, <<>>)
    <3>1. cont[Main].fail # "noFile"
      BY <2>1 DEF CopyInv
    <3> QED  BY <2>1, <3>1, CopyReturn
  <2>2. CASE Goto(Main, "writeHdr") /\ UNCHANGED <<directory, call, cont, fd>>
    BY <1>1, <2>2, CopyGoes
  <2> QED  BY <1>5, <2>1, <2>2 DEF CreateAllocate, CreateFails, image
<1>6. CASE RemoveHdr(Main) \/ RemoveFree(Main)
  <2>1. /\ Goto(Main, "fetchMap") \/ Goto(Main, "writeMap")
        /\ UNCHANGED <<directory, call, cont, fd>>
    BY <1>6 DEF RemoveHdr, RemoveFree, image
  <2> QED  BY <1>1, <2>1, CopyGoes
<1>7. CASE WriteHdr(Main) \/ WriteDir1(Main)
  <2>1. /\ Goto(Main, "writeDir1") \/ Goto(Main, "writeDir2")
        /\ UNCHANGED <<call, cont, fd>> /\ pc[Main] \in {"writeHdr", "writeDir1"}
    BY <1>7 DEF WriteHdr, WriteDir1, At
  <2>2. call[Main].op # "Open"
    BY <1>2, <2>1 DEF Where, Lookup, Resting
  <2> QED  BY <1>1, <2>1, <2>2, CopyGoes
<1>8. CASE WriteDir2(Main)
  <2>1. CASE call[Main].op = "Create" /\ Goto(Main, "writeMap") /\ UNCHANGED <<call, cont, fd>>
    BY <1>1, <2>1, CopyGoes
  <2>2. CASE call[Main].op = "Remove" /\ Return(Main, "Remove", TRUE, <<>>)
    <3>1. cont[Main].next # "copyOpen"
      BY <2>2 DEF CopyInv
    <3> QED  BY <2>2, <3>1, CopyReturn
  <2> QED  BY <1>8, <2>1, <2>2 DEF WriteDir2
<1>9. CASE WriteMap(Main)
  <2>1. pc[Main] = "writeMap" /\ UNCHANGED <<directory, fd>>
    BY <1>9 DEF WriteMap, At
  <2>2. CASE call[Main].op = "Remove" /\ Goto(Main, "writeDir1") /\ UNCHANGED <<call, cont>>
    BY <1>1, <2>1, <2>2, CopyGoes
  <2>3. CASE call[Main].op = "Create" /\ Return(Main, "Create", TRUE, <<>>)
    <3>1. PICK k \in Slot : Renaming(Main, k)
      BY <1>0, <2>1 DEF NameInv, Naming, Writing
    <3>2. Found(directory, call[Main].name)
      BY <2>1, <2>3, <3>1 DEF Renaming, Found, Match
    <3>3. cont[Main].next = "copyOpen" => Found(directory', fd'[Main])
      BY <2>1, <3>2 DEF CopyInv
    <3> QED  BY <2>3, <3>3, CopyReturn
  <2> QED  BY <1>9, <2>2, <2>3 DEF WriteMap
<1>10. ASSUME call[Main].op \in {"Open", "Load", "Read", "Write"}, NEW op, NEW data,
              Return(Main, op, TRUE, data)
       PROVE  CopyInv'
  <2>1. cont[Main].next # "copyOpen"
    BY <1>10 DEF CopyInv
  <2> QED  BY <1>10, <2>1, CopyReturn
<1>11. CASE OpenHdr(Main)
  <2>1. CASE call[Main].op = "Open"
    BY <1>10, <1>11, <2>1 DEF OpenHdr
  <2>2. CASE call[Main].op = "Load"
    <3>1. Goto(Main, "load") /\ UNCHANGED <<directory, call, cont, fd>>
      BY <1>11, <2>2 DEF OpenHdr, image
    <3> QED  BY <1>1, <3>1, CopyGoes
  <2> QED  BY <1>11, <2>1, <2>2 DEF OpenHdr
<1>12. CASE LoadDelete(Main)
  <2>1. call[Main].op = "Load" /\ Return(Main, "Load", TRUE, <<>>)
    BY <1>2, <1>12 DEF LoadDelete, At, Where, Lookup, Resting
  <2> QED  BY <1>10, <2>1
<1>13. CASE ReadSector(Main) \/ WriteSector(Main)
  <2>1. pc[Main] \in {"read", "write"} /\ UNCHANGED <<directory, fd>>
    BY <1>13 DEF ReadSector, WriteSector, In, At, image
  <2>2. call[Main].op \in {"Read", "Write"}
    BY <1>2, <2>1 DEF Where, Lookup, Resting
  <2>3. CASE UNCHANGED <<pc, call, cont>>
    BY <2>1, <2>2, <2>3, CopyGoes
  <2>4. CASE \E op, data : Return(Main, op, TRUE, data)
    BY <1>10, <2>2, <2>4
  <2> QED  BY <1>13, <2>3, <2>4 DEF ReadSector, WriteSector, Transferred
<1>14. CASE WriteFirst(Main) \/ WriteLast(Main)
  <2>1. /\ Goto(Main, "writeLast") \/ Goto(Main, "write")
        /\ UNCHANGED <<directory, call, cont, fd>>
    BY <1>14 DEF WriteFirst, WriteLast, image
  <2> QED  BY <1>1, <2>1, CopyGoes
<1>15. CASE Finish(Main)
  <2>1. /\ pc'[Main] = "done" /\ cont' = cont
        /\ pc[Main] \in {"boot", "removed", "copied", "printed"}
    BY <1>1, <1>15 DEF Finish
  <2>2. call[Main].op = "none"
    BY <1>2, <2>1 DEF Where, Lookup
  <2> QED  BY <2>1, <2>2, CopyAway
<1> QED
  BY <1>3, <1>4, <1>5, <1>6, <1>7, <1>8, <1>9, <1>11, <1>12, <1>13, <1>14, <1>15 DEF Step

\* Copy finds what it has created.
LEMMA CopyStep == ASSUME Inv, NameInv, CopyInv, [Next]_vars PROVE CopyInv'
<1>0. ImageType /\ ThreadType /\ Control /\ Main \in Thread
  BY DEF Inv, TypeOK, Thread
<1>1. CASE UNCHANGED vars
  BY <1>1 DEF vars, image, CopyInv
<1>2. CASE Reboot
  <2>1. /\ pc'[Main] = "boot" /\ cont' = cont /\ Outside(Main)
    BY <1>0, <1>2 DEF Reboot, Booted
  <2>2. call[Main].op = "none"
    BY <1>0, <2>1 DEF Control, Placed, Where, Lookup, Outside
  <2> QED  BY <2>1, <2>2, CopyAway
<1>3. CASE Acts(Main)
  <2>1. Main \notin Program
    BY Constants
  <2> QED  BY <1>0, <1>3, <2>1, CopyCommands, CopySteps DEF Acts
<1>4. ASSUME NEW t \in Program, Acts(t)
      PROVE  CopyInv'
  <2>1. t \in Thread /\ t # Main /\ pc[Main] = "done"
    BY <1>0, <1>4, MainDone, Constants DEF Thread
  <2>2. pc'[Main] = "done" /\ cont'[Main] = cont[Main]
    BY <1>0, <1>4, <2>1, StepFrame DEF Frame
  <2>3. call[Main].op = "none"
    BY <1>0, <2>1 DEF Control, Placed, Where, Lookup
  <2> QED  BY <2>2, <2>3, CopyAway
<1> QED  BY <1>1, <1>2, <1>3, <1>4, NextActs DEF Thread

\* A formatted disk has no names.
LEMMA InitNames == Init => NameInv /\ CopyInv
<1> SUFFICES ASSUME Init PROVE NameInv /\ CopyInv
  OBVIOUS
<1>1. \A t \in Thread : Naming(t)
  BY DEF Init, Booted, Naming, Writing
<1>2. NamesInOrder(directory)
  BY DEF Init, FormatTable, EmptyTable, FreeEntry, NamesInOrder
<1>3. CopyInv
  BY DEF Init, Booted, Thread, NoThen, Then, CopyInv
<1> QED  BY <1>1, <1>2, <1>3 DEF NameInv

-----------------------------------------------------------------------------
(* Theorems.                                                               *)

\* If at most one caller at a time is in Create, the invariant holds in every
\* reachable state of the file system (FileSystem::Create, Open, Remove and
\* the OpenFile operations, sector by sector), whatever the number of
\* programs, names, sectors and sizes.
THEOREM Invariance ==
  ASSUME "Create" \in Exclusive
  PROVE  Spec => []Inv
<1>1. Inv /\ [Next]_vars => Inv'
  BY NextInv, StutterInv
<1> QED  BY <1>1, InitInv, PTL DEF Spec

\* Every variable keeps its type: in particular every sector number that
\* reaches the bitmap, a header or the disk is one of the disk's.
THEOREM TypeCorrect ==
  ASSUME "Create" \in Exclusive
  PROVE  Spec => []TypeOK
<1>1. Inv => TypeOK
  BY DEF Inv
<1> QED  BY <1>1, Invariance, PTL

\* No sector is ever in two files on the disk, nor in a file and in the
\* system, even between two writes of Create and Remove.
THEOREM SectorsUnshared ==
  ASSUME "Create" \in Exclusive
  PROVE  Spec => []NoSharedSector
<1>1. Inv => NoSharedSector
  BY DEF Inv
<1> QED  BY <1>1, Invariance, PTL

\* The bitmap on the disk marks every sector of every file but the one that
\* Create or Remove is at, at every write of either.
THEOREM OthersMarked ==
  ASSUME "Create" \in Exclusive
  PROVE  Spec => []BystandersMarked
BY Invariance, InvBystanders, PTL

\* When no Create or Remove is writing, the bitmap marks the sectors of the
\* system and of the files in the directory, and no others.
THEOREM NothingLeaked ==
  ASSUME "Create" \in Exclusive
  PROVE  Spec => []NoLeak
<1>1. Inv => NoLeak
  BY DEF Inv
<1> QED  BY <1>1, Invariance, PTL

\* The header that an OpenFile object keeps is at all times that of a file in
\* the directory.
THEOREM OpenHeaders ==
  ASSUME "Create" \in Exclusive
  PROVE  Spec => []OpenHeaderOwned
<1>1. Inv => OpenHeaderOwned
  BY DEF Inv
<1> QED  BY <1>1, Invariance, PTL

\* A directory written by half shows every file but the one that Create or
\* Remove is at, in the entry it has: Directory::FindIndex takes the first
\* match, and no old name lies before the entry that uses it.
THEOREM HalfWrittenDirectory ==
  ASSUME "Create" \in Exclusive
  PROVE  Spec => []TornDirectorySafe
<1>1. Inv /\ NameInv /\ [Next]_vars => NameInv'
  BY NamesStep
<1>2. Init => NameInv
  BY InitNames
<1>3. Inv /\ NameInv => TornDirectorySafe
  BY TornSafe
<1> QED  BY <1>1, <1>2, <1>3, Invariance, PTL DEF Spec

\* The assertions of FileHeader::Deallocate ("ought to be marked!") and of
\* Copy (the file just created opens) never fail.
THEOREM AssertionsNeverFail ==
  ASSUME "Create" \in Exclusive
  PROVE  Spec => []AssertionsHold
<1>1. Inv /\ NameInv /\ CopyInv /\ [Next]_vars => NameInv' /\ CopyInv'
  BY NamesStep, CopyStep
<1>2. Init => NameInv /\ CopyInv
  BY InitNames
<1>3. Inv /\ CopyInv => AssertionsHold
  BY RemoveMarked DEF AssertionsHold, At, CopyInv
<1> QED  BY <1>1, <1>2, <1>3, Invariance, PTL DEF Spec
=============================================================================
