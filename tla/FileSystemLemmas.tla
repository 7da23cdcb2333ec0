-------------------------- MODULE FileSystemLemmas --------------------------
(***************************************************************************)
(* What the proofs about FileSystem share: what one step of a thread can   *)
(* do, the arithmetic of sectors, and where the sectors of a file are.     *)
(***************************************************************************)
EXTENDS FileSystemInv, TLAPS

\* Leaves that name no prover: Zenon for at most 3 seconds, then SMT.
USE ZenonT(3), SMTT(30)

-----------------------------------------------------------------------------
(* A step of one thread leaves the locals of the others alone.             *)

Acts(t) ==
  \/ t = Main /\ Commands
  \/ t \in Program /\ SystemCall(t)
  \/ Step(t)

Frame(t) ==
  /\ pc' = [u \in Thread |-> pc'[u]]
  /\ DOMAIN call' = Thread /\ DOMAIN loc' = Thread
  /\ DOMAIN io' = Thread /\ DOMAIN cont' = Thread /\ DOMAIN ret' = Thread
  /\ \A u \in Thread \ {t} :
       /\ pc'[u] = pc[u] /\ call'[u] = call[u] /\ loc'[u] = loc[u]
       /\ io'[u] = io[u] /\ cont'[u] = cont[u]

\* A step of the system is a reboot or a step of one thread.
LEMMA NextActs == Next => Reboot \/ \E t \in Thread : Acts(t)
BY DEF Next, Acts, Thread

\* A step of a thread leaves the locals of the other threads alone.
LEMMA StepFrame ==
  ASSUME ThreadType, NEW t \in Thread, Acts(t)
  PROVE  Frame(t)
<1> USE DEF ThreadType, Frame
<1>1. ASSUME NEW op, NEW n, NEW size, NEW next, NEW fail,
             Begin(t, op, n, size, next, fail)
      PROVE  Frame(t)
  BY <1>1 DEF Begin
<1>2. ASSUME NEW c, NEW first, NEW buf, NEW next, Transfer(t, c, first, buf, next)
      PROVE  Frame(t)
  BY <1>2 DEF Transfer, Goto
<1>3. ASSUME NEW op, NEW ok, NEW data, Return(t, op, ok, data)
      PROVE  Frame(t)
  BY <1>3 DEF Return, Goto
<1>4. ASSUME NEW label, Goto(t, label), UNCHANGED <<call, io, cont>>,
             UNCHANGED ret \/ \E r : ret' = [ret EXCEPT ![t] = r],
             UNCHANGED loc \/ \E l : loc' = [loc EXCEPT ![t] = l]
      PROVE  Frame(t)
  BY <1>4 DEF Goto
<1>5. ASSUME UNCHANGED <<pc, call, loc, cont>>,
             UNCHANGED ret \/ \E r : ret' = [ret EXCEPT ![t] = r],
             UNCHANGED io \/ \E l : io' = [io EXCEPT ![t] = l]
      PROVE  Frame(t)
  BY <1>5
<1> HIDE DEF ThreadType, Frame
<1>6. CASE t = Main /\ Commands
  <2>1. CASE RemoveBegin \/ CopyBegin \/ CopyOpen \/ PrintBegin
    BY <2>1, <1>1, <1>6 DEF RemoveBegin, CopyBegin, CopyOpen, PrintBegin
  <2>2. CASE CopyWrite \/ PrintRead
    BY <2>2, <1>2, <1>6 DEF CopyWrite, PrintRead, WriteAt, ReadAt
  <2>3. CASE CopyDelete \/ PrintDelete
    BY <2>3, <1>4, <1>6 DEF CopyDelete, PrintDelete, Delete
  <2> QED  BY <1>6, <2>1, <2>2, <2>3 DEF Commands
<1>7. CASE t \in Program /\ SystemCall(t)
  <2>1. CASE LoadBegin(t) \/ CreateBegin(t) \/ OpenBegin(t)
    BY <2>1, <1>1 DEF LoadBegin, CreateBegin, OpenBegin
  <2>2. CASE ReadBegin(t) \/ WriteBegin(t)
    BY <2>2, <1>2 DEF ReadBegin, WriteBegin, WriteAt, ReadAt
  <2>3. CASE Close(t) \/ BadPointer(t)
    BY <2>3, <1>5 DEF Close, BadPointer, Stop
  <2> QED  BY <1>7, <2>1, <2>2, <2>3 DEF SystemCall
<1>8. CASE Step(t)
  <2>1. CASE FetchDir1(t) \/ FetchDir2(t)
    BY <2>1, <1>3, <1>4 DEF FetchDir1, FetchDir2
  <2>2. CASE CreateAllocate(t)
    BY <2>2, <1>3, <1>4 DEF CreateAllocate, CreateFails
  <2>3. CASE RemoveHdr(t) \/ RemoveFree(t)
    BY <2>3, <1>4 DEF RemoveHdr, RemoveFree
  <2>4. CASE WriteHdr(t) \/ WriteDir1(t) \/ WriteDir2(t) \/ WriteMap(t)
    BY <2>4, <1>3, <1>4 DEF WriteHdr, WriteDir1, WriteDir2, WriteMap
  <2>5. CASE OpenHdr(t)
    <3>1. CASE call[t].op = "Open"
      BY <2>5, <3>1, <1>3 DEF OpenHdr
    <3>2. CASE call[t].op = "Load"
      BY <2>5, <3>2 DEF OpenHdr, Goto, ThreadType, Frame
    <3> QED  BY <2>5, <3>1, <3>2 DEF OpenHdr
  <2>6. CASE LoadDelete(t)
    BY <2>6, <1>3 DEF LoadDelete
  <2>7. CASE ReadSector(t) \/ WriteSector(t)
    BY <2>7, <1>3, <1>5 DEF ReadSector, WriteSector, Transferred
  <2>8. CASE WriteFirst(t) \/ WriteLast(t)
    BY <2>8 DEF WriteFirst, WriteLast, Goto, ThreadType, Frame
  <2>9. CASE Finish(t)
    BY <2>9, <1>4 DEF Finish
  <2> QED
    BY <1>8, <2>1, <2>2, <2>3, <2>4, <2>5, <2>6, <2>7, <2>8, <2>9 DEF Step
<1> QED  BY <1>6, <1>7, <1>8 DEF Acts

\* A program acts only once main has finished.
LEMMA MainDone ==
  ASSUME Control, NEW t \in Program, Acts(t)
  PROVE  pc[Main] = "done"
<1> t # Main
  BY Constants
<1>1. CASE pc[t] # "new"
  BY <1>1 DEF Control
<1>2. CASE SystemCall(t)
  BY <1>1, <1>2 DEF SystemCall, LoadBegin, CreateBegin, OpenBegin, ReadBegin, WriteBegin,
    Close, BadPointer, Enter
<1>3. CASE Step(t)
  BY <1>1, <1>3 DEF Step, FetchDir1, FetchDir2, CreateAllocate, RemoveHdr, RemoveFree,
    WriteHdr, WriteDir1, WriteDir2, WriteMap, OpenHdr, LoadDelete, ReadSector,
    WriteFirst, WriteLast, WriteSector, Finish, At, In
<1> QED  BY <1>2, <1>3 DEF Acts

\* A call that has returned leaves nothing to say of its locals.
LEMMA Returned ==
  ASSUME ThreadType, Control, NEW t \in Thread, NEW op, NEW ok, NEW data,
         Return(t, op, ok, data)
  PROVE  /\ call'[t].op = "none" /\ pc'[t] \in Resting \ {"boot"}
         /\ Changing(t)' /\ Opening(t)' /\ ~Updating(t)'
<1>1. call'[t].op = "none"
  BY DEF Return, ThreadType, NoCall
<1>2. pc'[t] \in Resting \ {"boot"}
  BY DEF Return, Goto, ThreadType, Control, Placed
<1> QED  BY <1>1, <1>2 DEF Changing, Opening, Mutating, Resting, Updating

-----------------------------------------------------------------------------
(* Arithmetic of sectors.                                                  *)

\* Multiplication by a positive number is monotonic.
LEMMA MulMono ==
  ASSUME NEW a \in Nat, NEW b \in Nat, NEW S \in Nat \ {0}, a <= b
  PROVE  a * S <= b * S
OBVIOUS

\* Division undoes multiplication.
LEMMA DivMul ==
  ASSUME NEW q \in Nat, NEW S \in Nat \ {0}
  PROVE  (q * S) \div S = q
OBVIOUS

\* Division of naturals gives a natural.
LEMMA DivNat ==
  ASSUME NEW a \in Nat, NEW S \in Nat \ {0}
  PROVE  a \div S \in Nat
OBVIOUS

\* Division is monotonic.
LEMMA DivMono ==
  ASSUME NEW a \in Nat, NEW b \in Nat, NEW S \in Nat \ {0}, a <= b
  PROVE  a \div S <= b \div S
OBVIOUS

\* The sector of a byte is below the number of sectors of any file that has
\* the byte (divRoundUp).
LEMMA DivUp ==
  ASSUME NEW a \in Nat, NEW b \in Nat, NEW S \in Nat \ {0}, a < b
  PROVE  a \div S + 1 <= (b + S - 1) \div S
OBVIOUS

\* An offset into a sector is within the sector.
LEMMA ModRange ==
  ASSUME NEW a \in Nat, NEW S \in Nat \ {0}
  PROVE  a % S \in 0 .. S - 1
OBVIOUS

\* A header has a pointer to a sector for every sector its length needs.
LEMMA HeaderShape ==
  ASSUME NEW h \in Header(Size)
  PROVE  /\ h.numBytes \in Int
         /\ h.dataSectors \in [1 .. NumDataSectors(h.numBytes) -> Sector]
         /\ Range(h.dataSectors) \subseteq Sector
<1>1. PICK n \in Size :
        h \in [numBytes: {n}, dataSectors: [1 .. NumDataSectors(n) -> Sector]]
  BY DEF Header
<1>2. h.numBytes = n /\ h.dataSectors \in [1 .. NumDataSectors(n) -> Sector]
  BY <1>1
<1>3. Range(h.dataSectors) \subseteq Sector
  BY <1>2 DEF Range
<1> QED  BY <1>2, <1>3, Constants

\* A sector of a transfer that is clipped to the file has a pointer in the
\* header (FileHeader::ByteToSector).
LEMMA InFile ==
  ASSUME NEW h \in AnyHeader, NEW pos \in Nat, NEW n \in Nat, n > 0,
         pos + n <= h.numBytes, NEW i \in Nat, i <= SectorOf(pos + n - 1)
  PROVE  /\ h \in Header(Size)
         /\ i + 1 \in DOMAIN h.dataSectors
         /\ ByteToSector(h, i * SectorSize) = h.dataSectors[i + 1]
         /\ ByteToSector(h, i * SectorSize) \in Sector
<1>1. h \in Header(Size)
  BY DEF AnyHeader, NoHeader
<1>2. SectorSize \in Nat \ {0}
  BY Constants
<1>3. h.numBytes \in Nat /\ h.numBytes > 0
  BY <1>1, HeaderShape
<1>4. i + 1 <= NumDataSectors(h.numBytes)
  <2>1. pos + n - 1 \in Nat /\ pos + n - 1 < h.numBytes
    BY <1>3
  <2>2. (pos + n - 1) \div SectorSize + 1 <= (h.numBytes + SectorSize - 1) \div SectorSize
    BY <1>2, <1>3, <2>1, DivUp
  <2>3. (pos + n - 1) \div SectorSize \in Nat
    BY <1>2, <2>1, DivNat
  <2>4. h.numBytes + SectorSize - 1 \in Nat
    BY <1>2, <1>3
  <2>5. (h.numBytes + SectorSize - 1) \div SectorSize \in Nat
    BY <1>2, <2>4, DivNat
  <2> QED  BY <1>3, <2>2, <2>3, <2>5 DEF NumDataSectors, SectorOf
<1>5. SectorOf(i * SectorSize) = i
  BY <1>2, DivMul DEF SectorOf
<1>6. i + 1 \in 1 .. NumDataSectors(h.numBytes)
  <2>1. NumDataSectors(h.numBytes) \in Nat
    <3>1. h.numBytes + SectorSize - 1 \in Nat
      BY <1>2, <1>3
    <3> QED  BY <1>2, <1>3, <3>1, DivNat DEF NumDataSectors
  <2> QED  BY <1>4, <2>1
<1> QED  BY <1>1, <1>5, <1>6, HeaderShape DEF ByteToSector

\* OpenFile::ReadAt and WriteAt clip a request to the file and to its length.
LEMMA ClipRange ==
  ASSUME NEW len \in Int, NEW pos \in Nat, NEW n \in Int
  PROVE  /\ Clip(len, pos, n) \in Nat
         /\ Clip(len, pos, n) > 0 =>
              /\ pos + Clip(len, pos, n) <= len
              /\ Clip(len, pos, n) <= n
BY DEF Clip

-----------------------------------------------------------------------------
(* Tables, objects and the files on the disk.                              *)

\* The table that formatting writes is a directory table.
LEMMA EmptyTableType == EmptyTable \in [Slot -> Entry]
BY Constants DEF EmptyTable, FreeEntry, Entry, Sector

\* The second half of a table completes its first half to the table.
LEMMA JoinBack ==
  ASSUME NEW a \in [Slot -> Entry], NEW b \in [Slot -> Entry]
  PROVE  Join(Join(a, b), a) = a
<1>1. \A i \in Slot : Join(Join(a, b), a)[i] = a[i]
  <2> TAKE i \in Slot
  <2>1. CASE i < Straddle
    BY <2>1 DEF Join
  <2>2. CASE i > Straddle
    BY <2>2, Constants DEF Join, Slot
  <2>3. CASE i = Straddle
    <3>1. [[a[i] EXCEPT !.name = b[i].name] EXCEPT !.name = a[i].name] = a[i]
      BY DEF Entry
    <3> QED  BY <2>3, <3>1 DEF Join
  <2> QED  BY <2>1, <2>2, <2>3, Constants DEF Slot
<1>2. DOMAIN Join(Join(a, b), a) = Slot /\ Join(Join(a, b), a) = [i \in Slot |-> Join(Join(a, b), a)[i]]
  BY DEF Join
<1>3. a = [i \in Slot |-> a[i]]
  OBVIOUS
<1> QED  BY <1>1, <1>2, <1>3

\* A live object holds a header and a position.
LEMMA LiveHeader ==
  ASSUME ObjectType, NEW x, Live(x)
  PROVE  /\ x \in Handle /\ file[x].hdr \in AnyHeader
         /\ file[x].hdr.numBytes \in Int /\ file[x].seekPosition \in Nat
<1>1. x \in Handle /\ file[x].hdr \in AnyHeader /\ file[x].seekPosition \in Nat
  BY DEF ObjectType, Live
<1>2. file[x].hdr.numBytes \in Int
  BY <1>1, HeaderShape DEF AnyHeader, NoHeader
<1> QED  BY <1>1, <1>2

\* The part of Inv that is about the disk.
Disk ==
  /\ NoSharedSector /\ NoLeak /\ OpenHeaderOwned
  /\ \A t \in Thread : Changing(t) /\ Opening(t)

\* An entry in use leads to a header, and reading it gives that header.
LEMMA OwnedHeader ==
  ASSUME ImageType, NoSharedSector, NEW i \in InUse
  PROVE  /\ i \in Slot /\ directory[i].inUse /\ directory[i].sector \in Sector
         /\ HeaderOf(i) \in Header(Size)
         /\ Owned(i) = {directory[i].sector} \cup Range(HeaderOf(i).dataSectors)
         /\ Headers(directory[i].sector) = {HeaderOf(i)}
<1>1. i \in Slot /\ directory[i].inUse /\ directory[i].sector \in Sector
  BY DEF InUse, ImageType, Entry
<1>2. HeaderOf(i) # Garbage
  BY DEF NoSharedSector
<1>3. HeaderOf(i) \in Header(Size)
  BY <1>1, <1>2 DEF ImageType, HeaderOf
<1> QED  BY <1>1, <1>2, <1>3 DEF Owned, Headers, HeaderOf

\* A sector that a Write transfers is a data sector of a file in the
\* directory, so it holds no header.
LEMMA WriteTarget ==
  ASSUME ImageType, ObjectType, ThreadType, Disk, NEW t \in Thread, Transferring(t),
         pc[t] = "write", Live(io[t].h), NEW s,
         s = ByteToSector(file[io[t].h].hdr, io[t].i * SectorSize)
  PROVE  /\ \A j \in InUse : directory[j].sector # s
         /\ \A k \in Slot, u \in Thread : Update(u, k) => loc[u].sector # s
<1> DEFINE h == file[io[t].h].hdr
<1>1. h \in AnyHeader /\ io[t].h \in Handle
  BY LiveHeader
<1>2. s \in Range(h.dataSectors)
  <2>1. /\ io[t].pos \in Nat /\ io[t].n \in Nat /\ io[t].i \in Nat
        /\ io[t].n > 0 /\ io[t].i <= SectorOf(io[t].pos + io[t].n - 1)
        /\ io[t].pos + io[t].n <= h.numBytes
    BY DEF Transferring, ThreadType, LocalType, LastSector
  <2>2. /\ io[t].i + 1 \in DOMAIN h.dataSectors
        /\ s = h.dataSectors[io[t].i + 1]
    BY <1>1, <2>1, InFile
  <2> HIDE DEF h
  <2> QED  BY <2>2 DEF Range
<1>3. PICK i \in InUse : HeaderOf(i) = h
  BY <1>1 DEF Disk, OpenHeaderOwned, Live
<1> HIDE DEF h
<1>4. s \in Owned(i) /\ directory[i].sector # s
  BY <1>2, <1>3 DEF Disk, NoSharedSector, Owned
<1>5. \A j \in InUse : directory[j].sector # s
  BY <1>3, <1>4 DEF Disk, NoSharedSector, Owned
<1>6. ASSUME NEW k \in Slot, NEW u \in Thread, Update(u, k)
      PROVE  loc[u].sector # s
  <2>1. CASE i = k
    BY <1>4, <1>6, <2>1 DEF Update, InUse
  <2>2. CASE i # k
    <3>1. s \in Others(k)
      BY <1>3, <1>4, <2>2 DEF Others
    <3> QED  BY <1>6, <3>1 DEF Update, Pending
  <2> QED  BY <2>1, <2>2
<1> QED  BY <1>5, <1>6
=============================================================================
