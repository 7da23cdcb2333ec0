----------------------------- MODULE FileSystem -----------------------------
(***************************************************************************)
(* The Nachos file system (src/filesys) as its callers drive it: the main  *)
(* thread runs the file commands of the command line, then the user        *)
(* programs are loaded and make system calls.                              *)
(*                                                                         *)
(* A step of a thread ends at each sector transferred by SynchDisk, which  *)
(* is where the thread blocks and another may run; between two transfers   *)
(* the code works on local copies only.  Every value of the variables of   *)
(* the disk image is therefore also what a machine that stops at that      *)
(* moment leaves behind.                                                   *)
(***************************************************************************)
EXTENDS Integers, FiniteSets, Sequences, Functions

CONSTANTS
  Main,           \* the thread that runs main()
  Program,        \* the threads of the user programs, forked by ExecAll
  Name,           \* file names, up to their first FileNameMaxLen characters
  NumSectors,     \* sectors of the disk
  SectorSize,     \* bytes in a sector
  NumDirect,      \* data-sector pointers that fit in a file header
  NumDirEntries,  \* entries of the directory table
  Straddle,       \* the entry the directory's sector boundary cuts in two
  Size,           \* sizes passed to Create
  Length,         \* lengths programs pass to Read and Write
  TransferSize,   \* bytes main's Copy and Print transfer at a time
  Byte,           \* bytes that programs write
  Handle,         \* addresses of OpenFile objects
  Calls,          \* the calls that programs and commands make
  Exclusive,      \* the calls of which callers make only one at a time
  Careful,        \* TRUE: programs read and write only after a good Open
  Garbage,        \* what a sector without a header holds, seen as a header
  Stale,          \* a byte that no program wrote
  Null,           \* the null pointer
  Wild,           \* a pointer that was never initialised
  NoName          \* no file name

Thread == {Main} \cup Program
Sector == 0 .. NumSectors - 1
Slot == 0 .. NumDirEntries - 1

\* Headers of the bitmap and directory files, the sector of the bitmap, the
\* two sectors of the directory: what formatting marks in the free map.
FreeMapSector == 0
DirectorySector == 1
System == {FreeMapSector, DirectorySector} \cup 2 .. 4

ASSUME Constants ==
  /\ Main \notin Program
  /\ NumSectors \in Nat /\ NumSectors >= 5
  /\ SectorSize \in Nat \ {0}
  /\ NumDirect \in Nat
  /\ NumDirEntries \in Nat /\ Straddle \in Slot
  /\ Size \subseteq Int /\ Length \subseteq Int /\ TransferSize \in Nat \ {0}
  /\ 0 \in Byte /\ Stale \notin Byte
  /\ NoName \notin Name /\ Null \notin Handle /\ Wild \notin Handle
  /\ Exclusive \subseteq {"Load", "Create", "Open", "Read", "Write", "Close"}
  /\ Careful \in BOOLEAN

VARIABLES
  freeMap,    \* disk image: the sectors marked in the free-sector bitmap
  directory,  \* disk image: the directory table
  disk,       \* disk image: what every sector reads as, header and data
  opfile,     \* FileSystem::opfile
  file,       \* the OpenFile objects
  panic,      \* the bad pointer that stopped the machine
  pc,         \* where each thread is
  call,       \* the call each thread is in
  loc,        \* its locals: directory, bitmap, header and header's sector
  io,         \* the locals of ReadAt and WriteAt
  cont,       \* where the thread goes on when the call returns
  fd,         \* the file a program takes its open file id to denote
  ret         \* the result of each thread's last call

image == <<freeMap, directory, disk>>
objects == <<opfile, file>>
vars == <<image, objects, panic, pc, call, loc, io, cont, fd, ret>>

-----------------------------------------------------------------------------
(* Data structures of the file system.                                     *)

\* divRoundUp(n, SectorSize); every use treats a negative count as 0.
NumDataSectors(n) == IF n <= 0 THEN 0 ELSE (n + SectorSize - 1) \div SectorSize

Header(sizes) ==
  UNION {[numBytes: {n}, dataSectors: [1 .. NumDataSectors(n) -> Sector]] :
           n \in sizes}
NoHeader == [numBytes |-> -1, dataSectors |-> <<>>]

\* What is no header can be told from one.
ASSUME NotAHeader == Garbage \notin Header(Size)

StaleBlock == [o \in 0 .. SectorSize - 1 |-> Stale]
HeaderSector(h) == [hdr |-> h, data |-> StaleBlock]
DataSector(b) == [hdr |-> Garbage, data |-> b]

\* FileHeader::FetchFrom: a sector that holds no header reads as any header.
Headers(s) == IF disk[s].hdr = Garbage THEN Header(Size) ELSE {disk[s].hdr}

\* Bitmap::FindAndSet and the loop of FileHeader::Allocate: the lowest clear
\* sectors, in order.
FirstClearPastEnd(map) ==
  {s \in (0 .. NumSectors) \ map : 0 .. s - 1 \subseteq map}
FirstClear(map) == {s \in Sector \ map : 0 .. s - 1 \subseteq map}
MarkForgotten(map, s) == map
Mark(map, s) == map \cup {s}
FirstFit(map, k) ==
  {f \in [1 .. k -> Sector \ map] :
     /\ \A i, j \in 1 .. k : i < j => f[i] < f[j]
     /\ k > 0 => 0 .. f[k] - 1 \subseteq map \cup Range(f)}
NumClear(map) == Cardinality(Sector \ map)

FreeEntry == [inUse |-> FALSE, sector |-> 0, name |-> NoName]
EmptyTable == [i \in Slot |-> FreeEntry]

\* Directory::FindIndex, as the set of the index found: empty for -1.
MatchName(table, i, n) == table[i].name = n
Match(table, i, n) == table[i].inUse /\ table[i].name = n
FindIndex(table, n) ==
  {i \in Slot : Match(table, i, n) /\ \A j \in 0 .. i - 1 : ~Match(table, j, n)}
Found(table, n) == \E i \in Slot : Match(table, i, n)

\* The slots Directory::Add takes: the first one not in use.
AddIndexAny(table) == {i \in Slot : ~table[i].inUse}
AddIndex(table) ==
  {i \in Slot : ~table[i].inUse /\ \A j \in 0 .. i - 1 : table[j].inUse}

\* The table whose first sector is taken from one table and whose second
\* from another; inUse and sector of entry Straddle lie in the first sector,
\* its name in the second.
Join(first, second) ==
  [i \in Slot |->
     IF i < Straddle THEN first[i]
     ELSE IF i > Straddle THEN second[i]
     ELSE [first[i] EXCEPT !.name = second[i].name]]

\* An OpenFile object; "of" records the name it was opened by.
Freed == [live |-> FALSE, of |-> NoName, hdr |-> NoHeader, seekPosition |-> 0]
NewOpenFile(n, h) == [live |-> TRUE, of |-> n, hdr |-> h, seekPosition |-> 0]

\* The bytes ReadAt and WriteAt transfer: the request clipped to the file.
Clip(len, pos, n) ==
  IF n <= 0 \/ pos >= len THEN 0 ELSE IF pos + n > len THEN len - pos ELSE n

NoCall == [op |-> "none", name |-> NoName, size |-> 0, buf |-> <<>>]
Locals(dir, map, hdr, sector) ==
  [dir |-> dir, map |-> map, hdr |-> hdr, sector |-> sector]
NoLocals == Locals(EmptyTable, {}, NoHeader, 0)
IO(h, pos, n, i, buf) == [h |-> h, pos |-> pos, n |-> n, i |-> i, buf |-> buf]
NoIO == IO(Null, 0, 0, 0, <<>>)
Then(next, fail) == [next |-> next, fail |-> fail]
NoThen == Then("idle", "idle")
Result(op, ok, data) == [op |-> op, ok |-> ok, data |-> data]

-----------------------------------------------------------------------------
(* Calls and returns.                                                      *)

\* FileSystem::FileSystem(TRUE): what formatting leaves in the free map and
\* in the directory.
FormatMap == System
FormatTable == EmptyTable

\* A machine just booted on a formatted disk.
Booted == [t \in Thread |-> IF t = Main THEN "boot" ELSE "new"]
Init ==
  /\ freeMap = FormatMap
  /\ directory = FormatTable
  /\ disk = [s \in Sector |-> DataSector(StaleBlock)]
  /\ opfile = Wild
  /\ file = [h \in Handle |-> Freed]
  /\ panic = "none"
  /\ pc = Booted
  /\ call = [t \in Thread |-> NoCall]
  /\ loc = [t \in Thread |-> NoLocals]
  /\ io = [t \in Thread |-> NoIO]
  /\ cont = [t \in Thread |-> NoThen]
  /\ fd = [t \in Thread |-> NoName]
  /\ ret = [t \in Thread |-> Result("none", FALSE, <<>>)]

\* Where main and the programs are between two calls.
Outside(t) ==
  pc[t] \in {"boot", "removed", "copyOpen", "copy", "copied", "print",
             "close", "printed", "new", "idle", "done"}

\* Thread t may enter the file system from one of the labels.
Enter(t, labels, op) ==
  /\ panic = "none" /\ op \in Calls
  /\ pc[t] \in labels
  /\ op \in Exclusive => \A u \in Thread : call[u].op \notin Exclusive

\* A call that starts with the directory; it continues at label next if it
\* succeeds, at label fail if not.
Begin(t, op, n, size, next, fail) ==
  /\ pc' = [pc EXCEPT ![t] = "fetchDir1"]
  /\ call' = [call EXCEPT ![t] = [NoCall EXCEPT !.op = op, !.name = n,
                                                !.size = size]]
  /\ cont' = [cont EXCEPT ![t] = Then(next, fail)]
  /\ ret' = [ret EXCEPT ![t] = Result("none", FALSE, <<>>)]
  /\ UNCHANGED <<image, objects, panic, loc, io>>

At(t, label) == panic = "none" /\ pc[t] = label
Goto(t, label) == pc' = [pc EXCEPT ![t] = label]

\* The call returns and its locals die.
Return(t, op, ok, data) ==
  /\ Goto(t, IF ok THEN cont[t].next ELSE cont[t].fail)
  /\ ret' = [ret EXCEPT ![t] = Result(op, ok, data)]
  /\ call' = [call EXCEPT ![t] = NoCall]
  /\ loc' = [loc EXCEPT ![t] = NoLocals]
  /\ io' = [io EXCEPT ![t] = NoIO]
  /\ cont' = [cont EXCEPT ![t] = NoThen]
Stop(why) ==
  /\ panic' = why
  /\ UNCHANGED <<image, objects, pc, call, loc, io, cont, fd, ret>>

\* main() runs the commands of its command line in this order, each or not:
\* Remove, Copy, Print; then it forks the programs and finishes (ExecAll).
RemoveBegin ==
  /\ Enter(Main, {"boot"}, "Remove")
  /\ \E n \in Name : Begin(Main, "Remove", n, 0, "removed", "removed")
  /\ UNCHANGED fd

\* Copy creates the file, opens it (and asserts that this succeeds) and
\* writes it from one end to the other; see CopyWrite.
CopyBegin ==
  /\ Enter(Main, {"boot", "removed"}, "Copy")
  /\ \E n \in Name, size \in Size \cap Nat :
       /\ Begin(Main, "Create", n, size, "copyOpen", "copied")
       /\ fd' = [fd EXCEPT ![Main] = n]

CopyOpen ==
  /\ Enter(Main, {"copyOpen"}, "Copy")
  /\ Begin(Main, "Open", fd[Main], 0, "copy", "noFile")
  /\ UNCHANGED fd

PrintBegin ==
  /\ Enter(Main, {"boot", "removed", "copied"}, "Print")
  /\ \E n \in Name : Begin(Main, "Open", n, 0, "print", "printed")
  /\ UNCHANGED fd

\* ForkExecute: a program's thread first loads its executable.
LoadBegin(t) ==
  /\ Enter(t, {"new"}, "Load") /\ pc[Main] = "done"
  /\ \E n \in Name : Begin(t, "Load", n, 0, "idle", "done")
  /\ UNCHANGED fd

CreateBegin(t) ==
  /\ Enter(t, {"idle"}, "Create")
  /\ \E n \in Name, size \in Size : Begin(t, "Create", n, size, "idle", "idle")
  /\ UNCHANGED fd

OpenBegin(t) ==
  /\ Enter(t, {"idle"}, "Open")
  /\ \E n \in Name : Begin(t, "Open", n, 0, "idle", "idle")
  /\ UNCHANGED fd

\* main has forked the programs, or a program has exited.
Finish(t) ==
  /\ panic = "none"
  /\ pc[t] \in IF t = Main THEN {"boot", "removed", "copied", "printed"}
               ELSE {"idle"}
  /\ Goto(t, "done")
  /\ fd' = [fd EXCEPT ![t] = NoName]
  /\ UNCHANGED <<image, objects, panic, call, loc, io, cont, ret>>

\* The machine halts with no call in progress and Nachos is started again,
\* formatting the disk or not.
Reboot ==
  /\ panic = "none" /\ \A t \in Thread : Outside(t)
  /\ \/ UNCHANGED <<freeMap, directory>>
     \/ freeMap' = FormatMap /\ directory' = FormatTable
  /\ opfile' = Wild
  /\ file' = [h \in Handle |-> Freed]
  /\ pc' = Booted
  /\ fd' = [t \in Thread |-> NoName]
  /\ ret' = [t \in Thread |-> Result("none", FALSE, <<>>)]
  /\ UNCHANGED <<disk, panic, call, loc, io, cont>>

-----------------------------------------------------------------------------
(* Create, Remove and Open, one sector transfer at a time.                 *)

\* Directory::FetchFrom, first sector.
FetchDir1(t) ==
  /\ At(t, "fetchDir1")
  /\ Goto(t, "fetchDir2")
  /\ loc' = [loc EXCEPT ![t] = Locals(Join(directory, EmptyTable), {}, NoHeader, 0)]
  /\ UNCHANGED <<image, objects, panic, call, io, cont, fd, ret>>

\* Directory::FetchFrom, second sector, and what the call then does with
\* Find: Create fails if the name is there, the others if it is not.
FetchDir2(t) ==
  LET c == call[t]
      d == Join(loc[t].dir, directory)
  IN
  /\ At(t, "fetchDir2")
  /\ \/ /\ c.op = "Create" /\ Found(d, c.name)
        /\ Return(t, c.op, FALSE, <<>>)
        /\ UNCHANGED <<opfile, fd>>
     \/ /\ c.op = "Create" /\ ~Found(d, c.name)
        /\ Goto(t, "fetchMap")
        /\ loc' = [loc EXCEPT ![t] = Locals(d, {}, NoHeader, 0)]
        /\ UNCHANGED <<opfile, call, io, cont, fd, ret>>
     \/ /\ c.op = "Remove" /\ ~Found(d, c.name)
        /\ Return(t, c.op, FALSE, <<>>)
        /\ UNCHANGED <<opfile, fd>>
     \/ /\ c.op \in {"Open", "Load"} /\ ~Found(d, c.name)
        /\ Return(t, c.op, FALSE, <<>>)
        /\ opfile' = Null
        /\ fd' = [fd EXCEPT ![t] = NoName]
     \/ /\ c.op # "Create"
        /\ \E i \in FindIndex(d, c.name) :
             loc' = [loc EXCEPT ![t] = Locals(d, {}, NoHeader, d[i].sector)]
        /\ Goto(t, "fetchHdr")
        /\ UNCHANGED <<opfile, call, io, cont, fd, ret>>
  /\ UNCHANGED <<image, file, panic>>

\* Create reads the bitmap (PersistentBitmap), takes a sector for the header
\* (FindAndSet), a directory entry (Directory::Add) and the data sectors
\* (FileHeader::Allocate), all in local copies.  More than NumDirect data
\* sectors would be stored past the end of the header: Overrun says when that
\* happens, and the model does not follow the program any further.
CreateFails(t) ==
  /\ Return(t, "Create", FALSE, <<>>)
  /\ UNCHANGED <<image, objects, panic, fd>>

CreateAllocate(t) ==
  LET c == call[t]
      d == loc[t].dir
      k == NumDataSectors(c.size)
  IN
  /\ At(t, "fetchMap") /\ c.op = "Create"
  /\ \/ FirstClear(freeMap) = {} /\ CreateFails(t)
     \/ FirstClear(freeMap) # {} /\ AddIndex(d) = {} /\ CreateFails(t)
     \/ \E s \in FirstClear(freeMap), i \in AddIndex(d) :
          LET map == Mark(freeMap, s) IN
          \/ NumClear(map) < k /\ CreateFails(t)
          \/ /\ NumClear(map) >= k /\ k <= NumDirect
             /\ \E f \in FirstFit(map, k) :
                  loc' = [loc EXCEPT ![t] =
                    Locals([d EXCEPT ![i] = [inUse |-> TRUE, sector |-> s,
                                             name |-> c.name]],
                           map \cup Range(f),
                           [numBytes |-> c.size, dataSectors |-> f],
                           s)]
             /\ Goto(t, "writeHdr")
             /\ UNCHANGED <<image, objects, panic, call, io, cont, fd, ret>>

\* FileHeader::WriteBack.
WriteHdr(t) ==
  /\ At(t, "writeHdr")
  /\ disk' = [disk EXCEPT ![loc[t].sector] = HeaderSector(loc[t].hdr)]
  /\ Goto(t, "writeDir1")
  /\ UNCHANGED <<freeMap, directory, objects, panic, call, loc, io, cont, fd, ret>>

\* Directory::WriteBack writes its two sectors in order.  (It reads the
\* second one first, and overwrites all it read.)
WriteDir1(t) ==
  /\ At(t, "writeDir1")
  /\ directory' = Join(loc[t].dir, directory)
  /\ Goto(t, "writeDir2")
  /\ UNCHANGED <<freeMap, disk, objects, panic, call, loc, io, cont, fd, ret>>

\* Create goes on to the bitmap; Remove is done.
WriteDir2(t) ==
  /\ At(t, "writeDir2")
  /\ directory' = Join(directory, loc[t].dir)
  /\ \/ /\ call[t].op = "Create"
        /\ Goto(t, "writeMap")
        /\ UNCHANGED <<call, loc, io, cont, ret>>
     \/ /\ call[t].op = "Remove"
        /\ Return(t, "Remove", TRUE, <<>>)
  /\ UNCHANGED <<freeMap, disk, objects, panic, fd>>

\* PersistentBitmap::WriteBack: Create is done, Remove goes on to the
\* directory.
WriteMapForgotten(t) ==
  /\ At(t, "writeMap")
  /\ \/ /\ call[t].op = "Create"
        /\ Return(t, "Create", TRUE, <<>>)
        /\ UNCHANGED freeMap
     \/ /\ call[t].op = "Remove"
        /\ Goto(t, "writeDir1")
        /\ freeMap' = loc[t].map
        /\ UNCHANGED <<call, loc, io, cont, ret>>
  /\ UNCHANGED <<directory, disk, objects, panic, fd>>
WriteMap(t) ==
  /\ At(t, "writeMap")
  /\ freeMap' = loc[t].map
  /\ \/ /\ call[t].op = "Create"
        /\ Return(t, "Create", TRUE, <<>>)
     \/ /\ call[t].op = "Remove"
        /\ Goto(t, "writeDir1")
        /\ UNCHANGED <<call, loc, io, cont, ret>>
  /\ UNCHANGED <<directory, disk, objects, panic, fd>>

\* Remove reads the file's header.
RemoveHdr(t) ==
  /\ At(t, "fetchHdr") /\ call[t].op = "Remove"
  /\ \E h \in Headers(loc[t].sector) :
       loc' = [loc EXCEPT ![t] = Locals(loc[t].dir, {}, h, loc[t].sector)]
  /\ Goto(t, "fetchMap")
  /\ UNCHANGED <<image, objects, panic, call, io, cont, fd, ret>>

\* Remove reads the bitmap, clears the data sectors (FileHeader::Deallocate,
\* which asserts that each is marked: Marked) and the header sector, and
\* frees the directory entry (Directory::Remove), all in local copies.
Marked(t) ==
  /\ IsInjective(loc[t].hdr.dataSectors)
  /\ Range(loc[t].hdr.dataSectors) \subseteq freeMap
DeallocateNone(map, hdr) == map
DeallocateOneMore(map, hdr) ==
  map \ UNION {{s, s + 1} : s \in Range(hdr.dataSectors)}
Deallocate(map, hdr) == map \ Range(hdr.dataSectors)
RemoveFree(t) ==
  LET d == loc[t].dir IN
  /\ At(t, "fetchMap") /\ call[t].op = "Remove" /\ Marked(t)
  /\ \E i \in FindIndex(d, call[t].name) :
       loc' = [loc EXCEPT ![t] =
         Locals([d EXCEPT ![i] = [@ EXCEPT !.inUse = FALSE]],
                Deallocate(freeMap, loc[t].hdr) \ {loc[t].sector},
                loc[t].hdr,
                loc[t].sector)]
  /\ Goto(t, "writeMap")
  /\ UNCHANGED <<image, objects, panic, call, io, cont, fd, ret>>

\* The objects still reachable once opfile is p; the others were leaked.
Reachable(objs, p) ==
  [x \in Handle |->
     IF x = p \/ \E u \in Thread : io[u].h = x THEN objs[x] ELSE Freed]

\* Open reads the header into a new OpenFile and makes it the open file.
\* AddrSpace::Load keeps a pointer of its own to the object.
OpenHdr(t) ==
  LET c == call[t] IN
  /\ At(t, "fetchHdr") /\ c.op \in {"Open", "Load"}
  /\ \E hdr \in Headers(loc[t].sector), x \in Handle :
       /\ x # opfile /\ \A u \in Thread : io[u].h # x
       /\ opfile' = x
       /\ file' = Reachable([file EXCEPT ![x] = NewOpenFile(c.name, hdr)], x)
       /\ \/ /\ c.op = "Open"
             /\ Return(t, "Open", TRUE, <<>>)
             /\ fd' = [fd EXCEPT ![t] = c.name]
          \/ /\ c.op = "Load"
             /\ Goto(t, "load")
             /\ loc' = [loc EXCEPT ![t] = NoLocals]
             /\ io' = [io EXCEPT ![t] = IO(x, 0, 0, 0, <<>>)]
             /\ UNCHANGED <<call, cont, fd, ret>>
  /\ UNCHANGED <<image, panic>>

\* Load has read the segments and deletes the object.
LoadDelete(t) ==
  /\ At(t, "load")
  /\ file' = [file EXCEPT ![io[t].h] = Freed]
  /\ Return(t, "Load", TRUE, <<>>)
  /\ UNCHANGED <<image, opfile, panic, fd>>

-----------------------------------------------------------------------------
(* Read, Write and Close.  All go to opfile; the id is not looked at.      *)

Live(p) == p \in Handle /\ file[p].live
MayUse(t) == Careful => fd[t] # NoName

SectorOf(o) == o \div SectorSize
ByteToSector(hdr, o) == hdr.dataSectors[SectorOf(o) + 1]
LastSector(l) == SectorOf(l.pos + l.n - 1)

\* The steps of a transfer, after the first.
In(t, label) == At(t, label) /\ Live(io[t].h)

\* OpenFile::Read and Write clip the request c to the file at its seek
\* position, return at once if nothing is left, and start the transfer at
\* label first otherwise; then the thread goes on at label next.
Transfer(t, c, first, buf, next) ==
  LET f == file[opfile]
      pos == f.seekPosition
      n == Clip(f.hdr.numBytes, pos, c.size)
  IN
  /\ Live(opfile)
  /\ \/ /\ n = 0
        /\ ret' = [ret EXCEPT ![t] = Result(c.op, TRUE, <<>>)]
        /\ Goto(t, next)
        /\ UNCHANGED <<call, io, cont>>
     \/ /\ n > 0
        /\ Goto(t, first)
        /\ call' = [call EXCEPT ![t] = c]
        /\ ret' = [ret EXCEPT ![t] = Result("none", FALSE, <<>>)]
        /\ io' = [io EXCEPT ![t] = IO(opfile, pos, n, SectorOf(pos), buf)]
        /\ cont' = [cont EXCEPT ![t] = Then(next, next)]
  /\ UNCHANGED <<image, objects, panic, loc, fd>>

Advanced(f, n) == [f EXCEPT !.seekPosition = @ + n]

\* The transfer is over: advance the seek position and return.
Transferred(t, op, data) ==
  /\ Return(t, op, TRUE, data)
  /\ file' = [file EXCEPT ![io[t].h] = Advanced(@, io[t].n)]

\* OpenFile::ReadAt.
ReadAt(t, len, next) ==
  LET n == Clip(file[opfile].hdr.numBytes, file[opfile].seekPosition, len)
      c == [NoCall EXCEPT !.op = "Read", !.size = len]
  IN Transfer(t, c, "read", [o \in 0 .. n - 1 |-> 0], next)

ReadBegin(t) ==
  /\ Enter(t, {"idle"}, "Read") /\ MayUse(t)
  /\ \E len \in Length : ReadAt(t, len, "idle")

\* main's Print reads chunk after chunk until none is left.
PrintRead ==
  /\ Enter(Main, {"print"}, "Print")
  /\ LET f == file[opfile] IN
     ReadAt(Main, TransferSize,
            IF f.seekPosition >= f.hdr.numBytes THEN "close" ELSE "print")

ReadSector(t) ==
  LET l == io[t]
      b == disk[ByteToSector(file[l.h].hdr, l.i * SectorSize)].data
      buf == [o \in 0 .. l.n - 1 |->
                IF SectorOf(l.pos + o) = l.i THEN b[(l.pos + o) % SectorSize]
                ELSE l.buf[o]]
  IN
  /\ In(t, "read")
  /\ \/ /\ l.i < LastSector(l)
        /\ io' = [io EXCEPT ![t] = IO(l.h, l.pos, l.n, l.i + 1, buf)]
        /\ UNCHANGED <<file, pc, call, loc, cont, ret>>
     \/ /\ l.i = LastSector(l)
        /\ Transferred(t, "Read", buf)
  /\ UNCHANGED <<image, opfile, panic, fd>>

\* OpenFile::Write, WriteAt: read the first and the last sector if they are
\* written in part only, put the bytes in place, write sector by sector.
FirstAligned(pos) == pos % SectorSize = 0
LastAlignedAlways(pos, n) == TRUE
LastAligned(pos, n) == (pos + n) % SectorSize = 0

WriteAt(t, len, from, next) ==
  LET f == file[opfile]
      pos == f.seekPosition
      n == Clip(f.hdr.numBytes, pos, len)
      c == [NoCall EXCEPT !.op = "Write", !.size = len, !.buf = from]
  IN Transfer(t, c, IF ~FirstAligned(pos) THEN "writeFirst"
                    ELSE IF ~LastAligned(pos, n) THEN "writeLast"
                    ELSE "write",
              [o \in SectorOf(pos) * SectorSize ..
                       (SectorOf(pos + n - 1) + 1) * SectorSize - 1 |-> 0],
              next)

WriteBegin(t) ==
  /\ Enter(t, {"idle"}, "Write") /\ MayUse(t)
  /\ \E len \in Length : \E from \in [0 .. len - 1 -> Byte] :
       WriteAt(t, len, from, "idle")

\* main's Copy writes chunk after chunk; the UNIX file is as long as the
\* Nachos file it created.
CopyWrite ==
  LET f == file[opfile]
      left == f.hdr.numBytes - f.seekPosition
      len == IF left < TransferSize THEN left ELSE TransferSize
  IN
  /\ Enter(Main, {"copy"}, "Copy") /\ left > 0
  /\ \E from \in [0 .. len - 1 -> Byte] : WriteAt(Main, len, from, "copy")

\* Copy and Print delete the OpenFile object when they are through.
Delete(at, next) ==
  /\ At(Main, at)
  /\ Goto(Main, next)
  /\ file' = [file EXCEPT ![opfile] = Freed]
  /\ ret' = [ret EXCEPT ![Main] = Result("Close", TRUE, <<>>)]
  /\ UNCHANGED <<image, opfile, panic, call, loc, io, cont, fd>>
CopyDelete ==
  /\ pc[Main] = "copy" /\ file[opfile].seekPosition >= file[opfile].hdr.numBytes
  /\ Delete("copy", "copied")
PrintDelete == Delete("close", "printed")

\* ReadAt of one whole sector of the file into WriteAt's buffer; it stops at
\* the end of the file.
Fill(l, i) ==
  LET hdr == file[l.h].hdr
      b == disk[ByteToSector(hdr, i * SectorSize)].data
  IN [o \in DOMAIN l.buf |->
        IF SectorOf(o) = i /\ o < hdr.numBytes THEN b[o % SectorSize]
        ELSE l.buf[o]]

WriteFirst(t) ==
  LET l == io[t] IN
  /\ In(t, "writeFirst")
  /\ io' = [io EXCEPT ![t] = IO(l.h, l.pos, l.n, l.i, Fill(l, l.i))]
  /\ Goto(t, IF ~LastAligned(l.pos, l.n) /\ l.i # LastSector(l)
             THEN "writeLast" ELSE "write")
  /\ UNCHANGED <<image, objects, panic, call, loc, cont, fd, ret>>

WriteLast(t) ==
  LET l == io[t] IN
  /\ In(t, "writeLast")
  /\ io' = [io EXCEPT ![t] = IO(l.h, l.pos, l.n, l.i, Fill(l, LastSector(l)))]
  /\ Goto(t, "write")
  /\ UNCHANGED <<image, objects, panic, call, loc, cont, fd, ret>>

WriteSector(t) ==
  LET l == io[t]
      s == ByteToSector(file[l.h].hdr, l.i * SectorSize)
      block == [k \in 0 .. SectorSize - 1 |->
                  LET o == l.i * SectorSize + k IN
                  IF o \in l.pos .. l.pos + l.n - 1 THEN call[t].buf[o - l.pos]
                  ELSE l.buf[o]]
  IN
  /\ In(t, "write")
  /\ disk' = [disk EXCEPT ![s] = DataSector(block)]
  /\ \/ /\ l.i < LastSector(l)
        /\ io' = [io EXCEPT ![t] = IO(l.h, l.pos, l.n, l.i + 1, l.buf)]
        /\ UNCHANGED <<file, pc, call, loc, cont, ret>>
     \/ /\ l.i = LastSector(l)
        /\ Transferred(t, "Write", <<>>)
  /\ UNCHANGED <<freeMap, directory, opfile, panic, fd>>

\* FileSystem::Close forgets the open file and leaks its object.
Close(t) ==
  /\ Enter(t, {"idle"}, "Close") /\ MayUse(t)
  /\ opfile' = Null
  /\ file' = Reachable(file, Null)
  /\ fd' = [fd EXCEPT ![t] = NoName]
  /\ ret' = [ret EXCEPT ![t] = Result("Close", TRUE, <<>>)]
  /\ UNCHANGED <<image, panic, pc, call, loc, io, cont>>

\* Read or Write through a null or wild opfile, or on through an object that
\* another thread has deleted.
BadPointer(t) ==
  \/ /\ \E op \in {"Read", "Write"} : Enter(t, {"idle"}, op)
     /\ MayUse(t) /\ ~Live(opfile)
     /\ Stop(IF opfile = Null THEN "null" ELSE "wild")
  \/ /\ panic = "none" /\ ~Live(io[t].h)
     /\ pc[t] \in {"read", "writeFirst", "writeLast", "write"}
     /\ Stop("wild")

-----------------------------------------------------------------------------
Commands ==
  \/ RemoveBegin \/ CopyBegin \/ CopyOpen \/ CopyWrite \/ CopyDelete
  \/ PrintBegin \/ PrintRead \/ PrintDelete

SystemCall(t) ==
  \/ LoadBegin(t) \/ CreateBegin(t) \/ OpenBegin(t) \/ ReadBegin(t)
  \/ WriteBegin(t) \/ Close(t) \/ BadPointer(t)

Step(t) ==
  \/ FetchDir1(t) \/ FetchDir2(t)
  \/ CreateAllocate(t) \/ RemoveHdr(t) \/ RemoveFree(t)
  \/ WriteHdr(t) \/ WriteDir1(t) \/ WriteDir2(t) \/ WriteMap(t)
  \/ OpenHdr(t) \/ LoadDelete(t)
  \/ ReadSector(t) \/ WriteFirst(t) \/ WriteLast(t) \/ WriteSector(t)
  \/ Finish(t)

Next ==
  \/ Commands
  \/ \E t \in Program : SystemCall(t)
  \/ \E t \in Thread : Step(t)
  \/ Reboot

Spec == Init /\ [][Next]_vars

-----------------------------------------------------------------------------
(* Properties.                                                             *)

AnyByte == Byte \cup {Stale}
Entry == [inUse: BOOLEAN, sector: Sector, name: Name \cup {NoName}]
Pointer == Handle \cup {Null, Wild}
Label == {"boot", "removed", "copyOpen", "copy", "copied", "print", "close",
          "printed", "noFile", "new", "idle", "done", "fetchDir1", "fetchDir2", "fetchMap",
          "fetchHdr", "writeHdr", "writeDir1", "writeDir2", "writeMap", "load",
          "read", "writeFirst", "writeLast", "write"}
AnyHeader == Header(Size) \cup {NoHeader}

ImageType ==
  /\ freeMap \subseteq Sector
  /\ directory \in [Slot -> Entry]
  /\ DOMAIN disk = Sector
  /\ \A s \in Sector :
       /\ disk[s].hdr \in Header(Size) \cup {Garbage}
       /\ disk[s].data \in [0 .. SectorSize - 1 -> AnyByte]

ObjectType ==
  /\ opfile \in Pointer
  /\ file \in [Handle -> [live: BOOLEAN, of: Name \cup {NoName},
                          hdr: AnyHeader, seekPosition: Nat]]

LocalType(t) ==
  /\ loc[t].dir \in [Slot -> Entry] /\ loc[t].map \subseteq Sector
  /\ loc[t].hdr \in AnyHeader /\ loc[t].sector \in Sector
  /\ io[t].h \in Pointer
  /\ io[t].pos \in Nat /\ io[t].n \in Nat /\ io[t].i \in Nat

ThreadType ==
  /\ panic \in {"none", "null", "wild"}
  /\ pc \in [Thread -> Label]
  /\ fd \in [Thread -> Name \cup {NoName}]
  /\ DOMAIN loc = Thread /\ DOMAIN call = Thread /\ DOMAIN io = Thread
  /\ DOMAIN cont = Thread /\ DOMAIN ret = Thread
  /\ \A t \in Thread : LocalType(t)

\* Every variable has its type; in particular the bitmap marks only sectors
\* of the disk (Bitmap::Mark asserts it) and a header has a pointer for every
\* sector its length needs (FileHeader::Allocate).
TypeOK == ImageType /\ ObjectType /\ ThreadType

Updating(t) == pc[t] \in {"writeDir1", "writeDir2", "writeMap"}

\* The files on the disk, and the sectors each of them owns.
InUse == {i \in Slot : directory[i].inUse}
HeaderOf(i) == disk[directory[i].sector].hdr
Owned(i) ==
  {directory[i].sector} \cup
  (IF HeaderOf(i) = Garbage THEN {} ELSE Range(HeaderOf(i).dataSectors))

\* At every moment, and so wherever the machine may stop, every directory
\* entry on the disk leads to a header, and no sector belongs to two files,
\* twice to one file, or to a file and to the system (FileSystem::Create
\* against Remove, with first-fit reuse of sectors).
NoSharedSector ==
  \A i \in InUse :
    /\ HeaderOf(i) # Garbage /\ IsInjective(HeaderOf(i).dataSectors)
    /\ directory[i].sector \notin Range(HeaderOf(i).dataSectors)
    /\ Owned(i) \cap System = {}
    /\ \A j \in InUse \ {i} : Owned(i) \cap Owned(j) = {}

\* At every moment the bitmap on the disk marks all sectors of every file
\* except the one being created or removed: stopping in the middle of a
\* Create or Remove puts no other file's sectors up for reuse.
BystandersMarked ==
  \A i \in InUse :
    \/ \E t \in Thread : Updating(t) /\ loc[t].sector = directory[i].sector
    \/ Owned(i) \subseteq freeMap

\* Outside the updates of Create and Remove the bitmap marks exactly the
\* sectors of the system and of the files in the directory: failed calls
\* leave nothing marked, Remove returns every sector.
NoLeak ==
  (\A t \in Thread : ~Updating(t)) =>
    freeMap = System \cup UNION {Owned(i) : i \in InUse}

\* The directory is written in two sectors, and its middle entry is in both:
\* after the first write the entry has its new inUse and its old name.  No
\* other existing file is hidden or replaced by it, since Directory::Add
\* takes the first free entry and FindIndex the first match.
TornDirectorySafe ==
  \A t \in Thread : Updating(t) =>
    \A n \in Name \ {call[t].name} :
      Found(loc[t].dir, n) =>
        FindIndex(directory, n) = FindIndex(loc[t].dir, n)

\* The header an OpenFile object read when it was opened, and never reads
\* again, stays the header of a file in the directory: what is read and
\* written through it are the sectors of that file.
OpenHeaderOwned ==
  \A x \in Handle : file[x].live => \E i \in InUse : HeaderOf(i) = file[x].hdr

\* The assertions of FileHeader::Deallocate (every sector "ought to be
\* marked!") and of Copy (the file just created can be opened) hold.
AssertionsHold ==
  /\ \A t \in Thread : At(t, "fetchMap") /\ call[t].op = "Remove" => Marked(t)
  /\ pc[Main] # "noFile"

\* FileHeader::Allocate is about to store more pointers than a header has.
Overrun(t) ==
  /\ At(t, "fetchMap") /\ call[t].op = "Create"
  /\ FirstClear(freeMap) # {} /\ AddIndex(loc[t].dir) # {}
  /\ NumDataSectors(call[t].size) \in NumDirect + 1 .. NumClear(freeMap) - 1

\* Files cannot be bigger than the header has room for.
NoOverrun == \A t \in Thread : ~Overrun(t)

\* A system call on an open file that is not there is answered with an error.
NoNullPointer == panic # "null"

\* The id that Open returns reads and writes the file that was opened.
IdDenotesFile ==
  \A t \in Program :
    pc[t] \in {"read", "writeFirst", "writeLast", "write"} =>
      file[io[t].h].of = fd[t]
=============================================================================
