---------------------------- MODULE FileSystemInv ----------------------------
(***************************************************************************)
(* The inductive invariant behind the safety properties of FileSystem, for *)
(* callers of which at most one at a time is in Create.                    *)
(***************************************************************************)
EXTENDS FileSystem

\* Where a thread is while it is in each call.
Resting == {"boot", "removed", "copyOpen", "copy", "copied", "print", "close",
            "printed", "noFile", "new", "idle", "done"}
Lookup == {"fetchDir1", "fetchDir2"}
Where(op, label) ==
  \/ op = "none" /\ label \in Resting
  \/ op = "Create" /\ label \in Lookup \cup
       {"fetchMap", "writeHdr", "writeDir1", "writeDir2", "writeMap"}
  \/ op = "Remove" /\ label \in Lookup \cup
       {"fetchHdr", "fetchMap", "writeMap", "writeDir1", "writeDir2"}
  \/ op = "Open" /\ label \in Lookup \cup {"fetchHdr"}
  \/ op = "Load" /\ label \in Lookup \cup {"fetchHdr", "load"}
  \/ op = "Read" /\ label = "read"
  \/ op = "Write" /\ label \in {"writeFirst", "writeLast", "write"}

Mutating(t) == call[t].op \in {"Create", "Remove"}

\* Programs run only once main has finished, and at most one thread is
\* changing the directory.
Placed(t) ==
  /\ Where(call[t].op, pc[t])
  /\ {cont[t].next, cont[t].fail} \subseteq Resting \ {"boot"}
  /\ call[t].name \in Name \cup {NoName}
  /\ call[t].op = "Create" => call[t].size \in Size
Control ==
  /\ \A t \in Thread : Placed(t)
  /\ pc[Main] # "done" => \A p \in Program : pc[p] = "new"
  /\ \A p \in Program : call[p].op # "Remove"
  /\ \A t, u \in Thread : Mutating(t) /\ Mutating(u) => t = u

\* The sectors of the file that thread t is creating or removing, and those
\* of the system and of all files but the one of entry k.
Pending(t) == {loc[t].sector} \cup Range(loc[t].hdr.dataSectors)
Others(k) == System \cup UNION {Owned(j) : j \in InUse \ {k}}

\* Thread t is changing entry k; the bitmap on the disk and the one in its
\* locals differ by the sectors of that file.
Update(t, k) ==
  LET l == loc[t] IN
  /\ l.hdr \in Header(Size) /\ IsInjective(l.hdr.dataSectors)
  /\ l.sector \notin Range(l.hdr.dataSectors)
  /\ Pending(t) \cap Others(k) = {}
  /\ \A j \in Slot \ {k} : directory[j] = l.dir[j]
  /\ directory[k].inUse => directory[k].sector = l.sector
  /\ pc[t] # "writeHdr" => disk[l.sector].hdr = l.hdr
  /\ pc[t] = "writeDir2" => Join(directory, l.dir) = l.dir
  /\ call[t].op = "Create" =>
       /\ l.dir[k].inUse /\ l.dir[k].sector = l.sector
       /\ freeMap = Others(k) /\ l.map = Others(k) \cup Pending(t)
       /\ pc[t] \in {"writeHdr", "writeDir1"} => ~directory[k].inUse
       /\ pc[t] = "writeMap" => directory[k].inUse
  /\ call[t].op = "Remove" =>
       /\ ~l.dir[k].inUse /\ l.map = Others(k)
       /\ pc[t] = "writeMap" => directory[k].inUse
       /\ freeMap = IF pc[t] = "writeMap" THEN Others(k) \cup Pending(t)
                    ELSE Others(k)

\* What the locals of a Create or Remove say of the disk at each of its steps.
Changing(t) ==
  /\ pc[t] = "fetchDir2" /\ Mutating(t) => Join(loc[t].dir, directory) = directory
  /\ pc[t] = "fetchMap" => loc[t].dir = directory
  /\ pc[t] \in {"fetchHdr", "fetchMap"} /\ call[t].op = "Remove" =>
       /\ loc[t].dir = directory
       /\ \E k \in FindIndex(directory, call[t].name) :
            loc[t].sector = directory[k].sector
  /\ pc[t] = "fetchMap" /\ call[t].op = "Remove" =>
       loc[t].hdr = disk[loc[t].sector].hdr
  /\ pc[t] \in {"writeHdr", "writeDir1", "writeDir2", "writeMap"} =>
       \E k \in Slot : Update(t, k)

\* What the locals of an Open or Load say of the disk: entries in use stay in
\* use, for the same file.
Opening(t) ==
  call[t].op \in {"Open", "Load"} =>
    /\ pc[t] = "fetchDir2" =>
         \A j \in 0 .. Straddle : loc[t].dir[j].inUse =>
           directory[j].inUse /\ directory[j].sector = loc[t].dir[j].sector
    /\ pc[t] = "fetchHdr" =>
         \E i \in InUse : directory[i].sector = loc[t].sector

\* A transfer stays within the file; the sectors that a Write puts together
\* stay within its buffers.
Transferring(t) ==
  LET l == io[t] IN
  /\ pc[t] \in {"read", "writeFirst", "writeLast", "write"} =>
       /\ l.n > 0 /\ SectorOf(l.pos) <= l.i /\ l.i <= LastSector(l)
       /\ Live(l.h) => l.pos + l.n <= file[l.h].hdr.numBytes
  /\ pc[t] \in {"writeFirst", "writeLast", "write"} =>
       /\ l.buf \in [SectorOf(l.pos) * SectorSize ..
                       (LastSector(l) + 1) * SectorSize - 1 -> AnyByte]
       /\ call[t].buf \in [0 .. call[t].size - 1 -> Byte]
       /\ call[t].size \in Int /\ l.n <= call[t].size

\* When main removes a file no file is open.
NothingOpen ==
  pc[Main] = "boot" \/ call[Main].op = "Remove" =>
    \A x \in Handle : ~file[x].live

\* TypeOK and the safety properties of the image of the disk hold in every
\* state, and so do the facts about the locals of the calls in progress
\* (FileSystem::Create, Remove and Open) that they rest on.
Inv ==
  /\ TypeOK /\ Control
  /\ NoSharedSector /\ NoLeak /\ OpenHeaderOwned /\ NothingOpen
  /\ \A t \in Thread : Changing(t) /\ Opening(t) /\ Transferring(t)

-----------------------------------------------------------------------------
(* Names: what TornDirectorySafe and AssertionsHold rest on.               *)

Writing(t) == pc[t] \in {"writeHdr", "writeDir1", "writeDir2", "writeMap"}

\* No name is in use twice, and an old name left in a free entry lies behind
\* the entry that uses it: Directory::Add takes the first free entry.
NamesInOrder(table) ==
  \A i, j \in Slot :
    i # j /\ table[i].inUse /\ table[i].name = table[j].name =>
      i < j /\ ~table[j].inUse

\* The entry that thread t is changing, and what the directory on the disk has
\* in its place meanwhile.
Renaming(t, k) ==
  LET l == loc[t] IN
  /\ \A j \in Slot \ {k} : directory[j] = l.dir[j]
  /\ \A j \in Slot \ {k} : l.dir[j].inUse /\ l.dir[j].name = directory[k].name => j < k
  /\ call[t].op = "Create" => l.dir[k].inUse /\ l.dir[k].name = call[t].name
  /\ call[t].op = "Remove" => ~l.dir[k].inUse
  /\ pc[t] = "writeDir2" => Join(directory, l.dir) = l.dir
  /\ pc[t] = "writeMap" /\ call[t].op = "Create" => directory = l.dir

Naming(t) ==
  /\ pc[t] = "fetchMap" /\ call[t].op = "Create" => ~Found(loc[t].dir, call[t].name)
  /\ Writing(t) => NamesInOrder(loc[t].dir) /\ \E k \in Slot : Renaming(t, k)

NameInv ==
  /\ (\A t \in Thread : ~Writing(t)) => NamesInOrder(directory)
  /\ \A t \in Thread : Naming(t)

\* Main's Copy: the file that it creates is there until it has been opened.
CopyInv ==
  LET named == call[Main].name IN
  /\ pc[Main] # "noFile" /\ cont[Main].next # "noFile" /\ cont[Main].fail # "copyOpen"
  /\ pc[Main] = "copyOpen" => Found(directory, fd[Main])
  /\ cont[Main].next = "copyOpen" => call[Main].op = "Create" /\ named = fd[Main]
  /\ cont[Main].fail = "noFile" =>
       /\ call[Main].op = "Open" /\ Found(directory, named)
       /\ pc[Main] = "fetchDir2" => Join(loc[Main].dir, directory) = directory
=============================================================================
