# A verification of Nachos and its file system

Nachos is a teaching operating system that runs on a simulated machine. This
project models it in TLA+: the file system of `src/filesys` with the commands
and system calls that drive it, and below it the synchronous disk, the threads,
semaphores and interrupts, the devices, the instruction simulator and the
containers they are built from. TLC checks the models on small instances. TLAPS
proves the safety properties of the file system, the synchronous disk, threads
and semaphores, monitors, the console and the mail for every value of the
constants.

How the layers rest on each other:

    FileSystem  --implements-->  FileStore        (a map from names to contents)
        | each step is one atomic sector transfer of
    SynchDisk   --implements-->  AtomicDisk
        | each P() and V() is atomic in             Monitor, SynchList, Console,
    Threads     --implements-->  Semaphore   <----  SynchDisk
        | queues and pending interrupts are sequences
    LinkedList  --implements-->  ListSeq     <----  HashTable
    Bitmap      --implements-->  BitSet             (the free map of FileSystem)

## 1. The system

| part | state | operations that change it | talks to |
|---|---|---|---|
| `FileSystem` (filesys/filesys.cc) | `freeMapFile`, `directoryFile`, the one `opfile` | format, Create, Remove, Open, Read, Write, Close | everything below |
| `Directory` (filesys/directory.cc) | table of 10 entries of 20 bytes, in 2 sectors; entry 6 lies across the boundary | FetchFrom, WriteBack, Add, Remove | OpenFile |
| `FileHeader` (filesys/filehdr.cc) | length, sector pointers, in one sector | Allocate, Deallocate, FetchFrom, WriteBack | bitmap, SynchDisk |
| `OpenFile` (filesys/openfile.cc) | cached header, seek position | Read, Write, ReadAt, WriteAt, Seek, delete | FileHeader, SynchDisk |
| `PersistentBitmap`, `Bitmap` (filesys/pbitmap.cc, lib/bitmap.cc) | marked sectors | Mark, Clear, FindAndSet, FetchFrom, WriteBack | OpenFile |
| `SynchDisk` (filesys/synchdisk.cc) | lock, semaphore | ReadSector, WriteSector, CallBack | Lock, Semaphore, Disk |
| `Disk` (machine/disk.cc) | sectors, `active`, head position, track buffer | ReadRequest, WriteRequest, CallBack | Interrupt |
| `Semaphore`, `Lock`, `Condition` (threads/synch.cc) | value, holder, queues | P, V, Acquire, Release, Wait, Signal, Broadcast | Scheduler, Interrupt |
| `SynchList` (threads/synchlist.cc) | list | Append, RemoveFront, Apply | Lock, Condition |
| `Scheduler`, `Thread` (threads/) | ready list, status, thread to be destroyed | ReadyToRun, FindNextToRun, Run, Fork, Yield, Sleep, Finish | Interrupt |
| `Interrupt` (machine/interrupt.cc) | level, pending interrupts, clock | SetLevel, OneTick, Schedule, CheckIfDue, Idle, Halt | devices, Thread |
| `Timer`, `Alarm` | time of the next tick | CallBack | Interrupt |
| `Kernel`, `main` (threads/) | the objects above | Initialize, Exec, ExecAll, PrepareToEnd; Remove, Copy, Print | all |
| `ExceptionHandler` (userprog/exception.cc) | registers | the system calls | Kernel |
| `AddrSpace` (userprog/addrspace.cc) | page table, memory | Load, Execute | FileSystem, Machine |
| `Console`, `SynchConsole` | one character, busy flags | GetChar, PutChar, CallBack | Interrupt, Semaphore |
| `Machine` (machine/mipssim.cc, translate.cc) | registers, memory | OneInstruction, Translate, DelayedLoad | Interrupt, ExceptionHandler |
| `List`, `SortedList`, `HashTable` (lib/) | elements | Append, Prepend, Insert, Remove ... | none |
| network device and mail (machine/network.cc, network/post.cc) | packet buffer, mailboxes | Send, Receive, PostalDelivery, callbacks; not started by this build | Interrupt, SynchList |

What makes this code hard:

- a thread blocks at every sector that it transfers, and the file system has
  no lock: two calls interleave at sector granularity, each with its own copy
  of the directory and of the bitmap;
- Create and Remove write a header, a directory in two parts and a bitmap, one
  after the other, and a machine that stops in between leaves what was written;
- sectors are reused first-fit, directory entries too, with old names in them;
- headers are cached in OpenFile objects, and one `opfile` serves all programs;
- partial sectors at both ends of a write are read, changed and written back;
- a thread can be preempted wherever interrupts are turned on again, and objects
  are deleted by one thread while another is still inside a call on them;
- a device has one buffer and one pending interrupt, and everything depends on
  the next interrupt being scheduled exactly when the buffer is free again;
- the simulator does 32-bit arithmetic with the host's, delays loads by one
  instruction and may be interrupted between the two.

## 2. The model of the file system

`FileSystem.tla` is the state machine. A thread, `Main` or one of `Program`,
is at a label `pc[t]`, in a call `call[t]`, with locals `loc[t]` (directory,
bitmap and header fetched into memory) or `io[t]` (the locals of `ReadAt` and
`WriteAt`). **A step ends at each sector transfer**, and contains the code that
runs up to the next one. That code touches only locals, `opfile` and the
thread's OpenFile object.

| variable | code |
|---|---|
| `freeMap`, `directory` | contents of the bitmap file and of the directory file on the disk |
| `disk` | every sector as a header and as data; a sector last written as data reads as an arbitrary header, and one written as a header as bytes nobody wrote (`Stale`) |
| `opfile`, `file` | `FileSystem::opfile`; the OpenFile objects by address: live or deleted, header, seek position |
| `panic` | a null or wild pointer was followed and the machine stopped |
| `fd`, `ret` | for the properties only: the file a program believes its id stands for, the last result |

| actions | code |
|---|---|
| `RemoveBegin`, `CopyBegin` ... `CopyDelete`, `PrintBegin` ... `PrintDelete` | the commands of `main`, in the order in which it runs them |
| `LoadBegin`, `OpenHdr`, `LoadDelete` | `ForkExecute`, `AddrSpace::Load`: opens the executable, reads it, deletes the object (`opfile` still points to it) |
| `CreateBegin`, `OpenBegin`, `ReadBegin`, `WriteBegin`, `Close` | the system calls |
| `FetchDir1`, `FetchDir2` | `Directory::FetchFrom`, and the decision each call takes on `Find` |
| `CreateAllocate` | bitmap fetched, `FindAndSet`, `Directory::Add`, `FileHeader::Allocate`, with the three ways to fail |
| `WriteHdr`, `WriteDir1`, `WriteDir2`, `WriteMap` | the write-backs: Create writes header, directory, bitmap; Remove bitmap, directory |
| `RemoveHdr`, `RemoveFree` | header fetched; bitmap fetched, `Deallocate`, `Clear`, `Directory::Remove` |
| `ReadSector`, `WriteFirst`, `WriteLast`, `WriteSector` | the sector loops of `ReadAt` and `WriteAt` |
| `BadPointer` | `opfile->Read/Write` through a pointer that is null, uninitialised or deleted |
| `Finish`, `Reboot` | `Thread::Finish`; a new boot, with or without formatting |

Choices that a reader should know:

- There is no crash action: `Reboot` comes when no call is in progress. The
  code has no recovery, and says that a stop in the middle of an update "may
  corrupt the disk" (`filesys.cc:38`); a Remove that stops between its two writes
  leaves a file whose sectors are free, and the next boots may give them away.
  What holds at every moment of an update, and so of what such a stop leaves on
  the disk, is that the *other* files have their sectors marked and to
  themselves (`NoSharedSector`, `BystandersMarked`).
- An assertion that fails stops the program. The model does not continue from
  there (`Marked` guards `RemoveFree`, label `noFile` has no way out), and the
  property `AssertionsHold` says that it does not happen. The same for a
  header that overruns: `NoOverrun`.
- `Exclusive` says which calls the callers make one at a time. The source asks
  for this (`filesys.cc:177`, `directory.h:9`) and does not enforce it.
  `{"Create"}` is the assumption of the theorems; `{}` is the code as it is.
- A memory leak (Open or Close dropping an object) returns the address to the
  pool, so that the set of addresses can be small.
- A segment read of `Load` is left out: it changes only the memory of the
  machine. The file's sectors it reads do not change meanwhile in a way that
  matters here.
- Name comparison is equality: a name stands for its first 9 characters.

`FileStore.tla` is the abstract specification: a map from names to contents, one
open file, calls that take effect at one moment (Write: in parts) and then
return. Its callers enter it one at a time. `FileSystemRefines.tla` gives the
mapping: the content of a name is read through directory, header and data
sectors, and a Create or Remove takes effect when the first directory sector is
written. It also states `OneCaller`, which is that callers enter one at a time,
and `StoreInv`, the invariant that the proof of the refinement adds to `Inv`.

## 3. The models of the other parts

| module | code | state and actions |
|---|---|---|
| `Threads` | threads/thread.cc, scheduler.cc, alarm.cc, Semaphore of synch.cc, machine/interrupt.cc, timer.cc | current thread, ready list, status, thread to be destroyed; pending interrupts with the time left; value and queue of each semaphore; the machine's registers and each thread's copy. `cpu` is "run" where interrupts are on; any other value is a point inside a routine that has turned them off. One action per routine, or per part of one that ends where another thread may run |
| `Semaphore` | threads/synch.h | what P and V promise: atomic, and never below zero |
| `SelfTest` | Kernel::ThreadSelfTest; SelfTest of Thread, Semaphore, SynchList | each thread's calls as a sequence, on the kernel of `Threads`; what has been deleted |
| `SynchDisk`, `AtomicDisk` | filesys/synchdisk.cc, machine/disk.cc, Lock | lock, holder, semaphore, `active`, sectors; Call, Acquire, Request, Wait, Release, CallBack. Abstract: each transfer is one step between call and return |
| `Monitor` | Lock and Condition of threads/synch.cc | holder, queue of waiters, one semaphore for each; Wait is cut at its Release, P and Acquire |
| `SynchList` | threads/synchlist.cc | `Monitor` with a list; Append, RemoveFront, Apply |
| `Console` | machine/console.cc, userprog/synchconsole.cc, Kernel::ConsoleTest | input buffer, pending poll, busy flag, four semaphores; the keyboard; idling and halting |
| `PostOffice` | network/post.cc, machine/network.cc, the sockets of lib/sysdep.cc | machines that boot, halt, lose packets and retry sends; postal worker, mailboxes, send lock |
| `NetworkTest` | Kernel::NetworkTest | the test's four calls on each of two machines |
| `Memory`, `Mips` | machine/translate.cc, mipssim.cc, part of machine.cc | registers and memory; decoding, and one action per group of cases of OneInstruction; delayed loads and exceptions |
| `AddrSpaces` | userprog/addrspace.cc, Kernel::ExecAll and ForkExecute | how far each program is loaded, physical memory, page table register |
| `LinkedList`, `ListSeq` | lib/list.cc | cells, `first`, `last`, `numInList`; abstract: a sequence |
| `HashTable` | lib/hash.cc | buckets, growth, iterator |
| `Bitmap`, `BitSet` | lib/bitmap.cc, filesys/pbitmap.cc | words and masks, the file; abstract: a set |
| `DiskHead` | the timing of machine/disk.cc | position of the head, rotation, track buffer |

Choices that a reader should know:

- `SynchDisk`, `Monitor` and `Console` let threads interleave at the end of each
  P and V. This is where the kernel can be preempted: turning interrupts on
  calls OneTick, and nothing else in kernel code does. `Threads` has that
  detail, and implements `Semaphore`.
- In `Threads` an interrupt has the number of ticks that are left. This keeps the
  state space finite without a bound on the clock.
- `Mips` does not keep programs in memory: a fetch finds any word of a set that
  contains every opcode. The width of a byte is a constant, so that all operands
  of a narrow word can be tried. A system call returns any of a set of results
  (`Result`), and so does a logic or shift instruction, of which no property asks
  for more than where the result goes. The call Read, which goes to physical
  memory past the page table, fills its buffer wherever that is.
- In `PostOffice` a mailbox is an atomic queue, as `SynchList` shows it to be. A
  machine inside SendToSocket does nothing else: its UNIX process sleeps. The
  kernel of this build does not start the post office: the two lines that would
  (`kernel.cc:121`) are commented out. It is modelled as they were written to run.
- `AddrSpaces` lets threads interleave where they wait for the disk. A program's
  file is missing, no executable (Load then fails its assertion on `noffMagic`),
  or one with segments of any of the sizes; the segments lie one behind the other
  from address 0, as the linker script `src/test/script` places them. A byte of
  memory is zero or known by the program and address it was read for. What
  programs store themselves is not modelled. `SpaceTranslate` is the whole of
  `AddrSpace::Translate`, with the address and the use and dirty bits.

Where a comment and the code disagree, the model follows the code. Four such
places of the file system have a run of their own (section 4). The others:

| comment | code |
|---|---|
| `kernel.cc:132`: timer and console are disabled "after all threads complete" | `thread.cc:251` calls PrepareToEnd at the first idle moment, also when threads only wait for the disk; from then on there are no time slices |
| `kernel.cc:205`: "Typed characters will be echoed, until ^D is typed" | the same call disables the console, and the machine halts when its last poll is delivered (`console.cc:73`) |
| `mipssim.h:16`: opcodes as in the MIPS manual, where SRL and SRLV shift in zeros | `mipssim.cc:522` shifts a signed int, which keeps the sign (the model leaves the word open) |
| `network.h:51`: the reliability is the chance that a packet is lost | `network.cc:171` sends the packet with that chance |
| `addrspace.cc:64`: "we are only uniprogramming"; `:180`: the program "is assumed to have already been loaded" | `kernel.cc:287` starts a thread for each program; each AddrSpace maps page n to frame n and clears the memory, so that programs overlay each other |

## 4. Runs

The first seven runs use `MCFileSystem.tla`, with names, addresses and programs
symmetric.

| run | shows | bounds, and why they are enough |
|---|---|---|
| `metadata` | `TypeOK`, `NoSharedSector`, `BystandersMarked`, `NoLeak`, `TornDirectorySafe`, `OpenHeaderOwned`, `AssertionsHold`, `ImplementsStore` for Remove, Copy, Create, Load, Print over any number of boots | 9 sectors, 5 of them the system's: a file takes 3 sectors or (empty) 1, so the disk runs full with a header but no data sector left; 3 entries with the middle one torn: entries before, at and after the boundary; 3 names; a negative size |
| `data` | `ImplementsStore` for Read, Write, Close | sectors of 2 bytes, files of 1 and 3 bytes, requests of 1 and 3: every alignment of both ends, one and two sectors, a last sector that is partly file, requests past the end |
| `shared` | `Inv` (section 5) for 2 programs at every interleaving of sector transfers | Create, Open, Write and Load by 2 programs; 1-byte sectors, since alignment is the subject of `data`. The machine may stop at a bad pointer, so deadlock is not checked |
| `race` (violation) | `AssertionsHold` fails when 2 programs are in Create at once | the counterexample: both read the old bitmap |
| `oversize` (violation) | `NoOverrun` fails: Create accepts a file its header cannot describe | header with 1 pointer, size of 2 sectors |
| `not_open` (violation) | `NoNullPointer` fails: Write after Close or a failed Open | programs that do not look at results (`Careful = FALSE`) |
| `two_files` (violation) | `IdDenotesFile` fails: the id is ignored | 2 programs that enter one at a time |

The four violations are the findings of `PROJECT.json`, each with the comment
that the code disagrees with. `ImplementsStore` is checked for one program. It
also holds for several that enter one at a time, but `opfile` is shared: the one
open file of the store is then not what each of them expects (`two_files`).

Most of the other runs put several small systems side by side: a variable of the
MC module, fixed in the initial state, says which of them runs.

| run | systems | bounds, and why they are enough |
|---|---|---|
| `threads` | main, a user program and a kernel thread that make any calls but Yield on a semaphore and a device; two user programs, with Yield; the self test, with slices of random length | 3 threads: one running, one ready, one waiting or to be destroyed. A semaphore is raised to 2 at most, so that two wake-ups can be under way at once. A kernel tick is 2, a slice 3 or 5 ticks, so that a slice ends at every point of a routine. The self test has the 5 and 10 rounds of the source |
| `synch` | a monitor used in any order; a SynchList with 2 producers and 2 consumers; the console with 2 readers and a writer | 4 threads with 2 calls each: two can wait while a third signals and a fourth overtakes. 2 characters typed, of 2 kinds or byte 255: one in the buffer, one behind it |
| `disk` | 3 threads with 2 calls each on 2 sectors | one transfers, one holds a place at the lock, one comes late; data of two values shows a lost or a mixed-up transfer |
| `mail` | two competing senders and a receiver; the network test on two machines | 2 machines and 2 boxes, packets lost or not, a send tried twice, machines that are not up yet or gone |
| `parts` | the simulator with 4-bit words and with 8-bit words; address spaces; List; SortedList; HashTable; Bitmap; DiskHead | see below |

The instances of `parts`: every opcode on all pairs of 4-bit operands; loads and
stores, aligned and not, two in a row, at all addresses around a writable, a
read-only and an absent page; two programs, each with no file, one that is no
executable, or segment sizes that fill pages exactly, leave one byte over, are
missing, or do not fit; 4 items of which two pairs compare
equal, in any order of calls; a table that grows twice, with keys that collide
before and not after; 5 bits in words of 2, the last one not full; 3 tracks of 3
sectors, requests at any tick of three rotations.

What they show:

| property | run | meaning |
|---|---|---|
| `ThreadsInv` | threads | a thread is in exactly one place: running, ready, in one queue, or finished; one that has finished is deleted by the next to run, never while on its stack |
| `NoLostWakeup` | threads | while threads sleep on a semaphore, as many woken ones are on their way to it as it has units |
| `ProgramStateOwn` | threads | a program finds its own registers and page table, whatever ran in between |
| `InterruptsInv` | threads | pending interrupts are sorted and none is overdue when a thread runs; the machine halts only when nothing is left that could run |
| `SelfTestInv` | threads | the self test uses no object it has deleted, and at most one ball is in play |
| `ReadyRuns`, `SelfTestCompletes` | threads | liveness: a ready thread runs while the timer does, and once it is disabled as long as no thread keeps the processor for ever; the self test ends and the machine halts |
| `ImplementsSemaphore` | threads | queues, sleeping and interrupts amount to the atomic semaphore |
| `MonitorSafe`, `NoMissedSignal` | synch | the holder's assertions hold; Broadcast reaches all; no signal falls between Release and P of Wait |
| `QueueInv` | synch | items leave in order, once; for each item there is a consumer awake or none is asleep |
| `ConsoleInv` | synch | no character is lost, repeated or overwritten; polling goes on |
| `WaitsEnd` | synch | liveness: signalled threads return from Wait, RemoveFront returns if there are items, PutChar returns, what is typed is read |
| `IInv`, `ImplementsAtomicDisk`, `CallsReturn` | disk | the inductive invariant of section 5; transfers are atomic; liveness: every call returns |
| `PostInv`, `MailKept` | mail | one send in flight; a buffered packet is announced once; mail is delivered in order, and none that arrived is forgotten |
| `MailMoves`, `TestCompletes` | mail | liveness: Send returns even if the packet is lost, and what arrives gets to its mailbox; without a loss the test ends on both machines, each with the acknowledgement of its own greeting |
| `MachineInv`, `ArithmeticExact`, `FaultsContained` | parts | unaligned accesses move the right bytes, interrupted or not; sums, products and quotients are those of the integers, or overflow; an instruction that faults, for an address or an overflow, can be restarted and writes nothing |
| `SpaceInv` | parts | the stack is above the data; a program's memory holds its image, but for bytes that another program's segments were read over; the two Translate functions agree on exception, address, use and dirty bits, for reads and writes |
| `ListInv`, `ImplementsList` | parts | SanityCheck always holds; lists are sequences, and Insert is stable |
| `TableInv`, `ChangesOne` | parts | the table survives its growths, and each call changes one item |
| `ImplementsSet` | parts | the words are a set of bits |
| `HeadInv` | parts | a sector is read when all of it has passed the head, and from the buffer only if it is in there |

Deadlock is not checked in these runs: threads stop at the bound on their calls,
and the machine halts.

Fairness. The file system runs have none and no liveness property; a call of
the file system is a bounded sequence of transfers, and `CallsReturn` says that
each of them ends.

- `threads`: weak fairness of the whole next-state relation only. The processor
  is sequential, and the simulator does not stop by itself; which thread runs is
  decided by the modelled ready list, not by fairness. In the self test slices
  are longer than one kernel tick: with a slice that ends at every tick forever,
  threads would only take turns, and nothing in the code excludes it but the
  size of its constants.
- `synch`, `disk`: weak fairness of each thread's steps, which `ReadyRuns`
  justifies while the timer runs (without it a thread goes on until it waits, as
  all modelled calls do), and of the delivery of pending interrupts, which Idle and OneTick
  perform. No fairness of the callers: nobody has to signal, type or call. At a
  semaphore a thread can be overtaken, since V only makes it ready and P tests
  the value again; that this does not go on forever is due to the bound on the
  calls of each thread, not to the code.
- `mail`: the same for each machine; in the test, machines are started.
  Delivery is not assumed: a packet may always be lost.
- `parts`: none.

The properties that are conjunctions (`ThreadsInv`, `QueueInv`, `MachineInv` ...) are
built of named ones, each with its comment in the module of its component.

Every property has a mutant: a definition such as `SignalDrops` or
`LastAlignedAlways`, next to the definition it is a broken form of, with which
the property fails.

## 5. Proofs

Theorems and their proofs are in modules of their own, which end in `Proofs`;
`FileSystemLemmas` has what the two halves of the file system's proofs share.
They hold for every value of the constants that the named assumptions allow. A
leaf that names no prover is tried with Zenon, then with SMT.

| module | theorem | states |
|---|---|---|
| `FileSystemProofs` | `Invariance`, `TypeCorrect`, `SectorsUnshared`, `OthersMarked`, `NothingLeaked`, `OpenHeaders` | `Inv`, `TypeOK`, `NoSharedSector`, `BystandersMarked`, `NoLeak`, `OpenHeaderOwned` |
| | `HalfWrittenDirectory`, `AssertionsNeverFail` | `TornDirectorySafe`, `AssertionsHold` |
| `FileSystemRefinesProofs` | `Refinement` | `ImplementsStore`; its steps are lemmas of `FileSystemStoreProofs` |
| `MachineProofs` | `SynchDiskInvariant`, `SynchDiskIsAtomic` | `IInv`, `ImplementsAtomicDisk` |
| | `DiskNeverOverlaps`, `LockReleasedByHolder`, `CompletionIsOwn` | the assertions of disk and lock; a thread wakes for its own transfer |
| | `ConsoleKeepsInput`, `LatencyIsExact`, `ProgramsFindTheirSpace` | `ConsoleInv`, `HeadInv`, `SpaceInv` |
| `ThreadsProofs` | `ThreadsInPlace`, `ProgramsOwnTheirState`, `InterruptsAreTimely`, `NoWakeupIsLost`, `SemaphoresAtomic` | `ThreadsInv`, `ProgramStateOwn`, `InterruptsInv`, `NoLostWakeup`, `ImplementsSemaphore` |
| `MonitorProofs` | `MonitorIsSafe`, `SignalNeverMissed`, `ListIsQueue` | `MonitorSafe`, `NoMissedSignal`, `QueueInv` |
| `PostOfficeProofs` | `DevicesServeOne`, `MailIsKept` | `PostInv`, `MailKept` |

### The file system

`FileSystemInv.tla` states the inductive invariant `Inv`. `FileSystemProofs`
proves its part about control flow, types and transfers first, then the part
about the disk, then names. The theorems assume `"Create" \in Exclusive`, that is,
callers make one Create at a time. They hold for any number of programs that
open, read, write and load at the same time as one of them creates. The
assumptions on constants (`Constants`, `NotAHeader`) are in `FileSystem.tla`.

The argument. `NoSharedSector` is not inductive: that a new file shares no
sector with an old one follows from `NoLeak` (the bitmap is exact) at the
moment the bitmap is read, and must survive the four writes that follow. So
`Inv` says of the one thread that is creating or removing a file (`Update`):
its header and sectors are apart from those of all other files (`Others`); its
copy of the directory differs from the disk's in one entry `k` only; the bitmap
on the disk is exact but for that file; and how far each write has come. Main is
alone while it runs its commands (`Control`), so that the only Remove meets no
other change. A concurrent Open may read a half-written directory: `Opening`
keeps that what it found still leads to a file in use. That the writes of other
threads hit data sectors only, never a header, needs `OpenHeaderOwned` and that
transfers stay within the file (`Transferring`); Remove keeps
`OpenHeaderOwned` because nothing is open when main removes (`NothingOpen`).

Names (`NameInv`). The entry that lies across the two sectors has, between the
writes, a new flag and an old name. Nothing is hidden by it because the old name
of a free entry lies behind the entry that uses the name (`NamesInOrder`):
`Add` takes the first free entry and `FindIndex` the first match. `Renaming`
says the same of the entry that is being changed. `CopyInv` follows main from
the Create of Copy to the Open of the same name, which therefore finds it.

The refinement. `Refinement` says that the file system implements `FileStore`
if `OneCaller` holds: every call is `Exclusive`, or there is one program. It is
for any number of files, sectors, entries and bytes. Assumed besides: that the
marks for no file and for no open file can be told from files
(`NoFileNotOpen`).

- Which step is the effect. A Create or Remove takes effect with the write of the
  first directory sector, until the second of which the mapping reads the
  directory from the thread's memory (`Table`). Every sector that WriteAt writes
  is a part of the Write; the last is its return, and so is the last sector of
  ReadAt for a Read. Open takes effect as it returns, Load as it has the file
  open. Other steps inside a call stutter.
- What must hold before. `StoreInv` says that one thread at most is in a call
  (`Turns`), that the open file is in the directory under its name
  (`OpenNamed`), what the locals of a lookup, an Open and an update have to do
  with the disk (`Looking`), and of a transfer (`Moving`) that it goes to the
  open file, from the seek position and clipped to its length; that the bytes
  ReadAt has so far are the file's (`HasRead`); that what WriteAt has read back
  into its buffer are the old bytes of the file next to those asked for
  (`Filled`, `Around`); and that the sectors written so far hold the caller's
  bytes (`InPlace`).
- Why other files stay as they are. `Inv` has that no sector is shared and that
  the header of a new file goes to a sector of no other. A write to a data sector
  therefore changes the bytes of one file only, and within it those of one
  sector: the map from offsets to sector and place is one to one.

There is a lemma for each action (`CreateAllocateRefined`, `WriteSectorRefined`
and so on), which `StepRefined` puts together.

### The synchronous disk

The argument. That no two requests overlap follows from the lock only if a
thread that holds it has not left with its completion outstanding. `IInv` ties
the three together: at most one thread is past the lock, and then the lock is
taken; the disk is active, or the semaphore is raised, only while that thread
waits, and never both. The transfer takes effect at the request (the sector is
copied before the interrupt is scheduled), which is the abstract step; all
others stutter. Assumed: `DiskConstants`.

### The latency of the disk

`LatencyIsExact` is for any number of tracks and sectors and any times of seek
and rotation. Time is cut into slots of `RotationTime`, and slot `q` has sector
`q % SectorsPerTrack` under the head. The seek and the rotation after it end at a
slot boundary (`TimesAre`), so what remains is to count slots. `ModuloDiff` is the
number of slots to the next pass of a sector: it comes then (`TurnTo`) and not
before, because in less than a turn no sector comes twice (`NotBefore`). A
request for the buffer is the same count from the moment the buffer was started.
`HeadIInv` adds to `HeadInv` that the buffer is empty before the first request;
that the buffer is older than the request in progress completes
(`BufferOfThisTrack`) is what makes the difference in `BufferApplies` a number of
slots. Assumed: `HeadConstants`.

### Address spaces

`SpaceIInv` follows a program through its load. `Sized`: from the header on,
`numPages` is the sum of the sizes, rounded up, and no more than there is, or
Load has failed its assertion and nothing runs any more; the page table register
of the running program has its pages. `ClearedBefore`: no thread starts before
main has made all address spaces, each of which clears memory. `MemoryRead`:
each byte of memory is one that some program's segment, read so far, put there,
and is zero only if none has covered it. That the constructor of a later program
would clear what an earlier one has loaded is excluded by `ClearedBefore`; that
another program is read over it is not, and `SpaceInv` says no more than that
nothing else can happen to a byte. The two `Translate` functions agree because
the page tables are the same, both ask whether the page is below `numPages`, and
that is never above `NumPhysPages`, so that no frame is out of range and the
assertion on the physical address holds. Assumed: `SpaceConstants`.

### Threads, semaphores and interrupts

`ThreadsIInv` has six parts besides types. `Places`: the ready list and the
queues hold each thread once, and exactly the threads whose status and routine
say so. `Routines` and `Processor`: which routines a thread can be inside of in
each status, and where the current thread is for each point of the processor
(`cpu`); without them a thread could be made ready twice. `Carcass`: the thread
to be destroyed is a finished one, and only while another resumes. `Programs`:
a program's registers are in the machine while its thread runs and in its
thread object from the switch away to the switch back, kernel threads in between
included. `Timely`: the pending list is sorted, which `SortedList::Insert`
keeps, and nothing is overdue while a thread runs.

`Halted`, that the machine halts with nothing pending and nobody ready, and
`Tested`, that woken threads cover the units of a semaphore, are each inductive
relative to `ThreadsIInv`. `Tested` counts: V adds a unit and a woken thread if
anyone sleeps, P takes a unit as its thread stops being on its way. For
`SemaphoresAtomic` a P is mapped to the step in which the thread finds the value
positive, a V to its increment; sleeping, waking and switching stutter. Assumed:
`ThreadsConstants` (threads are finitely many, kinds of names are apart).

### Monitor and SynchList

The argument. A thread in Wait that has released the lock but not yet reached
its P is on the queue or has a raised semaphore. This needs that the queue
holds no thread twice and only threads that wait with a semaphore at zero
(`Queued`), which Signal and Broadcast keep because they take from the queue
what they raise. `FreeOutside`, that the lock is free when nobody is inside, is
the half of mutual exclusion that the next Acquire needs.

`ListIInv` adds for SynchList that what was appended is what was removed followed
by the list, position by position (`FifoPlaces`), and that while consumers wait
at least as many as there are items have been signalled, or are back from Wait,
and have yet to take theirs (`ItemsHaveTakers`). Assumed: `MonitorConstants`,
`ListConstants`.

### Console

`ConsoleIInv`. `Locks`: each lock is free exactly while nobody is between its
acquire and release. `OnePoll` and `OnePut`: an interrupt is pending, or its
wake-up is, or the thread it is for has been woken, never two of them. This is
why a poll never finds an unread character in the buffer. `InOrder`: received,
buffered and unread characters together are what was typed, until a byte 255,
which GetChar takes for the end of the input. The variables `received` and
`told` record what GetChar returned. Assumed: `ConsoleConstants` (writers have
something to write).

### Mail

`PostIInv`. `BufferAnnounced`: a buffered packet has one wake-up. `Senders`: the
one thread that has the send lock is between acquire and release, and the
interrupt or its wake-up is there while and only while it waits. `Places`: the
mail of one machine for one box is in order in each place (received, mailbox,
worker, device, socket), and what is further along is older. Stated for the
whole stream, order would not be inductive in a form the provers can use; place
by place, each step moves one packet from the head of one place to the tail of
the next. Numbers never run ahead of their sender's count, so a new packet is
the newest (`Retried` for the one that waits to be sent again). `Kept`: each
number that was used is in a place, lost or given up. Assumed: `PostAssumption`
and `NoPacket` (the marks for "nothing" are no packets).

### Only model-checked

- All liveness properties and the use of fairness.
- `SelfTestInv`: about one concrete program, all of whose runs TLC visits.
- The other properties of `parts`. What `Mips`, `LinkedList`, `HashTable` and
  `Bitmap` compute is defined by recursion over data (powers of two, a walk along
  pointers, a fold over buckets, the loops of FindAndSet and NumClear), and the
  provers have no induction for it.

## 6. Not modelled

- The context switch in assembly (threads/switch.S): its effect is in
  `Scheduler::Run`. Of `StackAllocate` the model has only where a new thread
  begins, not the layout of the stack; the fencepost check is left out with it.
- UNIX calls (lib/sysdep.cc) other than those of the sockets and the polling,
  debug output, statistics and the parsing of flags: input and output only.
- The TLB, which is not compiled in, and the single-step debugger.
- `List` and `Print` of the file system, which only read, and `OpenFile::Seek`,
  which nothing calls.
- The self tests of lib/, which are tests of what `parts` checks, and the
  destructors that run when the machine has stopped.
- The user programs of src/test: any sequence of calls is covered instead.
- The bytes of names, mail and segments, of which only identity matters.

What could be proved next: a store with an open file for each caller, once the
code keeps one.
