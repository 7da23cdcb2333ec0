----------------------------- MODULE AddrSpaces -----------------------------
(***************************************************************************)
(* Starting user programs: Kernel::ExecAll, Exec and ForkExecute, and the  *)
(* AddrSpace they create, load and run (userprog/addrspace.cc).            *)
(*                                                                         *)
(* A thread gives up the processor only where it waits for the disk: in    *)
(* Open and in each ReadAt of Load, and in the system calls of a running   *)
(* program (the time slices end with the first wait, see Threads).  Each   *)
(* ReadAt copies to memory after its last wait.  Byte n of an executable   *)
(* is told apart from every other byte; what a program stores while it     *)
(* runs is left out.                                                       *)
(***************************************************************************)
EXTENDS Integers, Sequences, FiniteSets

CONSTANTS Program,        \* the executables named by -e, and their threads
          Files,          \* what the disk may have under a program's name: no file
                          \* (kind "none"), one in NOFF format ("noff", in either
                          \* byte order) with segments of the sizes code, ro, data
                          \* and bss, or some other one ("other")
          PageSize, NumPhysPages, UserStackSize,
          Gap,            \* left free above the stack pointer (16 bytes)
          ZeroByte        \* what bzero writes

ASSUME SpaceConstants ==
  /\ \A s \in Files : /\ s.kind \in {"none", "noff", "other"}
                      /\ s.code \in Nat /\ s.ro \in Nat /\ s.data \in Nat /\ s.bss \in Nat
  /\ PageSize \in Nat \ {0} /\ NumPhysPages \in Nat \ {0}
  /\ UserStackSize \in Nat /\ Gap \in 1..UserStackSize

VARIABLES noffH,     \* noffH[p]: the file of p, with the header that Load reads
          mainMemory,\* of the machine
          phase,     \* phase[p]: how far the thread of p has come
          numPages,  \* numPages[p]: pages of the address space
          running,   \* the page table register: the program and its pages
          stackReg,  \* stackReg[p]: the stack register p starts with
          aborted    \* an assertion failed

spaceVars == <<noffH, mainMemory, phase, numPages, running, stackReg, aborted>>

MemorySize == NumPhysPages * PageSize
Address == 0..(MemorySize - 1)

(***************************************************************************)
(* The layout that the linker script gives an executable, .sbss and .bss   *)
(* being one segment, and the sum Load makes of it.                        *)
(***************************************************************************)
Start(s) == [code |-> 0, ro |-> s.code, data |-> s.code + s.ro]
End(s) == s.code + s.ro + s.data + s.bss

\* The stack is not counted.
SpaceSizeNoStack(s) == End(s)

SpaceSize(s) == s.code + s.ro + s.data + s.bss + UserStackSize

\* divRoundUp
Pages(n) == (n + PageSize - 1) \div PageSize

\* A segment read from the file into memory.
ReadAt(p, seg) ==
  LET from == Start(noffH[p])[seg]
  IN  [a \in Address |-> IF a \in from..(from + noffH[p][seg] - 1)
                           THEN <<p, a>> ELSE mainMemory[a]]

(***************************************************************************)
(* The main thread makes a thread and an address space for each program    *)
(* before any of them runs.                                                *)
(***************************************************************************)
\* Exec, with the constructor of AddrSpace.
Exec(p) ==
  /\ phase[p] = "named"
  /\ mainMemory' = [a \in Address |-> ZeroByte]
  /\ phase' = [phase EXCEPT ![p] = "forked"]
  /\ UNCHANGED <<noffH, numPages, running, stackReg, aborted>>

\* Not waiting for the main thread to be done with all programs.
MainStarted == \E p \in Program : phase[p] # "named"

MainFinished == \A p \in Program : phase[p] # "named"
Turn(p) == MainFinished /\ ~ aborted

(***************************************************************************)
(* ForkExecute: Load, one wait for the disk after another, ...             *)
(***************************************************************************)
Open(p) ==
  /\ Turn(p) /\ phase[p] = "forked"
  /\ phase' = [phase EXCEPT ![p] = IF noffH[p].kind # "none" THEN "opened" ELSE "finished"]
  /\ UNCHANGED <<noffH, mainMemory, numPages, running, stackReg, aborted>>

\* The header is read, and its bytes are swapped if its magic number asks for
\* that; the assertions want a NOFF file, and one that memory has room for.
ReadHeader(p) ==
  LET n == IF noffH[p].kind = "noff" THEN Pages(SpaceSize(noffH[p])) ELSE numPages[p]
  IN  /\ Turn(p) /\ phase[p] = "opened"
      /\ numPages' = [numPages EXCEPT ![p] = n]
      /\ aborted' = (noffH[p].kind # "noff" \/ n > NumPhysPages)
      /\ phase' = [phase EXCEPT ![p] = "code"]
      /\ UNCHANGED <<noffH, mainMemory, running, stackReg>>

\* The segment that phase names is read, if it has a size; the next follows.
LoadSegment(p) ==
  LET seg == phase[p]
      next == [code |-> "data", data |-> "ro", ro |-> "loaded"]
  IN  /\ Turn(p) /\ seg \in {"code", "data", "ro"}
      /\ mainMemory' = ReadAt(p, seg)
      /\ phase' = [phase EXCEPT ![p] = next[seg]]
      /\ UNCHANGED <<noffH, numPages, running, stackReg, aborted>>

\* ... and Execute: InitRegisters, RestoreState, Machine::Run.
Execute(p) ==
  /\ Turn(p) /\ phase[p] = "loaded"
  /\ stackReg' = [stackReg EXCEPT ![p] = numPages[p] * PageSize - Gap]
  /\ running' = <<p, numPages[p]>>
  /\ phase' = [phase EXCEPT ![p] = "running"]
  /\ UNCHANGED <<noffH, mainMemory, numPages, aborted>>

\* The program runs on after another has run; the scheduler restores the
\* page table register (Scheduler::Run).
Resume(p) ==
  /\ Turn(p) /\ phase[p] = "running"
  /\ running' = <<p, numPages[p]>>
  /\ UNCHANGED <<noffH, mainMemory, phase, numPages, stackReg, aborted>>

Exit(p) ==
  /\ Turn(p) /\ phase[p] = "running" /\ running[1] = p
  /\ phase' = [phase EXCEPT ![p] = "finished"]
  /\ UNCHANGED <<noffH, mainMemory, numPages, running, stackReg, aborted>>

SpaceInit ==
  /\ noffH \in [Program -> Files]
  /\ mainMemory = [a \in Address |-> ZeroByte]
  /\ phase = [p \in Program |-> "named"]
  /\ numPages = [p \in Program |-> 0]
  /\ running = <<ZeroByte, 0>>
  /\ stackReg = [p \in Program |-> 0]
  /\ aborted = FALSE

SpaceNext ==
  \E p \in Program : \/ Exec(p) \/ Open(p) \/ ReadHeader(p) \/ LoadSegment(p)
                     \/ Execute(p) \/ Resume(p) \/ Exit(p)

SpaceSpec == SpaceInit /\ [][SpaceNext]_spaceVars

(***************************************************************************)
(* The page table the constructor makes: page n is frame n, valid and      *)
(* writable.  AddrSpace::Translate goes through it as the machine does     *)
(* (Memory), which is given the first numPages entries of it.              *)
(***************************************************************************)
Table(n) == [i \in 1..n |-> [valid |-> TRUE, readOnly |-> FALSE, physicalPage |-> i - 1]]

Machine(n) == INSTANCE Memory WITH PageTable <- Table(n), ByteBits <- 8,
                                   memory <- mainMemory, use <- {}, dirty <- {}

\* The exception, the physical address and the pages whose bits are set.
SpaceTranslate(p, vaddr, isReadWrite) ==
  LET vpn == vaddr \div PageSize
      pte == Table(NumPhysPages)[vpn + 1]
      paddr == pte.physicalPage * PageSize + (vaddr % PageSize)
      Fails(which) == [exception |-> which, paddr |-> 0, use |-> {}, dirty |-> {}]
  IN  IF vpn >= numPages[p] THEN Fails("AddressError")
      ELSE IF isReadWrite /\ pte.readOnly THEN Fails("ReadOnly")
      ELSE IF pte.physicalPage >= NumPhysPages THEN Fails("BusError")
      ELSE [exception |-> IF paddr < MemorySize THEN "none" ELSE "assert", paddr |-> paddr,
            use |-> {vpn}, dirty |-> IF isReadWrite THEN {vpn} ELSE {}]

(***************************************************************************)
(* Properties.                                                             *)
(***************************************************************************)
Live(p) == phase[p] = "running" /\ running[1] = p

\* The image of p: its segments, and zeroes where the uninitialised data and
\* the stack are.
Image(p, a) == IF a < noffH[p].code + noffH[p].ro + noffH[p].data THEN <<p, a>> ELSE ZeroByte

\* The segments of q that have been read, and the addresses they went to.
SegmentsRead(q) ==
  {seg \in {"code", "data", "ro"} : /\ numPages[q] # 0 /\ phase[q] # "code"
                                    /\ phase[q] = "data" => seg = "code"
                                    /\ phase[q] = "ro" => seg # "ro"}
Segment(q, seg) == Start(noffH[q])[seg]..(Start(noffH[q])[seg] + noffH[q][seg] - 1)
Covers(q, a) == \E seg \in SegmentsRead(q) : a \in Segment(q, seg)

\* The stack begins above the data and has its UserStackSize below the top
\* of the space, for every split of the sizes over the pages
\* (addrspace.cc:125-138, 234): it grows into no segment before it is full.
StackAboveData == \A p \in Program : Live(p) =>
  /\ stackReg[p] + Gap - UserStackSize >= End(noffH[p])
  /\ stackReg[p] + Gap <= MemorySize

\* A program that runs finds each byte of its image, and zeroes behind it,
\* except where a segment of another program was read to that address: all
\* programs have the same frames, but the constructor that clears them is never
\* called once a program is loaded (addrspace.cc:70-81, 147-170; kernel.cc:287).
ImageFound == \A p \in Program : Live(p) =>
  \A a \in 0..(numPages[p] * PageSize - 1) :
    \/ mainMemory[a] = Image(p, a)
    \/ \E q \in Program \ {p} : Covers(q, a) /\ mainMemory[a] = <<q, a>>

\* The kernel's own translation of user addresses (addrspace.cc:272-312) agrees
\* with the machine's (translate.cc:184-250) on every byte inside and outside
\* the space of the program that runs, for reads and for writes: in the
\* exception, in the physical address, and in the use and dirty bits it sets.
TranslationsAgree == \A p \in Program : Live(p) =>
  \A n \in 0..NumPhysPages : running[2] = n =>
    \A a \in 0..(MemorySize + PageSize), writing \in BOOLEAN :
      LET s == SpaceTranslate(p, a, writing)
      IN  /\ s.exception = Machine(n)!Translate(a, 1, writing)
          /\ s.exception = "none" => s.paddr = Machine(n)!Physical(a)
          /\ s.use = Machine(n)!UseBits(a, 1, writing)
          /\ s.dirty = Machine(n)!DirtyBits(a, 1, writing)

\* AddrSpace: the stack has its UserStackSize above the data; a program finds its
\* whole image in memory, but for what other programs were read over it; and
\* AddrSpace::Translate agrees with Machine::Translate on every address.
SpaceInv == StackAboveData /\ ImageFound /\ TranslationsAgree
=============================================================================
