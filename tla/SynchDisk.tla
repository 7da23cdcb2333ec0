----------------------------- MODULE SynchDisk -----------------------------
(***************************************************************************)
(* SynchDisk (src/filesys/synchdisk.cc) over the simulated disk            *)
(* (src/machine/disk.cc) and a Lock (src/threads/synch.cc).  Semaphores    *)
(* are the atomic ones of module Semaphore, which module Threads shows the *)
(* kernel to provide; threads interleave wherever a semaphore operation    *)
(* ends, which is where the kernel can be preempted.                       *)
(***************************************************************************)
EXTENDS Naturals

CONSTANTS
  Thread, NoThread, Sector, Data, Zero,
  MaxCalls    \* bound: the calls of one thread

VARIABLES
  lock,         \* the value of the lock's semaphore
  lockHolder,
  semaphore,    \* the value of SynchDisk::semaphore
  active,       \* Disk::active, and an interrupt is pending
  sectors,      \* the UNIX file that holds the sectors
  request,      \* the arguments and the data of each thread's call
  pc,           \* where each thread is in ReadSector or WriteSector
  calls         \* how many calls each thread has made
vars == <<lock, lockHolder, semaphore, active, sectors, request, pc, calls>>

ASSUME DiskConstants == NoThread \notin Thread /\ Zero \in Data /\ MaxCalls \in Nat

Free == [op |-> "none", sector |-> 0, data |-> Zero]

Goto(t, l) == pc' = [pc EXCEPT ![t] = l]

Init ==
  /\ lock = 1 /\ lockHolder = NoThread /\ semaphore = 0 /\ active = FALSE
  /\ sectors = [s \in Sector |-> Zero]
  /\ request = [t \in Thread |-> Free]
  /\ pc = [t \in Thread |-> "out"] /\ calls = [t \in Thread |-> 0]

\* A call of ReadSector or WriteSector.
Call(t) ==
  /\ pc[t] = "out" /\ calls[t] < MaxCalls
  /\ \E op \in {"read", "write"}, s \in Sector, d \in Data :
       request' = [request EXCEPT ![t] = [op |-> op, sector |-> s, data |-> d]]
  /\ calls' = [calls EXCEPT ![t] = @ + 1] /\ Goto(t, "acquire")
  /\ UNCHANGED <<lock, lockHolder, semaphore, active, sectors>>

AcquireUnlocked(t) ==
  /\ pc[t] = "acquire" /\ Goto(t, "request")
  /\ UNCHANGED <<lock, lockHolder, semaphore, active, sectors, request, calls>>

\* The P() of Lock::Acquire.
Acquire(t) ==
  /\ pc[t] = "acquire" /\ lock > 0
  /\ lock' = lock - 1 /\ Goto(t, "request")
  /\ UNCHANGED <<lockHolder, semaphore, active, sectors, request, calls>>

StartTransferUnwritten(t) ==
  request' = [request EXCEPT ![t] =
    [op |-> @.op, sector |-> @.sector, data |-> sectors[@.sector]]] /\ UNCHANGED sectors

\* Disk::ReadRequest and WriteRequest transfer the data at once; the interrupt
\* says when the disk would have done it.
StartTransfer(t) ==
  \/ /\ request[t].op = "write"
     /\ sectors' = [sectors EXCEPT ![request[t].sector] = request[t].data]
     /\ UNCHANGED request
  \/ /\ request[t].op = "read"
     /\ request' = [request EXCEPT ![t] =
          [op |-> "read", sector |-> @.sector, data |-> sectors[@.sector]]]
     /\ UNCHANGED sectors

\* The rest of Lock::Acquire, and the request to the disk.
Request(t) ==
  /\ pc[t] = "request" /\ Goto(t, "wait")
  /\ lockHolder' = t
  /\ StartTransfer(t) /\ active' = TRUE
  /\ UNCHANGED <<lock, semaphore, calls>>

\* ReadSector's and WriteSector's semaphore->P().
Wait(t) ==
  /\ pc[t] = "wait" /\ semaphore > 0
  /\ semaphore' = semaphore - 1 /\ Goto(t, "release")
  /\ UNCHANGED <<lock, lockHolder, active, sectors, request, calls>>

ReleaseKept(t) ==
  /\ pc[t] = "release" /\ Goto(t, "out")
  /\ lockHolder' = NoThread
  /\ request' = [request EXCEPT ![t] = Free]
  /\ UNCHANGED <<lock, semaphore, active, sectors, calls>>

\* Lock::Release, and the return to the caller.
Release(t) ==
  /\ pc[t] = "release" /\ Goto(t, "out")
  /\ lockHolder' = NoThread /\ lock' = lock + 1
  /\ request' = [request EXCEPT ![t] = Free]
  /\ UNCHANGED <<semaphore, active, sectors, calls>>

\* Disk::CallBack and SynchDisk::CallBack, run by the disk's interrupt.
CallBack ==
  /\ active /\ active' = FALSE
  /\ semaphore' = semaphore + 1
  /\ UNCHANGED <<lock, lockHolder, sectors, request, pc, calls>>

Step(t) == Call(t) \/ Acquire(t) \/ Request(t) \/ Wait(t) \/ Release(t)

Next == CallBack \/ \E t \in Thread : Step(t)

Safety == Init /\ [][Next]_vars

\* A thread that can go on is given the processor (the ready list is a queue),
\* and a scheduled interrupt is delivered.
Spec ==
  Safety /\ WF_vars(CallBack)
  /\ \A t \in Thread : WF_vars(Acquire(t) \/ Request(t) \/ Wait(t) \/ Release(t))

-----------------------------------------------------------------------------

\* The type of the state: both semaphores are binary.
DiskTypeOK ==
  /\ lock \in 0 .. 1 /\ semaphore \in 0 .. 1 /\ active \in BOOLEAN
  /\ lockHolder \in Thread \cup {NoThread}
  /\ sectors \in [Sector -> Data]
  /\ request \in [Thread -> [op : {"read", "write"}, sector : Sector, data : Data] \cup {Free}]
  /\ pc \in [Thread -> {"out", "acquire", "request", "wait", "release"}]
  /\ calls \in [Thread -> 0 .. MaxCalls]

\* ASSERT(!active) in ReadRequest and WriteRequest: the disk is idle whenever a
\* thread gets to it.
OneRequest == \A t \in Thread : pc[t] = "request" => ~active

\* ASSERT(IsHeldByCurrentThread()) in Lock::Release: the thread that releases
\* the lock is the one that lockHolder names, although it was written some time
\* after the lock had been taken.
ReleasedByHolder == \A t \in Thread : pc[t] = "release" => lockHolder = t

\* The completion of a transfer wakes the thread that asked for it: nobody is
\* past its wait while the disk is still at work, and no unit of the semaphore
\* is left for a later call to take too early.
OwnCompletion ==
  /\ active \/ semaphore > 0 => \E t \in Thread : pc[t] = "wait"
  /\ \A t \in Thread : pc[t] = "release" => ~active

Abstract == INSTANCE AtomicDisk WITH
  done <- {t \in Thread : pc[t] \in {"wait", "release"}}

Locked(t) == pc[t] \in {"request", "wait", "release"}

\* The assertions of Disk and Lock in inductive form.  One thread at a time is
\* between Acquire and Release of ReadSector or WriteSector, and the lock is taken
\* while it is; the disk is active, or the semaphore raised, only while that
\* thread, the holder, waits, and not both; a call is recorded while it lasts.
IInv ==
  /\ DiskTypeOK
  /\ \A t, u \in Thread : Locked(t) /\ Locked(u) => t = u
  /\ \A t \in Thread : Locked(t) => lock = 0
  /\ active => semaphore = 0
  /\ active \/ semaphore > 0 => \E t \in Thread : pc[t] = "wait"
  /\ \A t \in Thread : pc[t] \in {"wait", "release"} => lockHolder = t
  /\ \A t \in Thread : pc[t] = "out" <=> request[t] = Free

\* Threads see a disk whose transfers are atomic.
ImplementsAtomicDisk == Abstract!Spec

\* Every call of ReadSector and WriteSector returns.
CallsReturn == \A t \in Thread : pc[t] # "out" ~> pc[t] = "out"
=============================================================================
