----------------------------- MODULE MCThreads -----------------------------
(***************************************************************************)
(* Three small kernels.  In "free" the main thread, a user program and a   *)
(* kernel thread make any calls but Yield, on a semaphore and on that of a *)
(* device; in "programs" two user programs run at the same time; in        *)
(* "test" the kernel runs its self test, with the numbers of rounds of the *)
(* source.                                                                 *)
(***************************************************************************)
EXTENDS SelfTest

VARIABLE kernel

Forked == [free |-> {"a", "simple"}, programs |-> {"a", "b"}]
Uses == [free |-> {"disk", "s"}, programs |-> {}]

Locks == {Lock[l] : l \in List}
MCThread == DOMAIN Program \cup {"a", "b"}
MCSem == {"disk", "s", "ping", "pong"} \cup Locks \cup {Waiter[l] : l \in List}
MCValue == [s \in MCSem |-> IF s \in Locks THEN 1 ELSE 0]

\* Bound: only the self test has time slices of random length (-rs).
Regular(p) == \A i \in DOMAIN p : p[i].left <= 3

FreeInit ==
  /\ Init /\ Regular(pending) /\ pc = [t \in DOMAIN Program |-> Len(Program[t]) + 1]
  /\ items = [l \in List |-> 0] /\ waiting = {} /\ deleted = {}

FreeNext ==
  /\ \/ Resume \/ CheckIfDue \/ TickDone \/ Idle \/ IdleDone \/ Dispatch \/ P
     \/ \E s \in Uses[kernel] : PCall(s) \/ (s \notin Device /\ V(s))
     \/ \E d \in Uses[kernel] \cap Device : Request(d)
     \/ \E u \in Forked[kernel] : Fork(u)
     \/ (kernel = "programs" /\ Yield)
     \/ Finish \/ Execute \/ Instruction \/ Trap \/ Return
  /\ Regular(pending') /\ UNCHANGED test

MCInit == \/ kernel \in DOMAIN Forked /\ FreeInit
          \/ kernel = "test" /\ TestInit
MCNext == \/ kernel \in DOMAIN Forked /\ FreeNext /\ UNCHANGED kernel
          \/ kernel = "test" /\ TestNext /\ UNCHANGED kernel
MCSpec == MCInit /\ [][MCNext]_<<vars, test, kernel>> /\ WF_<<vars, test, kernel>>(MCNext)
=============================================================================
