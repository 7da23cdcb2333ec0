----------------------------- MODULE SelfTest -----------------------------
(***************************************************************************)
(* The kernel's self test (nachos -K): Kernel::ThreadSelfTest runs         *)
(* Thread::SelfTest, Semaphore::SelfTest and SynchList::SelfTest on the    *)
(* threads, semaphores, interrupts and time slices of module Threads.      *)
(*                                                                         *)
(* A thread's program is the sequence of the calls that it makes.  The     *)
(* locks and the condition of a SynchList are the semaphores that          *)
(* synch.cc makes them from; Wait creates its semaphore anew, and only one *)
(* thread ever waits for a list here, so that a list has one.              *)
(***************************************************************************)
EXTENDS Threads, SequencesExt

CONSTANTS Loops, Rounds   \* of SimpleThread, and of the two ping-pongs

VARIABLES
  pc,          \* the next call of each thread
  items,       \* how many items a SynchList holds
  waiting,     \* the lists with a semaphore on the queue of listEmpty
  deleted      \* the objects that were deleted

test == <<pc, items, waiting, deleted>>

List == {"own", "pinged"}   \* the SynchList under test, and its selfTestPing
Lock == [own |-> "ownLock", pinged |-> "pingedLock"]
Waiter == [own |-> "ownWaiter", pinged |-> "pingedWaiter"]

-----------------------------------------------------------------------------
(* The programs *)

Call(c, o) == [call |-> c, on |-> o]
Repeat(n, body) == FlattenSeq([i \in 1 .. n |-> body])

\* SynchList::Append; Signal is a V() if a thread waits.
ListAppend(l) == <<Call("P", Lock[l]), Call("put", l), Call("signal", l), Call("V", Lock[l])>>

\* SynchList::RemoveFront: Wait is Release, P() on the waiter and Acquire.
ListRemove(l) ==
  <<Call("P", Lock[l]), Call("while", l), Call("V", Lock[l]), Call("P", Waiter[l]),
    Call("P", Lock[l]), Call("again", l), Call("take", l), Call("V", Lock[l])>>

SimpleThread == Repeat(Loops, <<Call("Yield", "main")>>)
ThreadTest == <<Call("Fork", "simple"), Call("Yield", "main")>> \o SimpleThread

SemaphoreHelper == Repeat(Rounds, <<Call("P", "ping"), Call("V", "pong")>>)

SemaphoreTestUnawaited ==
  <<Call("Fork", "semHelper")>>
    \o Repeat(Rounds - 1, <<Call("V", "ping"), Call("P", "pong")>>)
    \o <<Call("V", "ping"), Call("delete", "ping")>>

SemaphoreTest ==
  <<Call("Fork", "semHelper")>> \o Repeat(Rounds, <<Call("V", "ping"), Call("P", "pong")>>)
    \o <<Call("delete", "ping")>>

ListHelperShort == Repeat(Rounds - 1, ListRemove("pinged") \o ListAppend("own"))

ListHelper == Repeat(Rounds, ListRemove("pinged") \o ListAppend("own"))

ListTest ==
  <<Call("Fork", "listHelper")>> \o Repeat(Rounds, ListAppend("pinged") \o ListRemove("own"))
    \o <<Call("delete", "pinged")>>

ThreadSelfTest ==
  ThreadTest \o SemaphoreTest \o <<Call("delete", "pong")>> \o ListTest \o <<Call("delete", "own")>>

\* Every thread ends in Finish, called by main() or by ThreadRoot.
Program ==
  [main |-> ThreadSelfTest, simple |-> SimpleThread,
   semHelper |-> SemaphoreHelper, listHelper |-> ListHelper]

-----------------------------------------------------------------------------
(* The calls *)

Goto(n) == pc' = [pc EXCEPT ![current] = @ + n]
Calls(c) == pc[current] <= Len(Program[current]) /\ Program[current][pc[current]].call = c
On == Program[current][pc[current]].on

ThreadCall ==
  /\ \/ Calls("P") /\ PCall(On)
     \/ Calls("V") /\ V(On)
     \/ Calls("Fork") /\ Fork(On)
     \/ Calls("Yield") /\ Yield
  /\ Goto(1) /\ UNCHANGED <<items, waiting, deleted>>

TestFinish == pc[current] > Len(Program[current]) /\ Finish /\ UNCHANGED test

Put ==
  /\ InKernel /\ Calls("put")
  /\ items' = [items EXCEPT ![On] = @ + 1]
  /\ Goto(1) /\ UNCHANGED <<vars, waiting, deleted>>

Take ==
  /\ InKernel /\ Calls("take")
  /\ items' = [items EXCEPT ![On] = @ - 1]
  /\ Goto(1) /\ UNCHANGED <<vars, waiting, deleted>>

\* The condition of the while loop; Wait appends a semaphore to its queue.
While ==
  /\ InKernel
  /\ \/ Calls("again") /\ Goto(-4) /\ UNCHANGED waiting
     \/ /\ Calls("while")
        /\ IF items[On] = 0 THEN waiting' = waiting \cup {On} /\ Goto(1)
                            ELSE UNCHANGED waiting /\ Goto(5)
  /\ UNCHANGED <<vars, items, deleted>>

ListSignal ==
  /\ InKernel /\ Calls("signal")
  /\ IF On \in waiting THEN V(Waiter[On]) ELSE UNCHANGED vars
  /\ waiting' = waiting \ {On}
  /\ Goto(1) /\ UNCHANGED <<items, deleted>>

\* ~Semaphore; ~SynchList deletes its lock and its condition first.
Delete ==
  /\ InKernel /\ Calls("delete")
  /\ deleted' = deleted \cup IF On \in List THEN {On, Lock[On], Waiter[On]} ELSE {On}
  /\ Goto(1) /\ UNCHANGED <<vars, items, waiting>>

KernelStep ==
  /\ Resume \/ CheckIfDue \/ TickDone \/ Idle \/ IdleDone \/ Dispatch \/ P
  /\ UNCHANGED test

TestInit ==
  /\ Init
  /\ pc = [t \in DOMAIN Program |-> 1] /\ items = [l \in List |-> 0]
  /\ waiting = {} /\ deleted = {}

TestNext ==
  ThreadCall \/ TestFinish \/ Put \/ Take \/ While \/ ListSignal \/ Delete \/ KernelStep

\* The simulator never stops by itself.
TestSpec == TestInit /\ [][TestNext]_<<vars, test>> /\ WF_<<vars, test>>(TestNext)

-----------------------------------------------------------------------------
(* Properties *)

StillUses(t) == {doing[t]} \cup {Program[t][i].on : i \in pc[t] .. Len(Program[t])}

\* ThreadSelfTest deletes the semaphores and the lists as soon as its own last
\* call on them returns.  The helper may still be inside V() or Append then,
\* but it never looks at the deleted object again and nothing is left in it.
NoUseAfterDelete ==
  /\ \A t \in DOMAIN Program : status[t] # "NONE" => StillUses(t) \cap deleted = {}
  /\ \A s \in Sem \cap deleted : queue[s] = <<>>
  /\ \A l \in List \cap deleted : items[l] = 0

\* The two threads ping-pong: there is one ball, in one of the semaphores or
\* lists or in the hands of one of the threads, whatever slices their time.
OneBall == value["ping"] + value["pong"] <= 1 /\ items["own"] + items["pinged"] <= 1

\* The self test completes: every thread makes all its calls, all objects are
\* deleted, and the machine then halts.
SelfTestCompletes ==
  pc["main"] = 1 ~> /\ cpu = "halt"
                    /\ \A l \in List : {l, Lock[l], Waiter[l], "ping", "pong"} \subseteq deleted
                    /\ \A t \in DOMAIN Program : pc[t] = Len(Program[t]) + 1

\* The helpers and the self test hand over one ball, and what the self test
\* deletes is not used again (Kernel::ThreadSelfTest).
SelfTestInv == NoUseAfterDelete /\ OneBall
=============================================================================
