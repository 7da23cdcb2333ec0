------------------------------ MODULE Monitor ------------------------------
(***************************************************************************)
(* Lock and Condition (src/threads/synch.cc): a monitor lock with one      *)
(* condition variable, used by threads that in any order enter, wait,      *)
(* signal, broadcast and leave.  Semaphores are those of module Semaphore; *)
(* threads interleave at the end of each P() and V().                      *)
(***************************************************************************)
EXTENDS Naturals, Sequences

CONSTANTS
  Thread, NoThread,
  MaxCalls    \* bound: how often one thread enters the monitor

VARIABLES
  lock,        \* the value of the lock's semaphore
  lockHolder,
  waitQueue,   \* the threads whose semaphores are on the condition's queue
  waiter,      \* the value of the semaphore of each waiting thread
  pc,          \* where each thread is
  calls        \* how often each thread has entered
mvars == <<lock, lockHolder, waitQueue, waiter, pc, calls>>

ASSUME MonitorConstants == NoThread \notin Thread /\ MaxCalls \in Nat

Goto(t, l) == pc' = [pc EXCEPT ![t] = l]

MInit ==
  /\ lock = 1 /\ lockHolder = NoThread /\ waitQueue = <<>>
  /\ waiter = [t \in Thread |-> 0] /\ calls = [t \in Thread |-> 0]
  /\ pc = [t \in Thread |-> "out"]

\* The P() of Lock::Acquire; lockHolder is written by what follows it.
Acquire(t, from, to) ==
  /\ pc[t] = from /\ lock > 0
  /\ lock' = lock - 1 /\ Goto(t, to)
  /\ UNCHANGED <<lockHolder, waitQueue, waiter>>

Release == lockHolder' = NoThread /\ lock' = lock + 1

\* Condition::Wait up to its waiter->P().
StartWait(t) ==
  /\ waitQueue' = Append(waitQueue, t) /\ waiter' = [waiter EXCEPT ![t] = 0]
  /\ Release /\ Goto(t, "waiting")

\* Wait's P(): from here the lock is to be acquired again.
Wake(t) ==
  /\ pc[t] = "waiting" /\ waiter[t] > 0
  /\ waiter' = [waiter EXCEPT ![t] = @ - 1] /\ Goto(t, "again")
  /\ UNCHANGED <<lock, lockHolder, waitQueue, calls>>

SignalDrops == waitQueue' = (IF waitQueue = <<>> THEN <<>> ELSE Tail(waitQueue)) /\ UNCHANGED waiter

\* Condition::Signal.
Signal ==
  \/ waitQueue = <<>> /\ UNCHANGED <<waitQueue, waiter>>
  \/ /\ waitQueue # <<>>
     /\ waitQueue' = Tail(waitQueue)
     /\ waiter' = [waiter EXCEPT ![Head(waitQueue)] = @ + 1]

-----------------------------------------------------------------------------
(* Threads that use the condition in every possible way *)

Enter(t) ==
  /\ calls[t] < MaxCalls /\ calls' = [calls EXCEPT ![t] = @ + 1]
  /\ Acquire(t, "out", "locked")
Reenter(t) == Acquire(t, "again", "locked") /\ UNCHANGED calls
Hold(t) ==
  /\ pc[t] = "locked" /\ Goto(t, "in")
  /\ lockHolder' = t /\ UNCHANGED <<lock, waitQueue, waiter, calls>>
CallWait(t) == pc[t] = "in" /\ StartWait(t) /\ UNCHANGED calls
CallSignal(t) ==
  pc[t] = "in" /\ Signal /\ Goto(t, "leave") /\ UNCHANGED <<lock, lockHolder, calls>>

BroadcastOnce(t) ==
  /\ pc[t] = "in" /\ waitQueue # <<>> /\ Signal /\ Goto(t, "broadcasted")
  /\ UNCHANGED <<lock, lockHolder, calls>>

\* A round of the loop of Condition::Broadcast; each ends in a V().
Broadcast(t) ==
  /\ pc[t] \in {"in", "broadcasting"} /\ UNCHANGED <<lock, lockHolder, calls>>
  /\ \/ waitQueue # <<>> /\ Signal /\ Goto(t, "broadcasting")
     \/ waitQueue = <<>> /\ Goto(t, "broadcasted") /\ UNCHANGED <<waitQueue, waiter>>

Leave(t) ==
  /\ pc[t] \in {"in", "leave", "broadcasted"} /\ Release /\ Goto(t, "out")
  /\ UNCHANGED <<waitQueue, waiter, calls>>

Step(t) == \/ Wake(t) \/ Reenter(t) \/ Hold(t) \/ CallWait(t) \/ CallSignal(t)
           \/ Broadcast(t) \/ Leave(t)

MNext == \E t \in Thread : Enter(t) \/ Step(t)

MSpec == MInit /\ [][MNext]_mvars /\ \A t \in Thread : WF_mvars(Step(t))

-----------------------------------------------------------------------------

Outside == {"out", "waiting", "again", "acquire"}

\* The type of the state; the lock is a binary semaphore.
MonitorTypeOK ==
  /\ lock \in 0 .. 1 /\ lockHolder \in Thread \cup {NoThread}
  /\ waitQueue \in Seq(Thread) /\ waiter \in [Thread -> 0 .. 1]
  /\ DOMAIN pc = Thread /\ calls \in [Thread -> 0 .. MaxCalls]

\* The assertions of Release, Wait and Signal: a thread that gets to one of
\* them holds the lock, and it is alone inside the monitor.
HeldInside ==
  \A t \in Thread : pc[t] \notin Outside =>
    /\ pc[t] # "locked" => lockHolder = t
    /\ lock = 0 /\ \A u \in Thread \ {t} : pc[u] \in Outside

\* "There is no chance the waiter will miss the signal" (synch.cc:235), though
\* the lock is released before P(): a thread in Wait is on the queue once, or
\* it has been signalled once.
NoMissedSignal ==
  \A t \in Thread :
    LET places == {i \in DOMAIN waitQueue : waitQueue[i] = t} IN
    IF pc[t] # "waiting" THEN places = {} /\ waiter[t] = 0
    ELSE \/ waiter[t] = 0 /\ \E i \in places : places = {i}
         \/ waiter[t] = 1 /\ places = {}

\* Broadcast leaves nobody waiting that it found waiting.
BroadcastWakesAll ==
  \A t \in Thread : pc[t] = "broadcasted" =>
    \A u \in Thread : pc[u] = "waiting" => waiter[u] = 1

\* A thread that has been signalled comes out of Wait with the lock.
SignalledReturns == \A t \in Thread : waiter[t] > 0 ~> pc[t] = "locked"

\* The assertions of Lock and Condition hold in every order of calls, and
\* Broadcast has reached everyone when it is over (synch.cc).
MonitorSafe == MonitorTypeOK /\ HeldInside /\ BroadcastWakesAll
=============================================================================
