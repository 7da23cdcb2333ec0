--------------------------- MODULE MonitorProofs ----------------------------
(***************************************************************************)
(* The assertions of Lock and Condition, and that no signal is missed, for *)
(* any number of threads and calls; and that a SynchList is a queue that   *)
(* wakes a consumer for each item.                                         *)
(***************************************************************************)
EXTENDS SynchList, FiniteSetTheorems, TLAPS

\* Leaves that name no prover: Zenon for at most 3 seconds, then SMT.
USE ZenonT(3), SMTT(30)

\* The queue of the condition, by positions: no thread is on it twice, and a
\* thread in Wait is on it until it is signalled.
Queued ==
  /\ \A i, j \in 1 .. Len(waitQueue) : waitQueue[i] = waitQueue[j] => i = j
  /\ \A t \in Thread : pc[t] # "waiting" =>
       waiter[t] = 0 /\ \A i \in 1 .. Len(waitQueue) : waitQueue[i] # t
  /\ \A t \in Thread : pc[t] = "waiting" =>
       \/ waiter[t] = 0 /\ \E i \in 1 .. Len(waitQueue) : waitQueue[i] = t
       \/ waiter[t] = 1 /\ \A i \in 1 .. Len(waitQueue) : waitQueue[i] # t

\* With nobody inside the lock is free: the half of mutual exclusion that the
\* next Acquire needs.
FreeOutside == (\A t \in Thread : pc[t] \in Outside) => lock = 1

IInv == MonitorTypeOK /\ HeldInside /\ Queued /\ FreeOutside

USE MonitorConstants DEF MonitorConstants

LEMMA TailOfQueue ==
  ASSUME NEW q \in Seq(Thread), q # <<>>
  PROVE  /\ Len(q) \in Nat \ {0} /\ Head(q) = q[1] /\ q[1] \in Thread
         /\ Tail(q) \in Seq(Thread) /\ Len(Tail(q)) = Len(q) - 1
         /\ \A i \in 1 .. Len(q) - 1 : Tail(q)[i] = q[i + 1]
  OBVIOUS

LEMMA InitIInv == MInit => IInv
<1> SUFFICES ASSUME MInit PROVE IInv
  OBVIOUS
<1>1. MonitorTypeOK
  BY DEF MInit, MonitorTypeOK
<1>2. Len(waitQueue) = 0
  BY DEF MInit
<1> QED
  BY <1>1, <1>2 DEF IInv, MInit, HeldInside, Queued, FreeOutside, Outside

\* What Goto does to the other threads.
LEMMA GotoOne ==
  ASSUME MonitorTypeOK, NEW t \in Thread, NEW l, Goto(t, l)
  PROVE  DOMAIN pc' = Thread /\ \A u \in Thread : pc'[u] = IF u = t THEN l ELSE pc[u]
BY DEF MonitorTypeOK, Goto

\* Lock::Acquire, for the first time or at the end of Wait: the lock was free, so
\* that nobody was inside.
LEMMA AcquireIInv ==
  ASSUME IInv, NEW t \in Thread, NEW from \in {"out", "again", "acquire"},
         Acquire(t, from, "locked"),
         calls' \in [Thread -> 0 .. MaxCalls]
  PROVE  IInv'
<1>1. \A u \in Thread : pc[u] \in Outside
  BY DEF IInv, HeldInside, Acquire
<1>2. DOMAIN pc' = Thread /\ \A u \in Thread : pc'[u] = IF u = t THEN "locked" ELSE pc[u]
  BY GotoOne DEF IInv, Acquire
<1>3. lock' = 0
  BY DEF IInv, MonitorTypeOK, Acquire
<1>4. MonitorTypeOK'
  BY <1>2, <1>3 DEF IInv, MonitorTypeOK, Acquire
<1>5. HeldInside' /\ FreeOutside'
  BY <1>1, <1>2, <1>3 DEF HeldInside, FreeOutside, Outside
<1>6. Queued'
  BY <1>2 DEF IInv, Queued, Acquire
<1> QED
  BY <1>4, <1>5, <1>6 DEF IInv

\* A thread that moves from one place inside the monitor to another.
LEMMA StaysInside ==
  ASSUME IInv, NEW t \in Thread, pc[t] \notin Outside, NEW l, l \notin Outside, Goto(t, l),
         lockHolder' = t, UNCHANGED <<lock, calls>>,
         Queued', waitQueue' \in Seq(Thread), waiter' \in [Thread -> 0 .. 1]
  PROVE  IInv'
<1>1. DOMAIN pc' = Thread /\ \A u \in Thread : pc'[u] = IF u = t THEN l ELSE pc[u]
  BY GotoOne DEF IInv
<1>2. MonitorTypeOK'
  BY <1>1 DEF IInv, MonitorTypeOK
<1>3. HeldInside' /\ FreeOutside'
  BY <1>1 DEF IInv, HeldInside, FreeOutside
<1> QED
  BY <1>2, <1>3 DEF IInv

\* The same when the queue and the semaphores of the waiting threads stay.
LEMMA MovesInside ==
  ASSUME IInv, NEW t \in Thread, pc[t] \notin Outside, NEW l, l \notin Outside, Goto(t, l),
         lockHolder' = t, UNCHANGED <<lock, waitQueue, waiter, calls>>
  PROVE  IInv'
<1>1. \A u \in Thread : pc'[u] = IF u = t THEN l ELSE pc[u]
  BY GotoOne DEF IInv
<1>2. l # "waiting" /\ pc[t] # "waiting"
  BY DEF Outside
<1>3. Queued' /\ waitQueue' \in Seq(Thread) /\ waiter' \in [Thread -> 0 .. 1]
  BY <1>1, <1>2 DEF IInv, MonitorTypeOK, Queued
<1> QED
  BY <1>3, StaysInside

\* Leaving the monitor, by Leave or by Wait: the thread was alone inside.
LEMMA ReleaseOutside ==
  ASSUME IInv, NEW t \in Thread, pc[t] \notin Outside, Release,
         NEW l \in Outside, Goto(t, l)
  PROVE  /\ lock' = 1 /\ lockHolder' = NoThread
         /\ HeldInside' /\ FreeOutside'
<1>1. \A u \in Thread : pc'[u] = IF u = t THEN l ELSE pc[u]
  BY GotoOne DEF IInv
<1>2. lock' = 1 /\ lockHolder' = NoThread
  BY DEF IInv, HeldInside, Release
<1>3. \A u \in Thread : pc'[u] \in Outside
  BY <1>1 DEF IInv, HeldInside
<1> QED
  BY <1>2, <1>3 DEF HeldInside, FreeOutside

LEMMA LeaveIInv == ASSUME IInv, NEW t \in Thread, Leave(t) PROVE IInv'
<1>1. DOMAIN pc' = Thread /\ \A u \in Thread : pc'[u] = IF u = t THEN "out" ELSE pc[u]
  BY GotoOne DEF IInv, Leave
<1>2. lock' = 1 /\ lockHolder' = NoThread /\ HeldInside' /\ FreeOutside'
  BY ReleaseOutside DEF Leave, Outside
<1>3. MonitorTypeOK'
  BY <1>1, <1>2 DEF IInv, MonitorTypeOK, Leave
<1>4. Queued'
  BY <1>1 DEF IInv, Queued, Leave
<1> QED
  BY <1>2, <1>3, <1>4 DEF IInv

\* Wait puts the thread on the queue that it was not on.
LEMMA WaitIInv ==
  ASSUME IInv, NEW t \in Thread, pc[t] \notin Outside, StartWait(t), UNCHANGED calls
  PROVE  IInv'
<1>1. DOMAIN pc' = Thread /\ \A u \in Thread : pc'[u] = IF u = t THEN "waiting" ELSE pc[u]
  BY GotoOne DEF IInv, StartWait
<1>2. lock' = 1 /\ lockHolder' = NoThread /\ HeldInside' /\ FreeOutside'
  BY ReleaseOutside DEF StartWait, Outside
<1>3. /\ waitQueue \in Seq(Thread) /\ waitQueue' = Append(waitQueue, t)
      /\ waiter' = [waiter EXCEPT ![t] = 0] /\ UNCHANGED calls
  BY DEF IInv, MonitorTypeOK, StartWait
<1>4. MonitorTypeOK'
  BY <1>1, <1>2, <1>3 DEF IInv, MonitorTypeOK
<1>5. /\ Len(waitQueue) \in Nat /\ Len(waitQueue') = Len(waitQueue) + 1
      /\ waitQueue'[Len(waitQueue) + 1] = t
      /\ \A i \in 1 .. Len(waitQueue) : waitQueue'[i] = waitQueue[i]
  BY <1>3
<1>6. waiter[t] = 0 /\ \A i \in 1 .. Len(waitQueue) : waitQueue[i] # t
  BY DEF IInv, Queued, Outside
<1>7. \A u \in Thread : waiter'[u] = waiter[u]
  BY <1>3, <1>6 DEF IInv, MonitorTypeOK
<1>8. Queued'
  <2>1. \A i, j \in 1 .. Len(waitQueue') : waitQueue'[i] = waitQueue'[j] => i = j
    BY <1>5, <1>6 DEF IInv, Queued
  <2>2. ASSUME NEW u \in Thread, pc'[u] # "waiting"
        PROVE  waiter'[u] = 0 /\ \A i \in 1 .. Len(waitQueue') : waitQueue'[i] # u
    BY <2>2, <1>1, <1>5, <1>7 DEF IInv, Queued
  <2>3. ASSUME NEW u \in Thread, pc'[u] = "waiting"
        PROVE  \/ waiter'[u] = 0 /\ \E i \in 1 .. Len(waitQueue') : waitQueue'[i] = u
               \/ waiter'[u] = 1 /\ \A i \in 1 .. Len(waitQueue') : waitQueue'[i] # u
    <3>1. CASE u = t
      BY <3>1, <1>5, <1>6, <1>7
    <3>2. CASE u # t
      BY <2>3, <3>2, <1>1, <1>5, <1>7 DEF IInv, Queued
    <3> QED
      BY <3>1, <3>2
  <2> QED
    BY <2>1, <2>2, <2>3 DEF Queued
<1> QED
  BY <1>2, <1>4, <1>8 DEF IInv

LEMMA WakeIInv == ASSUME IInv, NEW t \in Thread, Wake(t) PROVE IInv'
<1>1. DOMAIN pc' = Thread /\ \A u \in Thread : pc'[u] = IF u = t THEN "again" ELSE pc[u]
  BY GotoOne DEF IInv, Wake
<1>2. waiter[t] = 1 /\ waiter' = [waiter EXCEPT ![t] = 0] /\ pc[t] = "waiting"
  <2>1. waiter[t] \in 0 .. 1 /\ waiter[t] > 0
    BY DEF IInv, MonitorTypeOK, Wake
  <2>2. waiter[t] = 1 /\ waiter[t] - 1 = 0
    BY <2>1
  <2> QED
    BY <2>2 DEF Wake
<1>3. MonitorTypeOK'
  BY <1>1, <1>2 DEF IInv, MonitorTypeOK, Wake
<1>4. HeldInside' /\ FreeOutside'
  BY <1>1, <1>2 DEF IInv, HeldInside, FreeOutside, Outside, Wake
<1>5. Queued'
  BY <1>1, <1>2, <1>3 DEF IInv, Queued, MonitorTypeOK, Wake
<1> QED
  BY <1>3, <1>4, <1>5 DEF IInv

\* The first thread of the queue leaves it and has been signalled once.
LEMMA SignalQueued ==
  ASSUME IInv, Signal, \A u \in Thread : pc'[u] = "waiting" <=> pc[u] = "waiting"
  PROVE  Queued' /\ waitQueue' \in Seq(Thread) /\ waiter' \in [Thread -> 0 .. 1]
<1>1. CASE waitQueue = <<>>
  BY <1>1 DEF IInv, MonitorTypeOK, Queued, Signal
<1>2. CASE waitQueue # <<>>
  <2> DEFINE h == Head(waitQueue)
  <2>1. /\ Len(waitQueue) \in Nat \ {0} /\ h = waitQueue[1] /\ h \in Thread
        /\ waitQueue' \in Seq(Thread) /\ Len(waitQueue') = Len(waitQueue) - 1
        /\ \A i \in 1 .. Len(waitQueue) - 1 : waitQueue'[i] = waitQueue[i + 1]
    <3>1. waitQueue \in Seq(Thread) /\ waitQueue' = Tail(waitQueue)
      BY <1>2 DEF IInv, MonitorTypeOK, Signal
    <3> HIDE DEF h
    <3>2. /\ Len(waitQueue) \in Nat \ {0} /\ Head(waitQueue) = waitQueue[1]
          /\ waitQueue[1] \in Thread
          /\ Tail(waitQueue) \in Seq(Thread) /\ Len(Tail(waitQueue)) = Len(waitQueue) - 1
          /\ \A i \in 1 .. Len(waitQueue) - 1 : Tail(waitQueue)[i] = waitQueue[i + 1]
      BY <3>1, <1>2, TailOfQueue
    <3> QED
      BY <3>1, <3>2 DEF h
  <2>2. waiter' = [waiter EXCEPT ![h] = @ + 1]
    BY <1>2 DEF Signal
  <2>3. pc[h] = "waiting" /\ waiter[h] = 0
    BY <2>1 DEF IInv, Queued
  <2>4. \A u \in Thread : waiter'[u] = IF u = h THEN 1 ELSE waiter[u]
    BY <2>1, <2>2, <2>3 DEF IInv, MonitorTypeOK
  <2>5. waiter' \in [Thread -> 0 .. 1]
    BY <2>1, <2>2, <2>3 DEF IInv, MonitorTypeOK
  <2>6. \A i \in 1 .. Len(waitQueue') : i + 1 \in 1 .. Len(waitQueue) /\ i \in 1 .. Len(waitQueue) - 1
    BY <2>1
  <2>7. \A i, j \in 1 .. Len(waitQueue') : waitQueue'[i] = waitQueue'[j] => i = j
    <3> SUFFICES ASSUME NEW i \in 1 .. Len(waitQueue'), NEW j \in 1 .. Len(waitQueue'),
                        waitQueue'[i] = waitQueue'[j]
                 PROVE  i = j
      OBVIOUS
    <3>1. waitQueue[i + 1] = waitQueue[j + 1]
      BY <2>1, <2>6
    <3>2. i + 1 = j + 1
      BY <3>1, <2>6 DEF IInv, Queued
    <3> QED
      BY <3>2, <2>1
  <2>8. \A i \in 1 .. Len(waitQueue') : waitQueue'[i] # h
    <3> SUFFICES ASSUME NEW i \in 1 .. Len(waitQueue'), waitQueue'[i] = h PROVE FALSE
      OBVIOUS
    <3>1. waitQueue[i + 1] = waitQueue[1] /\ 1 \in 1 .. Len(waitQueue)
      BY <2>1, <2>6
    <3>2. i + 1 = 1
      BY <3>1, <2>6 DEF IInv, Queued
    <3> QED
      BY <3>2, <2>1
  <2>9. \A u \in Thread : (\A i \in 1 .. Len(waitQueue) : waitQueue[i] # u)
          => \A i \in 1 .. Len(waitQueue') : waitQueue'[i] # u
    BY <2>1, <2>6
  <2>10. ASSUME NEW u \in Thread, u # h, NEW i \in 1 .. Len(waitQueue), waitQueue[i] = u
         PROVE  \E k \in 1 .. Len(waitQueue') : waitQueue'[k] = u
    <3>1. i # 1
      BY <2>10, <2>1
    <3>2. i - 1 \in 1 .. Len(waitQueue') /\ i - 1 \in 1 .. Len(waitQueue) - 1 /\ (i - 1) + 1 = i
      BY <3>1, <2>1
    <3>3. waitQueue'[i - 1] = u
      BY <3>2, <2>1, <2>10
    <3> QED
      BY <3>2, <3>3
  <2>11. \A u \in Thread : pc'[u] # "waiting" =>
           waiter'[u] = 0 /\ \A i \in 1 .. Len(waitQueue') : waitQueue'[i] # u
    BY <2>3, <2>4, <2>9 DEF IInv, Queued
  <2>12. ASSUME NEW u \in Thread, pc'[u] = "waiting"
         PROVE  \/ waiter'[u] = 0 /\ \E i \in 1 .. Len(waitQueue') : waitQueue'[i] = u
                \/ waiter'[u] = 1 /\ \A i \in 1 .. Len(waitQueue') : waitQueue'[i] # u
    <3>1. CASE u = h
      BY <3>1, <2>4, <2>8
    <3>2. CASE u # h
      BY <3>2, <2>4, <2>9, <2>10, <2>12 DEF IInv, Queued
    <3> QED
      BY <3>1, <3>2
  <2> QED
    BY <2>1, <2>5, <2>7, <2>11, <2>12 DEF Queued
<1> QED
  BY <1>1, <1>2

\* Signal by a thread inside, which stays inside.
LEMMA SignalIInv ==
  ASSUME IInv, NEW t \in Thread, pc[t] \notin Outside, Signal,
         NEW l, l \notin Outside, Goto(t, l), lockHolder' = t, UNCHANGED <<lock, calls>>
  PROVE  IInv'
<1>1. \A u \in Thread : pc'[u] = IF u = t THEN l ELSE pc[u]
  BY GotoOne DEF IInv
<1>2. l # "waiting" /\ pc[t] # "waiting"
  BY DEF Outside
<1>3. Queued' /\ waitQueue' \in Seq(Thread) /\ waiter' \in [Thread -> 0 .. 1]
  BY <1>1, <1>2, SignalQueued
<1> QED
  BY <1>3, StaysInside

\* The steps of a thread inside the monitor that do not leave it.
LEMMA InsideIInv ==
  ASSUME IInv, NEW t \in Thread, Hold(t) \/ CallSignal(t) \/ Broadcast(t)
  PROVE  IInv'
<1>1. CASE Hold(t)
  <2>1. pc[t] \notin Outside /\ "in" \notin Outside
    BY <1>1 DEF Hold, Outside
  <2> QED
    BY <1>1, <2>1, MovesInside DEF Hold
<1>2. CASE CallSignal(t)
  <2>1. pc[t] \notin Outside /\ pc[t] # "locked" /\ "leave" \notin Outside
    BY <1>2 DEF CallSignal, Outside
  <2>2. lockHolder' = t
    BY <1>2, <2>1 DEF CallSignal, IInv, HeldInside
  <2> QED
    BY <1>2, <2>1, <2>2, SignalIInv DEF CallSignal
<1>3. CASE Broadcast(t)
  <2>1. /\ pc[t] \notin Outside /\ pc[t] # "locked"
        /\ "broadcasting" \notin Outside /\ "broadcasted" \notin Outside
    BY <1>3 DEF Broadcast, Outside
  <2>2. lockHolder' = t
    BY <1>3, <2>1 DEF Broadcast, IInv, HeldInside
  <2>3. CASE Signal /\ Goto(t, "broadcasting")
    BY <1>3, <2>1, <2>2, <2>3, SignalIInv DEF Broadcast
  <2>4. CASE Goto(t, "broadcasted") /\ UNCHANGED <<waitQueue, waiter>>
    BY <1>3, <2>1, <2>2, <2>4, MovesInside DEF Broadcast
  <2> QED
    BY <1>3, <2>3, <2>4 DEF Broadcast
<1> QED
  BY <1>1, <1>2, <1>3

\* The assertions of Lock and Condition are inductive with the place of every
\* waiting thread and with the lock being free when nobody is inside.
THEOREM MonitorInvariant == MSpec => []IInv
<1>1. IInv /\ [MNext]_mvars => IInv'
  <2> SUFFICES ASSUME IInv, [MNext]_mvars PROVE IInv'
    OBVIOUS
  <2>1. CASE UNCHANGED mvars
    BY <2>1 DEF mvars, IInv, MonitorTypeOK, HeldInside, Queued, FreeOutside
  <2>2. ASSUME NEW t \in Thread, Enter(t) PROVE IInv'
    <3>1. calls' \in [Thread -> 0 .. MaxCalls]
      BY <2>2 DEF Enter, IInv, MonitorTypeOK
    <3> QED
      BY <2>2, <3>1, AcquireIInv DEF Enter
  <2>3. ASSUME NEW t \in Thread, Reenter(t) PROVE IInv'
    <3>1. calls' \in [Thread -> 0 .. MaxCalls]
      BY <2>3 DEF Reenter, IInv, MonitorTypeOK
    <3> QED
      BY <2>3, <3>1, AcquireIInv DEF Reenter
  <2>4. ASSUME NEW t \in Thread, CallWait(t) PROVE IInv'
    BY <2>4, WaitIInv DEF CallWait, Outside
  <2> QED
    BY <2>1, <2>2, <2>3, <2>4, InsideIInv, WakeIInv, LeaveIInv DEF MNext, Step
<1> QED
  BY InitIInv, <1>1, PTL DEF MSpec

\* The assertions of Lock::Release, Condition::Wait and Condition::Signal hold
\* for any number of threads: whoever gets to one holds the lock, alone.
THEOREM LockHeldInside == MSpec => []HeldInside
BY MonitorInvariant, PTL DEF IInv

\* No signal is missed between Wait's release of the lock and its P().
THEOREM SignalNeverMissed == MSpec => []NoMissedSignal
<1>1. IInv => NoMissedSignal
  <2> SUFFICES ASSUME IInv, NEW t \in Thread
               PROVE  LET places == {i \in DOMAIN waitQueue : waitQueue[i] = t} IN
                      IF pc[t] # "waiting" THEN places = {} /\ waiter[t] = 0
                      ELSE \/ waiter[t] = 0 /\ \E i \in places : places = {i}
                           \/ waiter[t] = 1 /\ places = {}
    BY DEF NoMissedSignal
  <2>1. DOMAIN waitQueue = 1 .. Len(waitQueue)
    BY DEF IInv, MonitorTypeOK
  <2> QED
    BY <2>1 DEF IInv, Queued
<1> QED
  BY MonitorInvariant, <1>1, PTL

\* What Broadcast has emptied nobody fills again before it returns: to get on
\* the queue a thread must be inside the monitor.
BroadcastDone == \A t \in Thread : pc[t] = "broadcasted" => waitQueue = <<>>

LEMMA BroadcastDoneStep ==
  ASSUME IInv, BroadcastDone, [MNext]_mvars
  PROVE  BroadcastDone'
<1>1. CASE UNCHANGED mvars
  BY <1>1 DEF mvars, BroadcastDone
<1>2. ASSUME NEW t \in Thread, NEW l, l # "broadcasted", Goto(t, l),
             waitQueue' = waitQueue \/ (waitQueue # <<>> /\ waitQueue' = Tail(waitQueue))
      PROVE  BroadcastDone'
  <2>1. \A u \in Thread : pc'[u] = IF u = t THEN l ELSE pc[u]
    BY <1>2, GotoOne DEF IInv
  <2> QED
    BY <1>2, <2>1 DEF BroadcastDone
<1>3. ASSUME NEW t \in Thread, Enter(t) \/ Reenter(t) \/ Hold(t) \/ Wake(t) \/ Leave(t)
      PROVE  BroadcastDone'
  BY <1>2, <1>3 DEF Enter, Reenter, Acquire, Hold, Wake, Leave
<1>4. ASSUME NEW t \in Thread, CallSignal(t) PROVE BroadcastDone'
  BY <1>2, <1>4 DEF CallSignal, Signal
<1>5. ASSUME NEW t \in Thread, CallWait(t) PROVE BroadcastDone'
  <2>1. \A u \in Thread \ {t} : pc[u] \in Outside
    BY <1>5 DEF CallWait, IInv, HeldInside, Outside
  <2>2. \A u \in Thread : pc'[u] = IF u = t THEN "waiting" ELSE pc[u]
    BY <1>5, GotoOne DEF IInv, CallWait, StartWait
  <2> QED
    BY <2>1, <2>2 DEF BroadcastDone, Outside
<1>6. ASSUME NEW t \in Thread, Broadcast(t) PROVE BroadcastDone'
  <2>1. CASE Signal /\ Goto(t, "broadcasting")
    BY <1>2, <2>1 DEF Signal
  <2>2. CASE waitQueue' = <<>>
    BY <2>2 DEF BroadcastDone
  <2> QED
    BY <1>6, <2>1, <2>2 DEF Broadcast
<1> QED
  BY <1>1, <1>3, <1>4, <1>5, <1>6 DEF MNext, Step

\* All of MonitorSafe: the assertions of Lock and Condition hold in every order
\* of calls, and when Broadcast is over it has woken everybody that waited.
THEOREM MonitorIsSafe == MSpec => []MonitorSafe
<1>1. MInit => BroadcastDone
  BY DEF MInit, BroadcastDone
<1>2. IInv /\ BroadcastDone => MonitorSafe
  <2> SUFFICES ASSUME IInv, BroadcastDone PROVE BroadcastWakesAll
    BY DEF IInv, MonitorSafe
  <2> SUFFICES ASSUME NEW t \in Thread, pc[t] = "broadcasted", NEW u \in Thread,
                      pc[u] = "waiting"
               PROVE  waiter[u] = 1
    BY DEF BroadcastWakesAll
  <2>1. Len(waitQueue) = 0
    BY DEF BroadcastDone
  <2>2. \A i \in 1 .. Len(waitQueue) : FALSE
    BY <2>1
  <2> QED
    BY <2>2 DEF IInv, Queued
<1> QED
  BY MonitorInvariant, BroadcastDoneStep, <1>1, <1>2, PTL DEF MSpec

-----------------------------------------------------------------------------
(* SynchList *)

Item == Thread \X Nat

\* The list and its histories; only consumers wait.
ListTypeOK ==
  /\ list \in Seq(Item) /\ appended \in Seq(Item) /\ removed \in Seq(Thread \X Item)
  /\ \A t \in Thread : pc[t] \in {"waiting", "again"} => t \notin Producer

\* Fifo, by positions.
FifoPlaces ==
  /\ Len(appended) = Len(removed) + Len(list)
  /\ \A i \in 1 .. Len(removed) : appended[i] = removed[i][2]
  /\ \A i \in 1 .. Len(list) : appended[Len(removed) + i] = list[i]

\* The inductive invariant: a signal is sent for each item only if the queue of
\* the condition holds waiting consumers, which IInv says.
ListIInv == IInv /\ ListTypeOK /\ FifoPlaces /\ ItemsHaveTakers

LEMMA FiniteTakers == IsFiniteSet(OnTheirWay) /\ Cardinality(OnTheirWay) \in Nat
<1>1. IsFiniteSet(OnTheirWay)
  BY ListConstants, FS_Subset DEF OnTheirWay, ListConstants
<1> QED
  BY <1>1, FS_CardinalityType

LEMMA InitListIInv == Init => ListIInv
<1> SUFFICES ASSUME Init PROVE ListIInv
  OBVIOUS
<1>1. IInv
  BY InitIInv DEF Init
<1>2. ListTypeOK /\ FifoPlaces
  BY DEF Init, MInit, ListTypeOK, FifoPlaces
<1>3. ItemsHaveTakers
  BY DEF Init, MInit, ItemsHaveTakers
<1> QED
  BY <1>1, <1>2, <1>3 DEF ListIInv

\* Steps that leave the list alone and take nobody off the way to it.
LEMMA SameItems ==
  ASSUME ListIInv, IInv', UNCHANGED data, OnTheirWay \subseteq OnTheirWay',
         waitQueue' # <<>> => waitQueue # <<>>,
         \A t \in Thread : pc'[t] \in {"waiting", "again"} => pc[t] \in {"waiting", "again"}
  PROVE  ListIInv'
<1>1. ListTypeOK' /\ FifoPlaces'
  BY DEF ListIInv, ListTypeOK, FifoPlaces, data
<1>2. IsFiniteSet(OnTheirWay') /\ Cardinality(OnTheirWay') \in Nat
  <2>1. IsFiniteSet(OnTheirWay')
    BY ListConstants, FS_Subset DEF OnTheirWay, ListConstants
  <2> QED
    BY <2>1, FS_CardinalityType
<1>3. Cardinality(OnTheirWay) <= Cardinality(OnTheirWay')
  BY <1>2, FS_Subset
<1>4. Len(list) \in Nat /\ list' = list
  BY DEF ListIInv, ListTypeOK, data
<1>5. ItemsHaveTakers'
  BY <1>2, <1>3, <1>4, FiniteTakers DEF ListIInv, ItemsHaveTakers
<1> QED
  BY <1>1, <1>5 DEF ListIInv

\* Everything but Append and RemoveFront.
LEMMA QuietListIInv ==
  ASSUME ListIInv, NEW t \in Thread,
         Call(t) \/ Begin(t) \/ Resume(t) \/ WakeUp(t) \/ Apply(t) \/ LeaveList(t)
  PROVE  ListIInv'
<1> USE DEF ListIInv
<1>1. CASE Call(t)
  <2>1. \A u \in Thread : pc'[u] = IF u = t THEN "acquire" ELSE pc[u]
    BY <1>1, GotoOne DEF IInv, Call
  <2>2. IInv'
    <3>1. DOMAIN pc' = Thread /\ calls' \in [Thread -> 0 .. MaxCalls]
      BY <1>1, GotoOne DEF IInv, MonitorTypeOK, Call
    <3>2. MonitorTypeOK'
      BY <1>1, <3>1 DEF IInv, MonitorTypeOK, Call
    <3>3. HeldInside' /\ FreeOutside'
      BY <1>1, <2>1 DEF IInv, HeldInside, FreeOutside, Outside, Call
    <3>4. Queued'
      BY <1>1, <2>1 DEF IInv, Queued, Call
    <3> QED
      BY <3>2, <3>3, <3>4 DEF IInv
  <2>3. OnTheirWay \subseteq OnTheirWay'
    BY <1>1, <2>1 DEF OnTheirWay, Call
  <2> QED
    BY <1>1, <2>1, <2>2, <2>3, SameItems DEF Call
<1>2. CASE Begin(t) \/ Resume(t)
  <2>1. \A u \in Thread : pc'[u] = IF u = t THEN "locked" ELSE pc[u]
    BY <1>2, GotoOne DEF IInv, Begin, Resume, Acquire
  <2>2. IInv'
    BY <1>2, AcquireIInv DEF Begin, Resume, IInv, MonitorTypeOK
  <2>3. OnTheirWay \subseteq OnTheirWay'
    BY <1>2, <2>1 DEF OnTheirWay, Begin, Resume, Acquire
  <2> QED
    BY <1>2, <2>1, <2>2, <2>3, SameItems DEF Begin, Resume, Acquire
<1>3. CASE WakeUp(t)
  <2>1. \A u \in Thread : pc'[u] = IF u = t THEN "again" ELSE pc[u]
    BY <1>3, GotoOne DEF IInv, WakeUp, Wake
  <2>2. IInv'
    BY <1>3, WakeIInv DEF WakeUp
  <2>3. \A u \in Thread \ {t} : waiter'[u] = waiter[u]
    BY <1>3 DEF WakeUp, Wake, IInv, MonitorTypeOK
  <2>4. OnTheirWay \subseteq OnTheirWay'
    BY <2>1, <2>3 DEF OnTheirWay
  <2> QED
    BY <1>3, <2>1, <2>2, <2>4, SameItems DEF WakeUp, Wake
<1>4. CASE Apply(t)
  <2>1. \A u \in Thread : pc'[u] = IF u = t THEN "leave" ELSE pc[u]
    BY <1>4, GotoOne DEF IInv, Apply
  <2>2. IInv'
    BY <1>4, MovesInside DEF Apply, Outside
  <2>3. OnTheirWay \subseteq OnTheirWay'
    BY <1>4, <2>1 DEF OnTheirWay, Apply
  <2> QED
    BY <1>4, <2>1, <2>2, <2>3, SameItems DEF Apply
<1>5. CASE LeaveList(t)
  <2>1. \A u \in Thread : pc'[u] = IF u = t THEN "out" ELSE pc[u]
    BY <1>5, GotoOne DEF IInv, LeaveList, Leave
  <2>2. IInv'
    BY <1>5, LeaveIInv DEF LeaveList
  <2>3. OnTheirWay \subseteq OnTheirWay'
    BY <1>5, <2>1 DEF OnTheirWay, LeaveList, Leave
  <2> QED
    BY <1>5, <2>1, <2>2, <2>3, SameItems DEF LeaveList, Leave
<1> QED
  BY <1>1, <1>2, <1>3, <1>4, <1>5

\* Append puts an item at the end, and its signal sends one more consumer on its
\* way if any waits.
LEMMA AppendItemIInv == ASSUME ListIInv, NEW t \in Thread, AppendItem(t) PROVE ListIInv'
<1> DEFINE item == <<t, calls[t]>>
<1>1. /\ pc[t] = "locked" /\ t \in Producer
      /\ list' = Append(list, item) /\ appended' = Append(appended, item)
      /\ removed' = removed
  BY DEF AppendItem
<1>2. \A u \in Thread : pc'[u] = IF u = t THEN "leave" ELSE pc[u]
  BY GotoOne DEF ListIInv, IInv, AppendItem
<1>3. IInv'
  BY SignalIInv DEF ListIInv, AppendItem, Outside
<1>4. item \in Item
  BY DEF ListIInv, IInv, MonitorTypeOK, Item
<1> HIDE DEF item
<1>5. ListTypeOK'
  <2>1. Append(list, item) \in Seq(Item) /\ Append(appended, item) \in Seq(Item)
    BY <1>4 DEF ListIInv, ListTypeOK
  <2> QED
    BY <1>1, <1>2, <2>1 DEF ListIInv, ListTypeOK
<1>6. /\ Len(list) \in Nat /\ Len(appended) \in Nat /\ Len(removed) \in Nat
      /\ Len(list') = Len(list) + 1 /\ Len(appended') = Len(appended) + 1
      /\ list'[Len(list) + 1] = item /\ appended'[Len(appended) + 1] = item
      /\ \A i \in 1 .. Len(list) : list'[i] = list[i]
      /\ \A i \in 1 .. Len(appended) : appended'[i] = appended[i]
  BY <1>1, <1>4 DEF ListIInv, ListTypeOK
<1>7. FifoPlaces'
  <2>1. Len(appended') = Len(removed') + Len(list')
    BY <1>1, <1>6 DEF ListIInv, FifoPlaces
  <2>2. ASSUME NEW i \in 1 .. Len(removed') PROVE appended'[i] = removed'[i][2]
    <3>1. i \in 1 .. Len(removed) /\ i \in 1 .. Len(appended)
      BY <1>1, <1>6 DEF ListIInv, FifoPlaces
    <3> QED
      BY <3>1, <1>1, <1>6 DEF ListIInv, FifoPlaces
  <2>3. ASSUME NEW i \in 1 .. Len(list') PROVE appended'[Len(removed') + i] = list'[i]
    <3>1. CASE i = Len(list) + 1
      <4>1. Len(removed') + i = Len(appended) + 1
        BY <3>1, <1>1, <1>6 DEF ListIInv, FifoPlaces
      <4> QED
        BY <3>1, <4>1, <1>6
    <3>2. CASE i # Len(list) + 1
      <4>1. i \in 1 .. Len(list) /\ Len(removed) + i \in 1 .. Len(appended)
        BY <3>2, <1>6 DEF ListIInv, FifoPlaces
      <4> QED
        BY <4>1, <1>1, <1>6 DEF ListIInv, FifoPlaces
    <3> QED
      BY <3>1, <3>2
  <2> QED
    BY <2>1, <2>2, <2>3 DEF FifoPlaces
<1>8. ItemsHaveTakers'
  <2>1. CASE waitQueue = <<>>
    BY <2>1 DEF ItemsHaveTakers, AppendItem, Signal
  <2>2. CASE waitQueue # <<>>
    <3>1. PICK h \in Thread : h = Head(waitQueue) /\ 1 \in 1 .. Len(waitQueue) /\ h = waitQueue[1]
      BY <2>2, TailOfQueue DEF ListIInv, IInv, MonitorTypeOK
    <3>2. pc[h] = "waiting" /\ waiter[h] = 0
      BY <3>1 DEF ListIInv, IInv, Queued
    <3>3. \A u \in Thread : waiter'[u] = IF u = h THEN 1 ELSE waiter[u]
      BY <2>2, <3>1, <3>2 DEF AppendItem, Signal, ListIInv, IInv, MonitorTypeOK
    <3>4. h \notin Producer /\ h \notin OnTheirWay
      BY <3>2 DEF ListIInv, ListTypeOK, OnTheirWay
    <3>5. OnTheirWay' = OnTheirWay \cup {h}
      <4>1. ASSUME NEW u \in Thread \ Producer
            PROVE  u \in OnTheirWay' <=> u \in OnTheirWay \/ u = h
        <5>1. u # t
          BY <1>1
        <5> QED
          BY <5>1, <1>2, <3>2, <3>3 DEF OnTheirWay
      <4> QED
        BY <4>1, <3>4 DEF OnTheirWay
    <3>6. Cardinality(OnTheirWay') = Cardinality(OnTheirWay) + 1
      BY <3>4, <3>5, FiniteTakers, FS_AddElement
    <3>7. Cardinality(OnTheirWay) >= Len(list)
      BY <2>2 DEF ListIInv, ItemsHaveTakers
    <3> QED
      BY <3>6, <3>7, <1>6, FiniteTakers DEF ItemsHaveTakers
  <2> QED
    BY <2>1, <2>2
<1> QED
  BY <1>3, <1>5, <1>7, <1>8 DEF ListIInv

\* RemoveFront takes the first item, or waits when there is none.
LEMMA RemoveFrontIInv == ASSUME ListIInv, NEW t \in Thread, RemoveFront(t) PROVE ListIInv'
<1>0. pc[t] = "locked" /\ t \notin Producer /\ pc[t] \notin Outside
  BY DEF RemoveFront, Outside
<1>1. CASE list = <<>> /\ StartWait(t) /\ UNCHANGED data
  <2>1. \A u \in Thread : pc'[u] = IF u = t THEN "waiting" ELSE pc[u]
    BY <1>1, GotoOne DEF ListIInv, IInv, StartWait
  <2>2. IInv'
    BY <1>0, <1>1, WaitIInv DEF ListIInv, RemoveFront
  <2>3. ListTypeOK' /\ FifoPlaces'
    BY <1>0, <1>1, <2>1 DEF ListIInv, ListTypeOK, FifoPlaces, data
  <2>4. Len(list') = 0
    BY <1>1 DEF data
  <2>5. Cardinality(OnTheirWay') \in Nat
    BY ListConstants, FS_Subset, FS_CardinalityType DEF OnTheirWay, ListConstants
  <2>6. ItemsHaveTakers'
    BY <2>4, <2>5 DEF ItemsHaveTakers
  <2> QED
    BY <2>2, <2>3, <2>6 DEF ListIInv
<1>2. CASE /\ list # <<>> /\ list' = Tail(list)
           /\ removed' = Append(removed, <<t, Head(list)>>)
           /\ Goto(t, "out") /\ Release /\ UNCHANGED <<waitQueue, waiter, appended>>
  <2>1. DOMAIN pc' = Thread /\ \A u \in Thread : pc'[u] = IF u = t THEN "out" ELSE pc[u]
    BY <1>2, GotoOne DEF ListIInv, IInv
  <2>2. IInv'
    <3>1. lock' = 1 /\ lockHolder' = NoThread /\ HeldInside' /\ FreeOutside'
      BY <1>0, <1>2, ReleaseOutside DEF ListIInv, Outside
    <3>2. MonitorTypeOK'
      BY <1>2, <2>1, <3>1 DEF ListIInv, IInv, MonitorTypeOK, RemoveFront
    <3>3. Queued'
      BY <1>0, <1>2, <2>1 DEF ListIInv, IInv, Queued
    <3> QED
      BY <3>1, <3>2, <3>3 DEF IInv
  <2>3. /\ Len(list) \in Nat \ {0} /\ Head(list) = list[1] /\ list[1] \in Item
        /\ list' \in Seq(Item) /\ Len(list') = Len(list) - 1
        /\ \A i \in 1 .. Len(list) - 1 : list'[i] = list[i + 1]
        /\ appended' = appended /\ appended \in Seq(Item)
    BY <1>2 DEF ListIInv, ListTypeOK
  <2>4. PICK taken \in Thread \X Item :
          taken[2] = list[1] /\ removed' = Append(removed, taken)
    BY <1>2, <2>3
  <2>5. ListTypeOK'
    <3>1. removed' \in Seq(Thread \X Item)
      BY <2>4 DEF ListIInv, ListTypeOK
    <3> QED
      BY <2>1, <2>3, <3>1 DEF ListIInv, ListTypeOK
  <2>6. /\ Len(removed) \in Nat /\ Len(removed') = Len(removed) + 1
        /\ removed'[Len(removed) + 1] = taken
        /\ \A i \in 1 .. Len(removed) : removed'[i] = removed[i]
    BY <2>4 DEF ListIInv, ListTypeOK
  <2>7. FifoPlaces'
    <3>1. Len(appended') = Len(removed') + Len(list')
      <4>1. Len(appended) = Len(removed) + Len(list) /\ Len(appended') = Len(appended)
        BY <2>3 DEF ListIInv, FifoPlaces
      <4>2. Len(removed) + Len(list) = (Len(removed) + 1) + (Len(list) - 1)
        BY <2>3, <2>6
      <4> QED
        BY <4>1, <4>2, <2>3, <2>6
    <3>2. ASSUME NEW i \in 1 .. Len(removed') PROVE appended'[i] = removed'[i][2]
      <4>1. CASE i = Len(removed) + 1
        BY <4>1, <2>3, <2>4, <2>6 DEF ListIInv, FifoPlaces
      <4>2. CASE i # Len(removed) + 1
        <5>1. i \in 1 .. Len(removed)
          BY <4>2, <2>6
        <5> QED
          BY <5>1, <2>3, <2>6 DEF ListIInv, FifoPlaces
      <4> QED
        BY <4>1, <4>2
    <3>3. ASSUME NEW i \in 1 .. Len(list') PROVE appended'[Len(removed') + i] = list'[i]
      <4>1. /\ i \in 1 .. Len(list) - 1 /\ i + 1 \in 1 .. Len(list)
            /\ Len(removed') + i = Len(removed) + (i + 1)
        BY <2>3, <2>6
      <4>2. list'[i] = list[i + 1]
        BY <4>1, <2>3
      <4> QED
        BY <4>1, <4>2, <2>3 DEF ListIInv, FifoPlaces
    <3> QED
      BY <3>1, <3>2, <3>3 DEF FifoPlaces
  <2>8. t \in OnTheirWay /\ OnTheirWay' = OnTheirWay \ {t}
    <3>1. waiter'[t] = 0 /\ pc'[t] = "out"
      BY <1>0, <1>2, <2>1 DEF ListIInv, IInv, Queued
    <3> QED
      BY <1>0, <1>2, <2>1, <3>1 DEF OnTheirWay
  <2>9. Cardinality(OnTheirWay') = Cardinality(OnTheirWay) - 1
    BY <2>8, FiniteTakers, FS_RemoveElement
  <2>10. ItemsHaveTakers'
    BY <1>2, <2>3, <2>9, FiniteTakers DEF ListIInv, ItemsHaveTakers
  <2> QED
    BY <2>2, <2>5, <2>7, <2>10 DEF ListIInv
<1> QED
  BY <1>1, <1>2 DEF RemoveFront

\* A SynchList is a first-in-first-out queue for any number of producers and
\* consumers, and as long as consumers wait there is one on its way for every
\* item: none sleeps on for lack of a signal.
THEOREM ListIsQueue == Spec => []QueueInv
<1>1. ListIInv /\ [Next]_vars => ListIInv'
  <2> SUFFICES ASSUME ListIInv, [Next]_vars PROVE ListIInv'
    OBVIOUS
  <2>1. CASE UNCHANGED vars
    <3>1. IInv'
      BY <2>1 DEF vars, mvars, ListIInv, IInv, MonitorTypeOK, HeldInside, Queued, FreeOutside
    <3> QED
      BY <2>1, <3>1, SameItems DEF vars, mvars, data, OnTheirWay
  <2> QED
    BY <2>1, QuietListIInv, AppendItemIInv, RemoveFrontIInv DEF Next, LStep
<1>2. ListIInv => QueueInv
  <2> SUFFICES ASSUME ListIInv PROVE Fifo
    BY DEF ListIInv, QueueInv
  <2>1. Taken \in Seq(Item) /\ Len(Taken) = Len(removed)
        /\ \A i \in 1 .. Len(removed) : Taken[i] = removed[i][2]
    <3>1. /\ removed \in Seq(Thread \X Item) /\ Len(removed) \in Nat
          /\ DOMAIN removed = 1 .. Len(removed)
      BY DEF ListIInv, ListTypeOK
    <3>2. \A i \in 1 .. Len(removed) : removed[i][2] \in Item
      BY <3>1
    <3>3. Taken = [i \in 1 .. Len(removed) |-> removed[i][2]]
      BY <3>1 DEF Taken
    <3> QED
      BY <3>1, <3>2, <3>3
  <2>2. /\ list \in Seq(Item) /\ appended \in Seq(Item) /\ Len(removed) \in Nat
        /\ Len(list) \in Nat /\ Len(appended) \in Nat
    BY DEF ListIInv, ListTypeOK
  <2> DEFINE all == Taken \o list
  <2>3. /\ all \in Seq(Item) /\ Len(all) = Len(removed) + Len(list)
        /\ \A i \in 1 .. Len(removed) : all[i] = Taken[i]
        /\ \A i \in 1 .. Len(list) : all[Len(removed) + i] = list[i]
    <3>1. Taken \in Seq(Item) /\ list \in Seq(Item)
      BY <2>1, <2>2
    <3>2. all \in Seq(Item) /\ Len(all) = Len(Taken) + Len(list)
      BY <3>1
    <3>3. \A i \in 1 .. Len(Taken) : all[i] = Taken[i]
      BY <3>1
    <3>4. \A i \in 1 .. Len(list) : all[Len(Taken) + i] = list[i]
      BY <3>1
    <3> QED
      BY <2>1, <3>2, <3>3, <3>4
  <2> HIDE DEF all
  <2>4. ASSUME NEW i \in 1 .. Len(appended) PROVE all[i] = appended[i]
    <3>1. CASE i \in 1 .. Len(removed)
      BY <3>1, <2>1, <2>3 DEF ListIInv, FifoPlaces
    <3>2. CASE i \notin 1 .. Len(removed)
      <4>1. i - Len(removed) \in 1 .. Len(list) /\ Len(removed) + (i - Len(removed)) = i
        BY <3>2, <2>2 DEF ListIInv, FifoPlaces
      <4>2. PICK j \in 1 .. Len(list) : Len(removed) + j = i
        BY <4>1
      <4> QED
        BY <4>2, <2>3 DEF ListIInv, FifoPlaces
    <3> QED
      BY <3>1, <3>2
  <2>5. Len(all) = Len(appended)
    BY <2>3 DEF ListIInv, FifoPlaces
  <2>6. all = appended
    BY <2>2, <2>3, <2>4, <2>5
  <2> QED
    BY <2>6 DEF Fifo, all
<1> QED
  BY InitListIInv, <1>1, <1>2, PTL DEF Spec
=============================================================================
