----------------------------- MODULE SynchList ------------------------------
(***************************************************************************)
(* SynchList (src/threads/synchlist.cc): a list behind a lock, with a      *)
(* condition that RemoveFront waits on while the list is empty.            *)
(***************************************************************************)
EXTENDS Monitor, FiniteSets

CONSTANT Producer   \* the threads that append; the others remove

ASSUME ListConstants == IsFiniteSet(Thread)

VARIABLES
  list,       \* the items, each <<the thread that appended it, its number>>
  appended,   \* history: the items in the order of Append
  removed     \* history: <<the thread that removed it, item>>, in order
vars == <<mvars, list, appended, removed>>
data == <<list, appended, removed>>

Init == MInit /\ list = <<>> /\ appended = <<>> /\ removed = <<>>

\* Any operation starts with lock->Acquire().
Call(t) ==
  /\ pc[t] = "out" /\ calls[t] < MaxCalls
  /\ calls' = [calls EXCEPT ![t] = @ + 1] /\ Goto(t, "acquire")
  /\ UNCHANGED <<lock, lockHolder, waitQueue, waiter, data>>
Begin(t) == Acquire(t, "acquire", "locked") /\ UNCHANGED <<calls, data>>
Resume(t) == Acquire(t, "again", "locked") /\ UNCHANGED <<calls, data>>
WakeUp(t) == Wake(t) /\ UNCHANGED data

\* Append up to the V() of its signal.
AppendItem(t) ==
  /\ pc[t] = "locked" /\ t \in Producer /\ Goto(t, "leave")
  /\ lockHolder' = t
  /\ LET item == <<t, calls[t]>>
     IN  list' = Append(list, item) /\ appended' = Append(appended, item)
  /\ Signal
  /\ UNCHANGED <<lock, calls, removed>>

TakeOnce(t) ==
  /\ pc[t] = "locked" /\ t \notin Producer
  /\ \/ /\ list = <<>> /\ StartWait(t) /\ UNCHANGED data
     \/ /\ Goto(t, "out") /\ Release /\ UNCHANGED <<waitQueue, waiter, appended>>
        /\ list' = (IF list = <<>> THEN <<>> ELSE Tail(list))
        /\ removed' = Append(removed, <<t, IF list = <<>> THEN <<t, 0>> ELSE Head(list)>>)
  /\ UNCHANGED calls

\* RemoveFront with the lock: the while loop, and what follows it up to the
\* V() of lock->Release().
RemoveFront(t) ==
  /\ pc[t] = "locked" /\ t \notin Producer
  /\ \/ list = <<>> /\ StartWait(t) /\ UNCHANGED data
     \/ /\ list # <<>> /\ list' = Tail(list)
        /\ removed' = Append(removed, <<t, Head(list)>>)
        /\ Goto(t, "out") /\ Release /\ UNCHANGED <<waitQueue, waiter, appended>>
  /\ UNCHANGED calls

\* Apply visits the items and changes nothing; it too holds the lock.
Apply(t) ==
  /\ pc[t] = "locked" /\ t \in Producer /\ Goto(t, "leave")
  /\ lockHolder' = t /\ UNCHANGED <<lock, waitQueue, waiter, calls, data>>

LeaveList(t) == pc[t] = "leave" /\ Leave(t) /\ UNCHANGED data

LStep(t) == \/ Begin(t) \/ Resume(t) \/ WakeUp(t) \/ AppendItem(t) \/ RemoveFront(t)
            \/ Apply(t) \/ LeaveList(t)

Next == \E t \in Thread : Call(t) \/ LStep(t)

Spec == Init /\ [][Next]_vars /\ \A t \in Thread : WF_vars(LStep(t))

-----------------------------------------------------------------------------

Taken == [i \in DOMAIN removed |-> removed[i][2]]

\* Items come out in the order in which they went in, none lost and none twice,
\* whoever takes them; nothing is taken from an empty list, which List's
\* ASSERT(!IsEmpty()) forbids.
Fifo == Taken \o list = appended

\* Threads that have been signalled, or are back from Wait, and have not yet
\* taken an item or gone back to waiting.
OnTheirWay == {t \in Thread \ Producer : waiter[t] > 0 \/ pc[t] \in {"again", "locked"}}

\* No thread sleeps on for lack of a signal: while some are on the condition's
\* queue, for each item in the list another thread is on its way to take it,
\* even if those that come later take items before those that were signalled.
ItemsHaveTakers == waitQueue # <<>> => Cardinality(OnTheirWay) >= Len(list)

\* RemoveFront returns unless from some time on the list is empty.
RemovesReturn ==
  \A t \in Thread \ Producer : (pc[t] # "out" /\ list # <<>>) ~> (pc[t] = "out" \/ list = <<>>)

\* SynchList is a queue, and wakes a consumer for each item (synchlist.cc).
QueueInv == Fifo /\ ItemsHaveTakers

\* Threads come out of Condition::Wait when they are signalled and out of
\* SynchList::RemoveFront when there are items.
WaitersReturn == SignalledReturns /\ RemovesReturn
=============================================================================
