----------------------------- MODULE Semaphore -----------------------------
(***************************************************************************)
(* What the comments of synch.h promise of a semaphore, without queues,    *)
(* sleeping or scheduling: P() waits until the value is positive and takes *)
(* one unit, V() adds one, and each of the two is atomic.                  *)
(***************************************************************************)
EXTENDS Naturals

CONSTANTS Thread, Sem, NoSem, InitialValue

VARIABLES
  value,   \* the value of each semaphore
  wants    \* the semaphore each thread has called P() of, or NoSem

Init == value = InitialValue /\ wants = [t \in Thread |-> NoSem]

\* Thread t calls P() of s.
Wait(t, s) == wants' = [wants EXCEPT ![t] = s] /\ UNCHANGED value

P(t, s) ==
  /\ value[s] > 0
  /\ value' = [value EXCEPT ![s] = @ - 1]
  /\ wants' = [wants EXCEPT ![t] = NoSem]

V(s) == value' = [value EXCEPT ![s] = @ + 1] /\ UNCHANGED wants

Next == \/ \E s \in Sem : V(s)
        \/ \E t \in Thread : IF wants[t] = NoSem THEN \E s \in Sem : Wait(t, s) ELSE P(t, wants[t])

Spec == Init /\ [][Next]_<<value, wants>>
=============================================================================
