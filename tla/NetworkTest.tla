---------------------------- MODULE NetworkTest -----------------------------
(***************************************************************************)
(* Kernel::NetworkTest (kernel.cc:231-275) on two machines: each greets    *)
(* the other, waits for the greeting, acknowledges it to the mailbox it    *)
(* names, and waits for the acknowledgement of its own.  The kernel of     *)
(* this build leaves the post office out (kernel.cc:119-123), so the test  *)
(* is modelled over PostOffice as it was written to run.                   *)
(***************************************************************************)
EXTENDS PostOffice

CONSTANT Tester \* the thread of each machine that runs the test

VARIABLE step   \* step[t]: how far the test is on the machine of t

tvars == <<vars, step>>

FarHost(t) == CHOOSE h \in Host : h # Home[t]

At(t, n) == step[t] = n /\ step' = [step EXCEPT ![t] = n + 1]

Greet(t) == At(t, 1) /\ CallSend(t, FarHost(t), 0, 1)

AwaitGreeting(t) == At(t, 2) /\ CallReceive(t, 0)

\* The acknowledgement goes to the mailbox the greeting came to.
AcknowledgeBoxZero(t) == At(t, 3) /\ CallSend(t, mail[t].from, mail[t].box, 1)

Acknowledge(t) == At(t, 3) /\ CallSend(t, mail[t].from, mail[t].reply, 1)

AwaitAcknowledgement(t) == At(t, 4) /\ CallReceive(t, 1)

Test(t) == Greet(t) \/ AwaitGreeting(t) \/ Acknowledge(t) \/ AwaitAcknowledgement(t)

TestInit == Init /\ step = [t \in Tester |-> 1]

TestNext == \/ /\ \/ \E h \in Host : Boot(h) \/ Halt(h) \/ Machine(h)
                  \/ \E t \in Thread : ThreadStep(t)
               /\ UNCHANGED step
            \/ \E t \in Tester : Test(t)

\* The fairness of PostOffice; both machines are started, and the test goes on
\* when its last call has returned.
PostFairness == /\ \A h \in Host : /\ WF_tvars(PostalDelivery(h) /\ UNCHANGED step)
                                   /\ WF_tvars(NetworkCallBack(h) /\ UNCHANGED step)
                                   /\ WF_tvars(SentCallBack(h) /\ UNCHANGED step)
                                   /\ WF_tvars(SendToSocket(h) /\ UNCHANGED step)
                /\ \A t \in Thread : WF_tvars(ThreadStep(t) /\ UNCHANGED step)

Testing == \E t \in Tester : step[t] > 0

TestFairness == /\ PostFairness
                /\ \A h \in Host : WF_tvars(Testing /\ Boot(h) /\ UNCHANGED step)
                /\ \A t \in Tester : WF_tvars(Test(t))

TestSpec == TestInit /\ [][TestNext]_tvars /\ TestFairness

Finished(t) == step[t] = 5 /\ pc[t] = "idle"

\* The mail taken from box 1 is the acknowledgement of this machine's own
\* greeting: sent by the other machine after that machine had received it.
Acknowledged(t) ==
  /\ mail[t].from = FarHost(t) /\ mail[t].n = 2
  /\ \E i \in 1..Len(received[FarHost(t)]) :
       received[FarHost(t)][i].from = Home[t] /\ received[FarHost(t)][i].n = 1

\* The test ends on both machines, with the acknowledgement of the other,
\* unless a packet is dropped or a machine goes away: a machine that comes up
\* late only delays it, however the four messages overtake one another
\* (kernel.cc:231-275).
TestCompletes == (\A t \in Tester : step[t] = 1) ~>
  (\/ \A t \in Tester : Finished(t) /\ Acknowledged(t)
   \/ lost \union unsent # {}
   \/ \E h \in Host : power[h] = "gone")
=============================================================================
