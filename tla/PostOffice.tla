----------------------------- MODULE PostOffice -----------------------------
(***************************************************************************)
(* The post office of network/post.cc over the network device of           *)
(* machine/network.cc and the sockets of lib/sysdep.cc: several Nachos     *)
(* machines, each a UNIX process with a socket, a postal worker, mailboxes *)
(* and threads that send and receive mail.                                 *)
(*                                                                         *)
(* A packet carries its mail: source, destination, mailboxes and a number  *)
(* that tells the packets of a machine apart; the bytes are left out.      *)
(* Mailboxes are SynchLists: Append and RemoveFront are the atomic         *)
(* operations that SynchList shows them to be.  A machine that is inside   *)
(* SendToSocket does nothing else: the UNIX process sleeps.                *)
(***************************************************************************)
EXTENDS Naturals, Sequences

CONSTANTS Host,          \* machine identifiers
          Box,           \* mailbox numbers of a post office
          Thread,        \* the threads that use the post offices
          Sender,        \* those that send; the others receive
          Home,          \* Home[t]: the machine t runs on
          Reliability,   \* chance in 100 that a packet is sent, clamped
          Retries,       \* attempts of SendToSocket
          MaxCalls,      \* bound: calls of a thread
          Nothing,       \* no packet
          Waiting, Awake \* states of a postal worker without a packet

ASSUME PostAssumption == /\ Home \in [Thread -> Host]
                         /\ Sender \subseteq Thread
                         /\ Reliability \in Nat
                         /\ Retries \in Nat \ {0}
                         /\ MaxCalls \in Nat
                         /\ Waiting # Awake /\ Nothing \notin Thread

VARIABLES
  power,      \* power[h]: "off", "on" (its socket is bound) or "gone"
  wire,       \* wire[h]: packets in the socket of h, oldest first
  inbox,      \* inbox[h]: the packet NetworkInput buffers (inHdr, inbox)
  available,  \* available[h]: value of the semaphore messageAvailable
  worker,     \* worker[h]: Waiting, Awake or the packet being delivered
  boxes,      \* boxes[h][b]: the mail in box b
  holder,     \* holder[h]: the thread holding sendLock, or Nothing
  sending,    \* sending[h]: pending NetworkSendInt interrupts
  sent,       \* sent[h]: value of the semaphore messageSent
  retry,      \* retry[h]: the packet and the attempts left in SendToSocket
  pc,         \* pc[t]: where the thread is
  arg,        \* arg[t]: the packet to send, or the box to receive from
  mail,       \* mail[t]: the mail last received
  calls,      \* calls[t]: calls made
  numbered,   \* numbered[h]: packets given to NetworkOutput::Send
  lost,       \* packets dropped by the draw of NetworkOutput::Send
  unsent,     \* packets dropped after the last attempt of SendToSocket
  received    \* received[h]: the mail handed to the threads of h, in order

device == <<inbox, available, worker>>
output == <<holder, sending, sent, retry, numbered, lost, unsent>>
thread == <<pc, arg, mail, calls, received>>
vars == <<power, wire, boxes, device, output, thread>>

Packet == [from : Host, to : Host, box : Box, reply : Box, n : Nat]
Attempt == [pkt : Packet, left : 1 .. Retries]
ASSUME NoPacket == /\ {Nothing, Waiting, Awake} \cap Packet = {}
                   /\ Nothing \notin Attempt

\* NetworkOutput clamps the reliability; a draw of 0..99 that is not below
\* it loses the packet.
chanceToWork == IF Reliability > 100 THEN 100 ELSE Reliability
Lossy == \E draw \in 0..99 : draw >= chanceToWork
Works == \E draw \in 0..99 : draw < chanceToWork

\* The process of h runs: started, not stopped, not asleep in SendToSocket.
Running(h) == power[h] = "on" /\ retry[h] = Nothing

(***************************************************************************)
(* Machines come up, binding a socket under their name, and go away with   *)
(* what is in it.                                                          *)
(***************************************************************************)
Boot(h) == /\ power[h] = "off"
           /\ power' = [power EXCEPT ![h] = "on"]
           /\ UNCHANGED <<wire, boxes, device, output, thread>>

Halt(h) == /\ power[h] = "on"
           /\ power' = [power EXCEPT ![h] = "gone"]
           /\ UNCHANGED <<wire, boxes, device, output, thread>>

(***************************************************************************)
(* PostOfficeOutput::Send.                                                 *)
(***************************************************************************)
\* The headers are filled in; the lock is not yet asked for.
CallSend(t, to, b, r) ==
  /\ pc[t] = "idle" /\ Running(Home[t]) /\ calls[t] < MaxCalls
  /\ pc' = [pc EXCEPT ![t] = "acquire"]
  /\ arg' = [arg EXCEPT ![t] = [from |-> Home[t], to |-> to, box |-> b, reply |-> r, n |-> 0]]
  /\ calls' = [calls EXCEPT ![t] = @ + 1]
  /\ UNCHANGED <<power, wire, boxes, device, output, mail, received>>

\* Two messages are given to the network at a time.
AcquireUnlocked(t) ==
  /\ pc[t] = "acquire" /\ Running(Home[t])
  /\ holder' = [holder EXCEPT ![Home[t]] = t]
  /\ pc' = [pc EXCEPT ![t] = "network"]
  /\ UNCHANGED <<power, wire, boxes, device, sending, sent, retry, numbered, lost, unsent,
                 arg, mail, calls, received>>

Acquire(t) ==
  /\ pc[t] = "acquire" /\ Running(Home[t])
  /\ holder[Home[t]] = Nothing
  /\ holder' = [holder EXCEPT ![Home[t]] = t]
  /\ pc' = [pc EXCEPT ![t] = "network"]
  /\ UNCHANGED <<power, wire, boxes, device, sending, sent, retry, numbered, lost, unsent,
                 arg, mail, calls, received>>

\* The interrupt for a packet that is dropped is never scheduled.
NetworkSendSilent(t) ==
  LET h == Home[t]
      pkt == [arg[t] EXCEPT !.n = numbered[h] + 1]
  IN  /\ pc[t] = "network" /\ Running(h)
      /\ numbered' = [numbered EXCEPT ![h] = @ + 1]
      /\ \/ /\ Lossy
            /\ lost' = lost \union {pkt}
            /\ UNCHANGED <<retry, sending>>
         \/ /\ Works
            /\ sending' = [sending EXCEPT ![h] = @ + 1]
            /\ retry' = [retry EXCEPT ![h] = [pkt |-> pkt, left |-> Retries]]
            /\ UNCHANGED lost
      /\ pc' = [pc EXCEPT ![t] = "sent"]
      /\ UNCHANGED <<power, wire, boxes, device, holder, sent, unsent, arg, mail, calls, received>>

\* NetworkOutput::Send: the interrupt is scheduled whether or not the packet
\* is then lost.
NetworkSend(t) ==
  LET h == Home[t]
      pkt == [arg[t] EXCEPT !.n = numbered[h] + 1]
  IN  /\ pc[t] = "network" /\ Running(h)
      /\ numbered' = [numbered EXCEPT ![h] = @ + 1]
      /\ sending' = [sending EXCEPT ![h] = @ + 1]
      /\ \/ /\ Lossy
            /\ lost' = lost \union {pkt}
            /\ UNCHANGED retry
         \/ /\ Works
            /\ retry' = [retry EXCEPT ![h] = [pkt |-> pkt, left |-> Retries]]
            /\ UNCHANGED lost
      /\ pc' = [pc EXCEPT ![t] = "sent"]
      /\ UNCHANGED <<power, wire, boxes, device, holder, sent, unsent, arg, mail, calls, received>>

\* SendToSocket: the packet goes into the socket of its destination, if there
\* is one; otherwise try again a second later, and after the last attempt
\* drop it.
SendToSocket(h) ==
  LET pkt == retry[h].pkt
  IN  /\ power[h] = "on" /\ retry[h] # Nothing
      /\ CASE power[pkt.to] = "on" ->
                /\ wire' = [wire EXCEPT ![pkt.to] = Append(@, pkt)]
                /\ retry' = [retry EXCEPT ![h] = Nothing]
                /\ UNCHANGED unsent
           [] power[pkt.to] # "on" /\ retry[h].left > 1 ->
                /\ retry' = [retry EXCEPT ![h].left = @ - 1]
                /\ UNCHANGED <<wire, unsent>>
           [] OTHER ->
                /\ unsent' = unsent \union {pkt}
                /\ retry' = [retry EXCEPT ![h] = Nothing]
                /\ UNCHANGED wire
      /\ UNCHANGED <<power, boxes, device, holder, sending, sent, numbered, lost, thread>>

\* PostOfficeOutput::CallBack, called by NetworkOutput::CallBack.
MessageSent(h) == sent' = [sent EXCEPT ![h] = @ + 1]

SentCallBack(h) ==
  /\ Running(h) /\ sending[h] > 0
  /\ sending' = [sending EXCEPT ![h] = @ - 1]
  /\ MessageSent(h)
  /\ UNCHANGED <<power, wire, boxes, device, holder, retry, numbered, lost, unsent, thread>>

WaitSent(t) ==
  LET h == Home[t]
  IN  /\ pc[t] = "sent" /\ Running(h)
      /\ sent[h] > 0
      /\ sent' = [sent EXCEPT ![h] = @ - 1]
      /\ pc' = [pc EXCEPT ![t] = "release"]
      /\ UNCHANGED <<power, wire, boxes, device, holder, sending, retry, numbered, lost, unsent,
                     arg, mail, calls, received>>

Release(t) ==
  /\ pc[t] = "release" /\ Running(Home[t])
  /\ holder' = [holder EXCEPT ![Home[t]] = Nothing]
  /\ pc' = [pc EXCEPT ![t] = "idle"]
  /\ UNCHANGED <<power, wire, boxes, device, sending, sent, retry, numbered, lost, unsent,
                 arg, mail, calls, received>>

(***************************************************************************)
(* Arrival: the device polls its socket, the postal worker sorts the mail. *)
(***************************************************************************)
\* PostOfficeInput::CallBack, called by NetworkInput::CallBack.
MessageAvailable(h) == available' = [available EXCEPT ![h] = @ + 1]

TakeFromSocket(h) ==
  /\ wire[h] # <<>>
  /\ inbox' = [inbox EXCEPT ![h] = Head(wire[h])]
  /\ wire' = [wire EXCEPT ![h] = Tail(@)]
  /\ MessageAvailable(h)
  /\ UNCHANGED <<power, boxes, worker, output, thread>>

\* The packet still in the buffer is overwritten.
NetworkCallBackEager(h) == Running(h) /\ TakeFromSocket(h)

\* NetworkInput::CallBack and PostOfficeInput::CallBack; a poll that finds
\* nothing, or finds the buffer full, does nothing but poll again later.
NetworkCallBack(h) == Running(h) /\ inbox[h] = Nothing /\ TakeFromSocket(h)

\* PostalDelivery: wait for a message, ...
WorkerWakes(h) ==
  /\ Running(h) /\ worker[h] = Waiting
  /\ available[h] > 0
  /\ available' = [available EXCEPT ![h] = @ - 1]
  /\ worker' = [worker EXCEPT ![h] = Awake]
  /\ UNCHANGED <<power, wire, boxes, inbox, output, thread>>

\* ... take it from the device (NetworkInput::Receive), ...
NetworkReceive(h) ==
  /\ Running(h) /\ worker[h] = Awake
  /\ worker' = [worker EXCEPT ![h] = inbox[h]]
  /\ inbox' = [inbox EXCEPT ![h] = Nothing]
  /\ UNCHANGED <<power, wire, boxes, available, output, thread>>

\* ... and put it into its mailbox (MailBox::Put).
Put(h) ==
  /\ Running(h) /\ worker[h] \notin {Waiting, Awake}
  /\ boxes' = [boxes EXCEPT ![h][worker[h].box] = Append(@, worker[h])]
  /\ worker' = [worker EXCEPT ![h] = Waiting]
  /\ UNCHANGED <<power, wire, inbox, available, output, thread>>

(***************************************************************************)
(* PostOfficeInput::Receive.                                               *)
(***************************************************************************)
CallReceive(t, b) ==
  /\ pc[t] = "idle" /\ Running(Home[t]) /\ calls[t] < MaxCalls
  /\ pc' = [pc EXCEPT ![t] = "receive"]
  /\ arg' = [arg EXCEPT ![t] = b]
  /\ calls' = [calls EXCEPT ![t] = @ + 1]
  /\ UNCHANGED <<power, wire, boxes, device, output, mail, received>>

\* MailBox::Get
Get(t) ==
  LET h == Home[t]
      box == boxes[h][arg[t]]
  IN  /\ pc[t] = "receive" /\ Running(h)
      /\ box # <<>>
      /\ boxes' = [boxes EXCEPT ![h][arg[t]] = Tail(@)]
      /\ mail' = [mail EXCEPT ![t] = Head(box)]
      /\ received' = [received EXCEPT ![h] = Append(@, Head(box))]
      /\ pc' = [pc EXCEPT ![t] = "idle"]
      /\ UNCHANGED <<power, wire, device, output, arg, calls>>

PostOfficeInput == /\ inbox = [h \in Host |-> Nothing]
                   /\ available = [h \in Host |-> 0]
                   /\ worker = [h \in Host |-> Waiting]
                   /\ boxes = [h \in Host |-> [b \in Box |-> <<>>]]

PostOfficeOutput == /\ holder = [h \in Host |-> Nothing]
                    /\ sending = [h \in Host |-> 0]
                    /\ sent = [h \in Host |-> 0]

Init == /\ power = [h \in Host |-> "off"]
        /\ wire = [h \in Host |-> <<>>]
        /\ PostOfficeInput /\ PostOfficeOutput
        /\ retry = [h \in Host |-> Nothing]
        /\ pc = [t \in Thread |-> "idle"]
        /\ arg = [t \in Thread |-> Nothing]
        /\ mail = [t \in Thread |-> Nothing]
        /\ calls = [t \in Thread |-> 0]
        /\ numbered = [h \in Host |-> 0]
        /\ lost = {}
        /\ unsent = {}
        /\ received = [h \in Host |-> <<>>]

ThreadStep(t) == \/ Acquire(t)
                 \/ NetworkSend(t)
                 \/ WaitSent(t)
                 \/ Release(t)
                 \/ Get(t)

PostalDelivery(h) == WorkerWakes(h) \/ NetworkReceive(h) \/ Put(h)

Machine(h) == \/ PostalDelivery(h)
              \/ NetworkCallBack(h)
              \/ SentCallBack(h)
              \/ SendToSocket(h)

Next == \/ \E h \in Host : Boot(h) \/ Halt(h) \/ Machine(h)
        \/ \E t \in Thread : ThreadStep(t)
        \/ \E t \in Sender, to \in Host, b \in Box : CallSend(t, to, b, b)
        \/ \E t \in Thread \ Sender, b \in Box : CallReceive(t, b)

(***************************************************************************)
(* Simulated time goes on while the process runs, so the interrupts come   *)
(* due; ready threads get the processor; SendToSocket ends.  Nobody is     *)
(* obliged to call, to boot or to halt.                                    *)
(***************************************************************************)
Fairness == /\ \A t \in Thread : WF_vars(ThreadStep(t))
            /\ \A h \in Host : /\ WF_vars(PostalDelivery(h))
                               /\ WF_vars(NetworkCallBack(h))
                               /\ WF_vars(SentCallBack(h))
                               /\ WF_vars(SendToSocket(h))

Spec == Init /\ [][Next]_vars /\ Fairness

(***************************************************************************)
(* Properties.                                                             *)
(***************************************************************************)
\* Every variable holds what its comment says.
TypeOK ==
  /\ power \in [Host -> {"off", "on", "gone"}]
  /\ wire \in [Host -> Seq(Packet)]
  /\ inbox \in [Host -> Packet \union {Nothing}]
  /\ available \in [Host -> {0, 1}]
  /\ worker \in [Host -> Packet \union {Waiting, Awake}]
  /\ boxes \in [Host -> [Box -> Seq(Packet)]]
  /\ holder \in [Host -> Thread \union {Nothing}]
  /\ sending \in [Host -> {0, 1}] /\ sent \in [Host -> {0, 1}]
  /\ retry \in [Host -> Attempt \union {Nothing}]
  /\ pc \in [Thread -> {"idle", "acquire", "network", "sent", "release", "receive"}]
  /\ mail \in [Thread -> Packet \union {Nothing}] /\ calls \in [Thread -> 0 .. MaxCalls]
  /\ numbered \in [Host -> Nat]
  /\ lost \subseteq Packet /\ unsent \subseteq Packet
  /\ received \in [Host -> Seq(Packet)]

One(condition) == IF condition THEN 1 ELSE 0

\* The buffer of the device and the semaphore messageAvailable agree
\* (network.cc:66, post.cc:200-201): the worker woken finds its packet, and
\* no packet is buffered that nobody was woken for.
BufferAnnounced == \A h \in Host :
  available[h] + One(worker[h] = Awake) = One(inbox[h] # Nothing)

\* One message at a time is with the network, whoever sends (post.cc:320):
\* an interrupt is pending, or a wake-up not yet consumed, exactly when a
\* thread waits in Send, and that thread holds the lock, so no thread takes
\* another's.
OneInFlight == \A h \in Host :
  LET waiting == {t \in Thread : Home[t] = h /\ pc[t] = "sent"}
  IN  /\ sending[h] + sent[h] = One(waiting # {})
      /\ \A t \in waiting : holder[h] = t

Carried(x) == IF x \in {Nothing, Waiting, Awake} THEN <<>> ELSE <<x>>

\* The mail for box b of h, from the oldest received to the newest sent, with
\* mail for the other boxes among it.
Stream(h, b) ==
  received[h] \o boxes[h][b] \o Carried(worker[h]) \o Carried(inbox[h]) \o wire[h]

\* Packets arrive "in order but unreliably" (network.h:47): the mail of one
\* machine in one box is received in the order it was sent, never twice.
InOrder == \A h \in Host, b \in Box :
  LET all == Stream(h, b) IN
  \A i, j \in 1..Len(all) :
    i < j /\ all[i].box = b /\ all[j].box = b /\ all[i].from = all[j].from =>
      all[i].n < all[j].n

\* A packet that was not dropped is in one of the buffers on its way or was
\* received: none is overwritten in the device or left behind by the worker.
NoneForgotten == \A m \in Host : \A n \in 1..numbered[m] :
  \/ \E pkt \in lost \union unsent : pkt.from = m /\ pkt.n = n
  \/ retry[m] # Nothing /\ retry[m].pkt.n = n
  \/ \E h \in Host, b \in Box :
       LET all == Stream(h, b) IN
       \E i \in 1..Len(all) : all[i].from = m /\ all[i].n = n /\ all[i].box = b

\* Send returns although the packet may be lost (post.cc:336 "Called even if
\* the previous packet was dropped") and others wait for the same lock.
SendReturns == \A t \in Thread :
  pc[t] = "acquire" ~> pc[t] = "idle" \/ power[Home[t]] = "gone"

\* What has reached the socket of a machine reaches a mailbox, while the
\* machine runs.
MailArrives == \A h \in Host :
  wire[h] # <<>> ~> \/ wire[h] = <<>> /\ inbox[h] = Nothing /\ worker[h] = Waiting
                   \/ power[h] = "gone"

\* The device's buffer and interrupts are for the thread that waits for them,
\* one at a time (network.cc, post.cc).
PostInv == TypeOK /\ BufferAnnounced /\ OneInFlight

\* What is sent and not dropped is kept, once and in order (network.cc:61-80,
\* post.cc:200-216).
MailKept == InOrder /\ NoneForgotten

\* Mail keeps moving: Send returns, and what arrives is delivered.
MailMoves == SendReturns /\ MailArrives
=============================================================================
