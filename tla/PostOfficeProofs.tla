-------------------------- MODULE PostOfficeProofs --------------------------
(***************************************************************************)
(* Proofs about PostOffice, for any number of machines, mailboxes and      *)
(* threads, any reliability and any number of retries.                     *)
(***************************************************************************)
EXTENDS PostOffice, Functions, TLAPS

\* Leaves that name no prover: Zenon for at most 3 seconds, then SMT.
USE ZenonT(3), SMTT(30)

(* The inductive invariant *)

InSend(t) == pc[t] \in {"network", "sent", "release"}

\* Threads in Send: their headers are filled in, and exactly the one that has
\* sendLock is between acquire and release.  An interrupt is pending, or its
\* wake-up is, while and only while that one waits for it.
SenderOK(t) ==
  /\ pc[t] \in {"acquire", "network"} => arg[t] \in Packet /\ arg[t].from = Home[t]
  /\ pc[t] = "receive" => arg[t] \in Box
  /\ InSend(t) <=> holder[Home[t]] = t
LockOK(h) ==
  /\ holder[h] # Nothing => Home[holder[h]] = h
  /\ sending[h] + sent[h] = One(holder[h] # Nothing /\ pc[holder[h]] = "sent")
Senders ==
  /\ arg = [t \in Thread |-> arg[t]]
  /\ \A t \in Thread : SenderOK(t)
  /\ \A h \in Host : LockOK(h)

\* The mail where it is on its way: with the worker, in the device, in the socket.
Held(x) == IF x \in {Nothing, Waiting, Awake} THEN {} ELSE {x}
Arriving(h) == Held(inbox[h]) \cup Range(wire[h])
Unsorted(h) == Held(worker[h]) \cup Arriving(h)
Unread(h, b) == Range(boxes[h][b]) \cup Unsorted(h)
All(h, b) == Range(received[h]) \cup Unread(h, b)

\* Of the mail for box b from one machine, that in S is older than that in T.
Older(S, T, b) == \A x \in S, y \in T :
  x.box = b /\ y.box = b /\ x.from = y.from => x.n < y.n
Sorted(s, b) == \A i, j \in 1 .. Len(s) :
  i < j /\ s[i].box = b /\ s[j].box = b /\ s[i].from = s[j].from => s[i].n < s[j].n

\* InOrder, place by place: each place is in order, and what is further along
\* is older.
Ordered(h, b) ==
  /\ Sorted(received[h], b) /\ Sorted(boxes[h][b], b) /\ Sorted(wire[h], b)
  /\ Older(Range(received[h]), Unread(h, b), b)
  /\ Older(Range(boxes[h][b]), Unsorted(h), b)
  /\ Older(Held(worker[h]), Arriving(h), b)
  /\ Older(Held(inbox[h]), Range(wire[h]), b)

\* A mailbox has the mail for it, packets are numbered by their senders, and the
\* one in SendToSocket is newer than all its machine sent before.
Places == \A h \in Host, b \in Box :
  /\ Ordered(h, b)
  /\ \A pkt \in Range(boxes[h][b]) : pkt.box = b
  /\ \A pkt \in All(h, b) : pkt.n <= numbered[pkt.from]
  /\ \A pkt \in All(h, b) : retry[pkt.from] # Nothing => pkt.n < numbered[pkt.from]

Retried == \A m \in Host : retry[m] # Nothing =>
  retry[m].pkt.from = m /\ retry[m].pkt.n = numbered[m]

\* NoneForgotten, place by place.
Kept == \A m \in Host : \A n \in 1 .. numbered[m] :
  \/ \E pkt \in lost \union unsent : pkt.from = m /\ pkt.n = n
  \/ retry[m] # Nothing /\ retry[m].pkt.n = n
  \/ \E h \in Host, b \in Box : \E pkt \in All(h, b) :
       pkt.from = m /\ pkt.n = n /\ pkt.box = b

PostIInv == TypeOK /\ BufferAnnounced /\ Senders /\ Places /\ Retried /\ Kept

-----------------------------------------------------------------------------
(* Sequences of packets, and the sets of their elements *)

LEMMA RangeIndex ==
  ASSUME NEW S, NEW s \in Seq(S)
  PROVE  /\ \A i \in 1 .. Len(s) : s[i] \in Range(s)
         /\ \A x \in Range(s) : x \in S /\ \E i \in 1 .. Len(s) : s[i] = x
BY DEF Range

LEMMA RangeAppend ==
  ASSUME NEW S, NEW s \in Seq(S), NEW x \in S
  PROVE  Range(Append(s, x)) = Range(s) \cup {x}
<1> DEFINE a == Append(s, x)
<1>1. /\ Len(a) = Len(s) + 1 /\ a[Len(s) + 1] = x /\ Len(s) \in Nat
      /\ \A i \in 1 .. Len(s) : a[i] = s[i]
      /\ DOMAIN a = 1 .. Len(a) /\ DOMAIN s = 1 .. Len(s)
  OBVIOUS
<1> HIDE DEF a
<1>2. ASSUME NEW y \in Range(a)
      PROVE  y \in Range(s) \cup {x}
  <2>1. PICK i \in 1 .. Len(a) : a[i] = y
    BY <1>1 DEF Range
  <2> QED BY <1>1, <2>1 DEF Range
<1>3. ASSUME NEW y \in Range(s)
      PROVE  y \in Range(a)
  <2>1. PICK i \in 1 .. Len(s) : s[i] = y
    BY <1>1 DEF Range
  <2> QED BY <1>1, <2>1 DEF Range
<1>4. x \in Range(a)
  BY <1>1 DEF Range
<1> QED BY <1>2, <1>3, <1>4 DEF a

LEMMA RangeTail ==
  ASSUME NEW S, NEW s \in Seq(S), s # <<>>
  PROVE  /\ Head(s) \in S /\ Tail(s) \in Seq(S)
         /\ Range(s) = {Head(s)} \cup Range(Tail(s))
<1> DEFINE t == Tail(s)
<1>1. /\ Len(s) \in Nat \ {0} /\ Head(s) = s[1] /\ Len(t) = Len(s) - 1
      /\ \A i \in 1 .. Len(t) : t[i] = s[i + 1]
      /\ DOMAIN t = 1 .. Len(t) /\ DOMAIN s = 1 .. Len(s)
      /\ Head(s) \in S /\ t \in Seq(S)
  OBVIOUS
<1> HIDE DEF t
<1>2. ASSUME NEW y \in Range(s)
      PROVE  y \in {Head(s)} \cup Range(t)
  <2>1. PICK i \in 1 .. Len(s) : s[i] = y
    BY <1>1 DEF Range
  <2>2. CASE i = 1
    BY <1>1, <2>1, <2>2
  <2>3. CASE i # 1
    <3>1. i - 1 \in 1 .. Len(t) /\ t[i - 1] = y
      BY <1>1, <2>1, <2>3
    <3> QED BY <1>1, <3>1 DEF Range
  <2> QED BY <2>2, <2>3
<1>3. ASSUME NEW y \in Range(t)
      PROVE  y \in Range(s)
  <2>1. PICK i \in 1 .. Len(t) : t[i] = y
    BY <1>1 DEF Range
  <2>2. i + 1 \in 1 .. Len(s) /\ s[i + 1] = y
    BY <1>1, <2>1
  <2> QED BY <1>1, <2>2 DEF Range
<1>4. Head(s) \in Range(s)
  BY <1>1 DEF Range
<1> QED BY <1>1, <1>2, <1>3, <1>4 DEF t

LEMMA SortedAppend ==
  ASSUME NEW s \in Seq(Packet), NEW x \in Packet, NEW b,
         Sorted(s, b), Older(Range(s), {x}, b)
  PROVE  Sorted(Append(s, x), b)
<1> DEFINE a == Append(s, x)
<1>1. /\ Len(a) = Len(s) + 1 /\ a[Len(s) + 1] = x /\ Len(s) \in Nat
      /\ \A i \in 1 .. Len(s) : a[i] = s[i]
  OBVIOUS
<1> HIDE DEF a
<1>2. ASSUME NEW i \in 1 .. Len(a), NEW j \in 1 .. Len(a), i < j,
             a[i].box = b, a[j].box = b, a[i].from = a[j].from
      PROVE  a[i].n < a[j].n
  <2>1. i \in 1 .. Len(s) /\ a[i] = s[i]
    BY <1>1, <1>2
  <2>2. CASE j \in 1 .. Len(s)
    BY <1>1, <1>2, <2>1, <2>2 DEF Sorted
  <2>3. CASE j = Len(s) + 1
    <3>1. s[i] \in Range(s)
      BY <2>1, RangeIndex
    <3> QED BY <1>1, <1>2, <2>1, <2>3, <3>1 DEF Older
  <2> QED BY <1>1, <2>2, <2>3
<1> QED BY <1>2 DEF Sorted, a

LEMMA SortedTail ==
  ASSUME NEW s \in Seq(Packet), s # <<>>, NEW b, Sorted(s, b)
  PROVE  Sorted(Tail(s), b) /\ Older({Head(s)}, Range(Tail(s)), b)
<1> DEFINE t == Tail(s)
<1>1. /\ Len(s) \in Nat \ {0} /\ Head(s) = s[1] /\ Len(t) = Len(s) - 1
      /\ \A i \in 1 .. Len(t) : t[i] = s[i + 1]
      /\ t \in Seq(Packet)
  OBVIOUS
<1> HIDE DEF t
<1>2. ASSUME NEW i \in 1 .. Len(t), NEW j \in 1 .. Len(t), i < j,
             t[i].box = b, t[j].box = b, t[i].from = t[j].from
      PROVE  t[i].n < t[j].n
  <2>1. i + 1 \in 1 .. Len(s) /\ j + 1 \in 1 .. Len(s) /\ i + 1 < j + 1
    BY <1>1, <1>2
  <2> QED BY <1>1, <1>2, <2>1 DEF Sorted
<1>3. ASSUME NEW y \in Range(t), Head(s).box = b, y.box = b, Head(s).from = y.from
      PROVE  Head(s).n < y.n
  <2>1. PICK i \in 1 .. Len(t) : t[i] = y
    BY <1>1, RangeIndex
  <2>2. 1 \in 1 .. Len(s) /\ i + 1 \in 1 .. Len(s) /\ 1 < i + 1 /\ s[i + 1] = y
    BY <1>1, <2>1
  <2> QED BY <1>1, <1>3, <2>2 DEF Sorted
<1> QED BY <1>2, <1>3 DEF Sorted, Older, t

LEMMA SortedConcat ==
  ASSUME NEW s \in Seq(Packet), NEW r \in Seq(Packet), NEW b,
         Sorted(s, b), Sorted(r, b), Older(Range(s), Range(r), b)
  PROVE  /\ s \o r \in Seq(Packet) /\ Sorted(s \o r, b)
         /\ Range(s \o r) = Range(s) \cup Range(r)
<1> DEFINE c == s \o r
<1>1. /\ Len(c) = Len(s) + Len(r) /\ Len(s) \in Nat /\ Len(r) \in Nat
      /\ \A i \in 1 .. Len(s) : c[i] = s[i]
      /\ \A i \in 1 .. Len(r) : c[Len(s) + i] = r[i]
      /\ c \in Seq(Packet)
  OBVIOUS
<1> HIDE DEF c
<1>2. ASSUME NEW i \in 1 .. Len(c)
      PROVE  \/ i \in 1 .. Len(s) /\ c[i] = s[i] /\ s[i] \in Range(s)
             \/ /\ i > Len(s) /\ i - Len(s) \in 1 .. Len(r) /\ c[i] = r[i - Len(s)]
                /\ r[i - Len(s)] \in Range(r)
  <2>1. CASE i \in 1 .. Len(s)
    BY <1>1, <2>1, RangeIndex
  <2>2. CASE i > Len(s)
    <3>1. i - Len(s) \in 1 .. Len(r) /\ i = Len(s) + (i - Len(s))
      BY <1>1, <2>2
    <3> QED BY <1>1, <2>2, <3>1, RangeIndex
  <2> QED BY <1>1, <2>1, <2>2
<1>3. Sorted(c, b)
  <2> SUFFICES ASSUME NEW i \in 1 .. Len(c), NEW j \in 1 .. Len(c), i < j,
                      c[i].box = b, c[j].box = b, c[i].from = c[j].from
               PROVE  c[i].n < c[j].n
    BY DEF Sorted
  <2>1. CASE j \in 1 .. Len(s)
    <3>1. i \in 1 .. Len(s) /\ c[i] = s[i] /\ c[j] = s[j]
      BY <1>1, <2>1
    <3> QED BY <2>1, <3>1 DEF Sorted
  <2>2. CASE i > Len(s)
    <3>1. j > Len(s)
      BY <1>1, <2>2
    <3>2. /\ i - Len(s) \in 1 .. Len(r) /\ c[i] = r[i - Len(s)]
          /\ j - Len(s) \in 1 .. Len(r) /\ c[j] = r[j - Len(s)]
      BY <1>1, <1>2, <2>2, <3>1
    <3>3. i - Len(s) < j - Len(s)
      BY <1>1
    <3> QED BY <3>2, <3>3 DEF Sorted
  <2>3. CASE i \in 1 .. Len(s) /\ j > Len(s)
    <3>1. ~(i > Len(s)) /\ j \notin 1 .. Len(s)
      BY <1>1, <2>3
    <3>2. c[i] \in Range(s) /\ c[j] \in Range(r)
      BY <1>2, <3>1
    <3> QED BY <3>2 DEF Older
  <2> QED BY <1>1, <2>1, <2>2, <2>3
<1>4. ASSUME NEW y \in Range(c)
      PROVE  y \in Range(s) \cup Range(r)
  <2>1. PICK i \in 1 .. Len(c) : c[i] = y
    BY <1>1, RangeIndex
  <2> QED BY <1>2, <2>1
<1>5. ASSUME NEW y \in Range(s)
      PROVE  y \in Range(c)
  <2>1. PICK i \in 1 .. Len(s) : s[i] = y
    BY RangeIndex
  <2>2. i \in 1 .. Len(c) /\ c[i] = y
    BY <1>1, <2>1
  <2> QED BY <1>1, <2>2, RangeIndex
<1>6. ASSUME NEW y \in Range(r)
      PROVE  y \in Range(c)
  <2>1. PICK i \in 1 .. Len(r) : r[i] = y
    BY RangeIndex
  <2>2. Len(s) + i \in 1 .. Len(c) /\ c[Len(s) + i] = y
    BY <1>1, <2>1
  <2> QED BY <1>1, <2>2, RangeIndex, Zenon
<1> QED BY <1>1, <1>3, <1>4, <1>5, <1>6 DEF c

-----------------------------------------------------------------------------
(* Threads and devices *)

Control == TypeOK /\ BufferAnnounced /\ Senders

LEMMA ExceptFunction ==
  ASSUME NEW S, NEW f, f = [u \in S |-> f[u]], NEW t \in S, NEW a,
         NEW g, g = [f EXCEPT ![t] = a]
  PROVE  g[t] = a /\ (\A u \in S \ {t} : g[u] = f[u]) /\ g = [u \in S |-> g[u]]
OBVIOUS

\* A step of one thread leaves the others, and the locks of other machines, as
\* they are.
LEMMA OtherSenders ==
  ASSUME TypeOK, Senders, NEW t \in Thread,
         arg' = [u \in Thread |-> arg'[u]],
         \A u \in Thread \ {t} : pc'[u] = pc[u] /\ arg'[u] = arg[u],
         \A h \in Host \ {Home[t]} :
           holder'[h] = holder[h] /\ sending'[h] = sending[h] /\ sent'[h] = sent[h],
         \A u \in Thread \ {t} : holder'[Home[t]] = u <=> holder[Home[t]] = u,
         SenderOK(t)', LockOK(Home[t])'
  PROVE  Senders'
<1>1. Home \in [Thread -> Host] /\ Nothing \notin Thread
  BY PostAssumption
<1>2. ASSUME NEW u \in Thread
      PROVE  SenderOK(u)'
  <2>1. CASE u # t
    <3>1. holder'[Home[u]] = u <=> holder[Home[u]] = u
      BY <1>1, <2>1
    <3>2. SenderOK(u) /\ pc'[u] = pc[u] /\ arg'[u] = arg[u]
      BY <2>1 DEF Senders
    <3> QED BY <3>1, <3>2 DEF SenderOK, InSend
  <2> QED BY <2>1
<1>3. ASSUME NEW h \in Host
      PROVE  LockOK(h)'
  <2>1. CASE h # Home[t]
    <3>1. LockOK(h) /\ holder[h] \in Thread \cup {Nothing}
      BY DEF Senders, TypeOK
    <3>2. holder[h] # t
      BY <2>1, <1>1, <3>1 DEF LockOK
    <3>3. holder[h] # Nothing => pc'[holder[h]] = pc[holder[h]]
      BY <3>1, <3>2
    <3>4. holder'[h] = holder[h] /\ sending'[h] = sending[h] /\ sent'[h] = sent[h]
      BY <2>1
    <3> QED BY <3>1, <3>3, <3>4 DEF LockOK
  <2> QED BY <2>1
<1> QED BY <1>2, <1>3 DEF Senders

\* A thread that starts a call fills in its arguments.
LEMMA CallControl ==
  ASSUME Control, NEW t \in Thread,
         \/ \E to \in Host, b \in Box : CallSend(t, to, b, b)
         \/ \E b \in Box : CallReceive(t, b)
  PROVE  Control'
<1> USE DEF Control
<1>1. PICK l \in {"acquire", "receive"}, a \in Packet \cup Box :
        /\ pc' = [pc EXCEPT ![t] = l] /\ arg' = [arg EXCEPT ![t] = a]
        /\ l = "acquire" => a \in Packet /\ a.from = Home[t]
        /\ l = "receive" => a \in Box
        /\ calls' = [calls EXCEPT ![t] = @ + 1] /\ calls[t] < MaxCalls /\ pc[t] = "idle"
        /\ UNCHANGED <<power, wire, boxes, device, output, mail, received>>
  <2>1. ASSUME NEW to \in Host, NEW b \in Box, CallSend(t, to, b, b)
        PROVE  [from |-> Home[t], to |-> to, box |-> b, reply |-> b, n |-> 0] \in Packet
    BY PostAssumption DEF Packet
  <2> QED BY <2>1, Zenon DEF CallSend, CallReceive
<1>2. TypeOK'
  <2>1. calls' \in [Thread -> 0 .. MaxCalls]
    BY <1>1, PostAssumption DEF TypeOK
  <2>2. pc' \in [Thread -> {"idle", "acquire", "network", "sent", "release", "receive"}]
    BY <1>1 DEF TypeOK
  <2> QED BY <1>1, <2>1, <2>2 DEF TypeOK, device, output
<1>3. BufferAnnounced'
  BY <1>1 DEF BufferAnnounced, device
<1>4. Senders'
  <2>1. Home \in [Thread -> Host] /\ Nothing \notin Thread
    BY PostAssumption
  <2>2. /\ arg'[t] = a /\ (\A u \in Thread \ {t} : arg'[u] = arg[u])
        /\ arg' = [u \in Thread |-> arg'[u]]
    BY <1>1, ExceptFunction DEF Senders
  <2>3. pc'[t] = l /\ \A u \in Thread \ {t} : pc'[u] = pc[u]
    BY <1>1 DEF TypeOK
  <2>4. holder' = holder /\ sending' = sending /\ sent' = sent
    BY <1>1 DEF output
  <2>5. SenderOK(t) /\ LockOK(Home[t]) /\ holder[Home[t]] \in Thread \cup {Nothing}
    BY <2>1 DEF Senders, TypeOK
  <2>6. SenderOK(t)' /\ holder[Home[t]] # t
    BY <1>1, <2>2, <2>3, <2>4, <2>5 DEF SenderOK, InSend
  <2>7. LockOK(Home[t])'
    BY <2>3, <2>4, <2>5, <2>6 DEF LockOK
  <2> HIDE DEF Control
  <2> QED BY <2>1, <2>2, <2>3, <2>4, <2>6, <2>7, OtherSenders DEF Control
<1> QED BY <1>2, <1>3, <1>4

\* PostOfficeOutput::Send: the lock, the network, the wait for the interrupt and
\* the release.
LEMMA SendControl ==
  ASSUME Control, NEW t \in Thread,
         Acquire(t) \/ NetworkSend(t) \/ WaitSent(t) \/ Release(t)
  PROVE  Control'
<1> DEFINE h == Home[t]
<1>1. /\ Home \in [Thread -> Host] /\ h \in Host /\ Nothing \notin Thread
      /\ Retries \in Nat \ {0}
  BY PostAssumption
<1>2. /\ TypeOK /\ BufferAnnounced /\ Senders /\ SenderOK(t) /\ LockOK(h)
      /\ holder[h] \in Thread \cup {Nothing} /\ sending[h] \in {0, 1} /\ sent[h] \in {0, 1}
  BY <1>1 DEF Control, Senders, TypeOK
<1>3. /\ UNCHANGED <<power, wire, boxes, device, arg, mail, calls, received>>
      /\ numbered' \in [Host -> Nat] /\ lost' \subseteq Packet /\ unsent' = unsent
      /\ retry' \in [Host -> Attempt \cup {Nothing}]
  <2>1. CASE NetworkSend(t)
    <3> DEFINE pkt == [arg[t] EXCEPT !.n = numbered[h] + 1]
    <3>1. numbered[h] \in Nat /\ arg[t] \in Packet
      BY <1>1, <1>2, <2>1 DEF TypeOK, SenderOK, NetworkSend
    <3>2. pkt \in Packet
      BY <3>1 DEF Packet
    <3> DEFINE first == [pkt |-> pkt, left |-> Retries]
    <3>3. first \in Attempt
      BY <1>1, <3>2 DEF Attempt
    <3>4. /\ numbered' = [numbered EXCEPT ![h] = numbered[h] + 1]
          /\ \/ lost' = lost \cup {pkt} /\ retry' = retry
             \/ lost' = lost /\ retry' = [retry EXCEPT ![h] = first]
          /\ UNCHANGED <<power, wire, boxes, device, unsent, arg, mail, calls, received>>
      BY <2>1 DEF NetworkSend
    <3> HIDE DEF first, pkt, h
    <3>5. numbered' \in [Host -> Nat]
      BY <1>1, <1>2, <3>1, <3>4 DEF TypeOK
    <3>6. lost' \subseteq Packet
      BY <1>2, <3>2, <3>4 DEF TypeOK
    <3>7. retry' \in [Host -> Attempt \cup {Nothing}]
      BY <1>1, <1>2, <3>3, <3>4, Zenon DEF TypeOK
    <3> QED BY <3>4, <3>5, <3>6, <3>7
  <2>2. CASE Acquire(t) \/ WaitSent(t) \/ Release(t)
    BY <1>2, <2>2 DEF Acquire, WaitSent, Release, TypeOK
  <2> QED BY <2>1, <2>2
<1>4. PICK l \in {"network", "sent", "release", "idle"}, k \in {t, Nothing},
           a \in {0, 1}, d \in {0, 1} :
        /\ pc' = [pc EXCEPT ![t] = l] /\ holder' = [holder EXCEPT ![h] = k]
        /\ sending' = [sending EXCEPT ![h] = a] /\ sent' = [sent EXCEPT ![h] = d]
        /\ pc[t] # "acquire" => holder[h] = t
        /\ pc[t] = "acquire" => holder[h] = Nothing /\ l = "network"
        /\ k = t <=> l # "idle"
        /\ a + d = One(l = "sent")
        /\ l = "network" => pc[t] = "acquire"
  <2>1. CASE Acquire(t)
    <3>1. sending[h] + sent[h] = 0
      BY <1>2, <2>1 DEF Acquire, LockOK, One
    <3>2. sending[h] + sent[h] = One("network" = "sent")
      BY <3>1 DEF One
    <3>3. /\ sending' = [sending EXCEPT ![h] = sending[h]]
          /\ sent' = [sent EXCEPT ![h] = sent[h]]
      BY <1>1, <1>2, <2>1 DEF Acquire, TypeOK
    <3> QED BY <1>2, <2>1, <3>2, <3>3, Zenon DEF Acquire
  <2>2. CASE NetworkSend(t)
    <3>1. holder[h] = t
      BY <1>2, <2>2 DEF NetworkSend, SenderOK, InSend
    <3>2. sending[h] = 0 /\ sent[h] = 0
      BY <1>1, <1>2, <2>2, <3>1 DEF NetworkSend, LockOK, One
    <3>3. /\ sending' = [sending EXCEPT ![h] = 1] /\ sent' = [sent EXCEPT ![h] = 0]
          /\ holder' = [holder EXCEPT ![h] = t] /\ pc' = [pc EXCEPT ![t] = "sent"]
          /\ pc[t] = "network"
      BY <1>1, <1>2, <2>2, <3>1, <3>2 DEF NetworkSend, TypeOK
    <3>4. 1 + 0 = One("sent" = "sent")
      BY DEF One
    <3> QED BY <3>1, <3>3, <3>4
  <2>3. CASE WaitSent(t)
    <3>1. holder[h] = t /\ pc[t] = "sent"
      BY <1>2, <2>3 DEF WaitSent, SenderOK, InSend
    <3>2. sending[h] = 0 /\ sent[h] = 1
      BY <1>1, <1>2, <2>3, <3>1 DEF WaitSent, LockOK, One
    <3>3. /\ sending' = [sending EXCEPT ![h] = 0] /\ sent' = [sent EXCEPT ![h] = 0]
          /\ holder' = [holder EXCEPT ![h] = t] /\ pc' = [pc EXCEPT ![t] = "release"]
      BY <1>1, <1>2, <2>3, <3>1, <3>2 DEF WaitSent, TypeOK
    <3>4. 0 + 0 = One("release" = "sent")
      BY DEF One
    <3> QED BY <3>1, <3>3, <3>4
  <2>4. CASE Release(t)
    <3>1. holder[h] = t /\ pc[t] = "release"
      BY <1>2, <2>4 DEF Release, SenderOK, InSend
    <3>2. sending[h] = 0 /\ sent[h] = 0
      BY <1>1, <1>2, <2>4, <3>1 DEF Release, LockOK, One
    <3>3. /\ sending' = [sending EXCEPT ![h] = 0] /\ sent' = [sent EXCEPT ![h] = 0]
          /\ holder' = [holder EXCEPT ![h] = Nothing] /\ pc' = [pc EXCEPT ![t] = "idle"]
      BY <1>1, <1>2, <2>4, <3>1, <3>2 DEF Release, TypeOK
    <3>4. 0 + 0 = One("idle" = "sent")
      BY DEF One
    <3> QED BY <1>1, <3>1, <3>3, <3>4
  <2> QED BY <2>1, <2>2, <2>3, <2>4
<1> HIDE DEF h
<1>5. TypeOK'
  <2>1. /\ pc' \in [Thread -> {"idle", "acquire", "network", "sent", "release", "receive"}]
        /\ holder' \in [Host -> Thread \cup {Nothing}]
        /\ sending' \in [Host -> {0, 1}] /\ sent' \in [Host -> {0, 1}]
    BY <1>1, <1>2, <1>4 DEF TypeOK
  <2> QED BY <1>2, <1>3, <2>1 DEF TypeOK, device
<1>6. BufferAnnounced'
  BY <1>2, <1>3 DEF BufferAnnounced, device
<1>7. Senders'
  <2>1. /\ pc'[t] = l /\ holder'[h] = k /\ sending'[h] = a /\ sent'[h] = d
        /\ \A u \in Thread \ {t} : pc'[u] = pc[u]
        /\ \A g \in Host \ {h} :
             holder'[g] = holder[g] /\ sending'[g] = sending[g] /\ sent'[g] = sent[g]
    BY <1>1, <1>2, <1>4 DEF TypeOK
  <2>2. arg' = arg /\ arg' = [u \in Thread |-> arg'[u]]
    BY <1>2, <1>3 DEF Senders
  <2>3. SenderOK(t)'
    BY <1>1, <1>2, <1>4, <2>1, <2>2 DEF SenderOK, InSend, h
  <2>4. LockOK(h)'
    <3>1. CASE l = "idle"
      <4>1. k = Nothing /\ a + d = One(FALSE)
        BY <1>1, <1>4, <3>1, Zenon
      <4> QED BY <2>1, <4>1 DEF LockOK, One
    <3>2. CASE l # "idle"
      <4>1. k = t /\ k # Nothing
        BY <1>1, <1>4, <3>2
      <4> QED BY <1>1, <1>4, <2>1, <4>1 DEF LockOK, One, h
    <3> QED BY <3>1, <3>2
  <2>5. \A u \in Thread \ {t} : holder'[h] = u <=> holder[h] = u
    BY <1>1, <1>4, <1>2, <2>1 DEF SenderOK
  <2> QED BY <1>2, <2>1, <2>2, <2>3, <2>4, <2>5, OtherSenders DEF h
<1> QED BY <1>5, <1>6, <1>7 DEF Control

\* Steps in which no thread moves and the interrupts and wake-ups for Send stay
\* one together.
LEMMA SameSenders ==
  ASSUME Senders, UNCHANGED <<pc, arg, holder>>,
         \A h \in Host : sending'[h] + sent'[h] = sending[h] + sent[h]
  PROVE  Senders'
<1>1. \A t \in Thread : SenderOK(t)'
  BY DEF Senders, SenderOK, InSend
<1>2. \A h \in Host : LockOK(h)'
  BY DEF Senders, LockOK
<1> QED BY <1>1, <1>2 DEF Senders

\* MailBox::Get.
LEMMA GetControl ==
  ASSUME Control, NEW t \in Thread, Get(t)
  PROVE  Control'
<1> DEFINE h == Home[t]
           b == arg[t]
           x == Head(boxes[h][b])
<1>1. Home \in [Thread -> Host] /\ h \in Host /\ Nothing \notin Thread
  BY PostAssumption
<1>2. /\ TypeOK /\ BufferAnnounced /\ Senders /\ SenderOK(t) /\ LockOK(h) /\ pc[t] = "receive"
      /\ holder[h] \in Thread \cup {Nothing}
  BY <1>1, Zenon DEF Control, Senders, Get, TypeOK
<1>3. b \in Box /\ boxes[h][b] \in Seq(Packet) /\ boxes[h][b] # <<>>
  BY <1>1, <1>2 DEF TypeOK, SenderOK, Get
<1>4. x \in Packet /\ Tail(boxes[h][b]) \in Seq(Packet)
  BY <1>3
<1>5. /\ boxes' = [boxes EXCEPT ![h] = [boxes[h] EXCEPT ![b] = Tail(boxes[h][b])]]
      /\ mail' = [mail EXCEPT ![t] = x]
      /\ received' = [received EXCEPT ![h] = Append(received[h], x)]
      /\ pc' = [pc EXCEPT ![t] = "idle"]
      /\ UNCHANGED <<power, wire, device, output, arg, calls>>
  BY DEF Get
<1> HIDE DEF h, b, x
<1>6. TypeOK'
  <2>1. boxes' \in [Host -> [Box -> Seq(Packet)]]
    <3>1. [boxes[h] EXCEPT ![b] = Tail(boxes[h][b])] \in [Box -> Seq(Packet)]
      BY <1>1, <1>2, <1>3, <1>4 DEF TypeOK
    <3> QED BY <1>1, <1>2, <1>5, <3>1 DEF TypeOK
  <2>2. received' \in [Host -> Seq(Packet)]
    <3>1. Append(received[h], x) \in Seq(Packet)
      BY <1>1, <1>2, <1>4 DEF TypeOK
    <3> QED BY <1>1, <1>2, <1>5, <3>1 DEF TypeOK
  <2>3. /\ pc' \in [Thread -> {"idle", "acquire", "network", "sent", "release", "receive"}]
        /\ mail' \in [Thread -> Packet \cup {Nothing}]
    BY <1>2, <1>4, <1>5 DEF TypeOK
  <2> QED BY <1>2, <1>5, <2>1, <2>2, <2>3 DEF TypeOK, device, output
<1>7. BufferAnnounced'
  BY <1>2, <1>5 DEF BufferAnnounced, device
<1>8. Senders'
  <2>1. pc'[t] = "idle" /\ \A u \in Thread \ {t} : pc'[u] = pc[u]
    BY <1>2, <1>5 DEF TypeOK
  <2>2. arg' = arg /\ holder' = holder /\ sending' = sending /\ sent' = sent
    BY <1>5 DEF output
  <2>3. SenderOK(t)' /\ holder[h] # t
    BY <1>2, <2>1, <2>2 DEF SenderOK, InSend, h
  <2>4. LockOK(h)'
    BY <1>2, <2>1, <2>2, <2>3 DEF LockOK
  <2>5. arg' = [u \in Thread |-> arg'[u]]
    BY <1>2, <2>2 DEF Senders
  <2> QED BY <1>2, <2>1, <2>2, <2>3, <2>4, <2>5, OtherSenders DEF h
<1> QED BY <1>6, <1>7, <1>8 DEF Control

\* Machines come and go; SendToSocket hands the packet over or gives up; the
\* interrupt of the network becomes a wake-up.
LEMMA NetworkControl ==
  ASSUME Control, NEW h \in Host,
         Boot(h) \/ Halt(h) \/ SendToSocket(h) \/ SentCallBack(h)
  PROVE  Control'
<1>0. TypeOK /\ BufferAnnounced /\ Senders /\ LockOK(h)
  BY DEF Control, Senders
<1>1. CASE Boot(h) \/ Halt(h)
  <2>1. TypeOK' /\ BufferAnnounced'
    BY <1>0, <1>1, Zenon DEF Boot, Halt, TypeOK, BufferAnnounced, device, output, thread
  <2>2. Senders'
    BY <1>0, <1>1, SameSenders DEF Boot, Halt, output, thread
  <2> QED BY <2>1, <2>2 DEF Control
<1>2. CASE SendToSocket(h)
  <2> DEFINE pkt == retry[h].pkt
  <2>1. retry[h] \in Attempt /\ Retries \in Nat
    BY <1>0, <1>2, PostAssumption DEF SendToSocket, TypeOK
  <2>2. pkt \in Packet /\ pkt.to \in Host /\ retry[h].left \in 1 .. Retries
    BY <2>1 DEF Attempt, Packet
  <2>3. /\ UNCHANGED <<power, boxes, device, holder, sending, sent, numbered, lost, thread>>
        /\ \/ /\ wire' = [wire EXCEPT ![pkt.to] = Append(wire[pkt.to], pkt)]
              /\ retry' = [retry EXCEPT ![h] = Nothing] /\ unsent' = unsent
           \/ /\ retry[h].left > 1
              /\ retry' = [retry EXCEPT ![h] = [retry[h] EXCEPT !.left = retry[h].left - 1]]
              /\ wire' = wire /\ unsent' = unsent
           \/ /\ unsent' = unsent \cup {pkt} /\ retry' = [retry EXCEPT ![h] = Nothing]
              /\ wire' = wire
    BY <1>2 DEF SendToSocket
  <2>4. retry[h].left > 1 => [retry[h] EXCEPT !.left = retry[h].left - 1] \in Attempt
    BY <2>1, <2>2 DEF Attempt
  <2> HIDE DEF pkt
  <2>5. Append(wire[pkt.to], pkt) \in Seq(Packet)
    BY <1>0, <2>2 DEF TypeOK
  <2>6. wire' \in [Host -> Seq(Packet)] /\ unsent' \subseteq Packet
    <3>1. [wire EXCEPT ![pkt.to] = Append(wire[pkt.to], pkt)] \in [Host -> Seq(Packet)]
      BY <1>0, <2>2, <2>5 DEF TypeOK
    <3>2. wire \in [Host -> Seq(Packet)] /\ unsent \cup {pkt} \subseteq Packet
      BY <1>0, <2>2 DEF TypeOK
    <3> QED BY <2>3, <3>1, <3>2, Zenon
  <2>7. retry' \in [Host -> Attempt \cup {Nothing}]
    BY <1>0, <2>3, <2>4, Zenon DEF TypeOK
  <2>8. TypeOK'
    BY <1>0, <2>3, <2>6, <2>7 DEF TypeOK, device, thread
  <2>9. BufferAnnounced'
    BY <1>0, <2>3 DEF BufferAnnounced, device
  <2>10. Senders'
    BY <1>0, <2>3, SameSenders DEF thread
  <2> QED BY <2>8, <2>9, <2>10 DEF Control
<1>3. CASE SentCallBack(h)
  <2>1. sending[h] = 1 /\ sent[h] = 0
    BY <1>0, <1>3 DEF SentCallBack, LockOK, One, TypeOK
  <2>2. /\ sending' = [sending EXCEPT ![h] = 0] /\ sent' = [sent EXCEPT ![h] = 1]
        /\ UNCHANGED <<power, wire, boxes, device, holder, retry, numbered, lost, unsent, thread>>
    BY <1>3, <2>1 DEF SentCallBack, MessageSent
  <2>3. TypeOK'
    BY <1>0, <2>2 DEF TypeOK, device, thread
  <2>4. BufferAnnounced'
    BY <1>0, <2>2 DEF BufferAnnounced, device
  <2>5. \A g \in Host : sending'[g] + sent'[g] = sending[g] + sent[g]
    BY <1>0, <2>1, <2>2 DEF TypeOK
  <2>6. Senders'
    BY <1>0, <2>2, <2>5, SameSenders DEF thread
  <2> QED BY <2>3, <2>4, <2>6 DEF Control
<1> QED BY <1>1, <1>2, <1>3

\* The device buffers a packet and announces it; the worker wakes, takes it and
\* puts it into its mailbox.
LEMMA ArrivalControl ==
  ASSUME Control, NEW h \in Host,
         NetworkCallBack(h) \/ WorkerWakes(h) \/ NetworkReceive(h) \/ Put(h)
  PROVE  Control'
<1>0. /\ TypeOK /\ BufferAnnounced /\ Senders
      /\ available[h] + One(worker[h] = Awake) = One(inbox[h] # Nothing)
      /\ available[h] \in {0, 1} /\ inbox[h] \in Packet \cup {Nothing}
      /\ worker[h] \in Packet \cup {Waiting, Awake}
      /\ Waiting # Awake /\ {Nothing, Waiting, Awake} \cap Packet = {}
  BY PostAssumption, NoPacket DEF Control, BufferAnnounced, TypeOK
<1>1. Senders'
  BY <1>0, SameSenders DEF NetworkCallBack, TakeFromSocket, WorkerWakes, NetworkReceive, Put,
                           output, thread
<1>2. PICK a \in {0, 1}, w \in Packet \cup {Waiting, Awake}, i \in Packet \cup {Nothing} :
        /\ available' = [available EXCEPT ![h] = a]
        /\ worker' = [worker EXCEPT ![h] = w] /\ inbox' = [inbox EXCEPT ![h] = i]
        /\ a + One(w = Awake) = One(i # Nothing)
  <2>0. /\ available = [available EXCEPT ![h] = available[h]]
        /\ worker = [worker EXCEPT ![h] = worker[h]] /\ inbox = [inbox EXCEPT ![h] = inbox[h]]
    BY <1>0 DEF TypeOK
  <2>1. CASE NetworkCallBack(h)
    <3>1. available[h] = 0 /\ worker[h] # Awake
      BY <1>0, <2>1 DEF NetworkCallBack, One
    <3>2. wire[h] \in Seq(Packet) /\ wire[h] # <<>>
      BY <1>0, <2>1 DEF TypeOK, NetworkCallBack, TakeFromSocket
    <3>3. Head(wire[h]) \in Packet
      BY <3>2
    <3>4. Head(wire[h]) # Nothing
      BY <1>0, <3>3
    <3>5. 1 + One(worker[h] = Awake) = One(Head(wire[h]) # Nothing)
      BY <3>1, <3>4 DEF One
    <3>6. /\ available' = [available EXCEPT ![h] = 1] /\ worker' = worker
          /\ inbox' = [inbox EXCEPT ![h] = Head(wire[h])]
      BY <2>1, <3>1 DEF NetworkCallBack, TakeFromSocket, MessageAvailable
    <3> QED BY <1>0, <2>0, <3>3, <3>5, <3>6, Zenon
  <2>2. CASE WorkerWakes(h)
    <3>1. available[h] = 1 /\ inbox[h] # Nothing
      BY <1>0, <2>2 DEF WorkerWakes, One
    <3>2. /\ available' = [available EXCEPT ![h] = 0]
          /\ worker' = [worker EXCEPT ![h] = Awake] /\ inbox' = inbox
      BY <2>2, <3>1 DEF WorkerWakes
    <3>3. 0 + One(Awake = Awake) = One(inbox[h] # Nothing)
      BY <3>1 DEF One
    <3> QED BY <1>0, <2>0, <3>2, <3>3, Zenon
  <2>3. CASE NetworkReceive(h)
    <3>1. available[h] = 0 /\ inbox[h] \in Packet
      BY <1>0, <2>3 DEF NetworkReceive, One
    <3>2. 0 + One(inbox[h] = Awake) = One(Nothing # Nothing)
      BY <1>0, <3>1 DEF One
    <3>3. /\ available' = available
          /\ worker' = [worker EXCEPT ![h] = inbox[h]] /\ inbox' = [inbox EXCEPT ![h] = Nothing]
      BY <2>3 DEF NetworkReceive
    <3> QED BY <1>0, <2>0, <3>1, <3>2, <3>3, Zenon
  <2>4. CASE Put(h)
    <3>1. available[h] + One(Waiting = Awake) = One(inbox[h] # Nothing)
      BY <1>0, <2>4 DEF Put, One
    <3>2. /\ available' = available /\ worker' = [worker EXCEPT ![h] = Waiting]
          /\ inbox' = inbox
      BY <2>4 DEF Put
    <3>3. Waiting \in Packet \cup {Waiting, Awake}
      OBVIOUS
    <3>4. /\ available' = [available EXCEPT ![h] = available[h]]
          /\ inbox' = [inbox EXCEPT ![h] = inbox[h]]
      BY <2>0, <3>2
    <3>5. available[h] \in {0, 1} /\ inbox[h] \in Packet \cup {Nothing}
      BY <1>0
    <3> QED BY <3>1, <3>2, <3>3, <3>4, <3>5, Zenon
  <2> QED BY <2>1, <2>2, <2>3, <2>4
<1>3. BufferAnnounced'
  BY <1>0, <1>2 DEF BufferAnnounced, TypeOK
<1>4. wire' \in [Host -> Seq(Packet)] /\ boxes' \in [Host -> [Box -> Seq(Packet)]]
  <2>1. CASE NetworkCallBack(h)
    <3>1. wire[h] \in Seq(Packet) /\ wire[h] # <<>>
      BY <1>0, <2>1 DEF TypeOK, NetworkCallBack, TakeFromSocket
    <3>2. Tail(wire[h]) \in Seq(Packet)
      BY <3>1
    <3> QED BY <1>0, <2>1, <3>2 DEF NetworkCallBack, TakeFromSocket, TypeOK
  <2>2. CASE Put(h)
    <3> DEFINE b == worker[h].box
               q == Append(boxes[h][b], worker[h])
    <3>1. worker[h] \in Packet /\ b \in Box
      BY <1>0, <2>2 DEF Put, Packet
    <3>2. q \in Seq(Packet)
      BY <1>0, <3>1 DEF TypeOK
    <3>3. boxes' = [boxes EXCEPT ![h] = [boxes[h] EXCEPT ![b] = q]] /\ wire' = wire
      BY <2>2 DEF Put
    <3> HIDE DEF b, q
    <3>4. [boxes[h] EXCEPT ![b] = q] \in [Box -> Seq(Packet)]
      BY <1>0, <3>1, <3>2 DEF TypeOK
    <3> QED BY <1>0, <3>3, <3>4 DEF TypeOK
  <2>3. CASE WorkerWakes(h) \/ NetworkReceive(h)
    BY <1>0, <2>3 DEF WorkerWakes, NetworkReceive, TypeOK
  <2> QED BY <2>1, <2>2, <2>3
<1>5. TypeOK'
  <2>1. UNCHANGED <<power, output, thread>>
    BY DEF NetworkCallBack, TakeFromSocket, WorkerWakes, NetworkReceive, Put
  <2>2. /\ available' \in [Host -> {0, 1}] /\ inbox' \in [Host -> Packet \cup {Nothing}]
        /\ worker' \in [Host -> Packet \cup {Waiting, Awake}]
    BY <1>0, <1>2 DEF TypeOK
  <2> QED BY <1>0, <1>4, <2>1, <2>2 DEF TypeOK, output, thread
<1> QED BY <1>1, <1>3, <1>5 DEF Control

-----------------------------------------------------------------------------
(* The mail *)

Mail == Places /\ Retried /\ Kept

\* Steps that move no packet.
LEMMA MailSame ==
  ASSUME Mail, UNCHANGED <<wire, boxes, inbox, received, numbered, retry, lost, unsent>>,
         \A h \in Host : Held(worker'[h]) = Held(worker[h])
  PROVE  Mail'
<1>1. \A h \in Host, b \in Box : All(h, b)' = All(h, b) /\ (Ordered(h, b)' <=> Ordered(h, b))
  BY DEF All, Unread, Unsorted, Arriving, Ordered
<1>2. Places'
  BY <1>1 DEF Mail, Places
<1>3. Retried'
  BY DEF Mail, Retried
<1>4. Kept'
  BY <1>1 DEF Mail, Kept
<1> QED BY <1>2, <1>3, <1>4 DEF Mail

\* Steps that move a packet from one place to the next.
LEMMA Moved ==
  ASSUME Mail, UNCHANGED <<numbered, retry, lost, unsent>>,
         \A h \in Host, b \in Box :
           /\ Ordered(h, b)'
           /\ \A pkt \in Range(boxes'[h][b]) : pkt.box = b
           /\ \A pkt \in All(h, b)' : \E c \in Box : pkt \in All(h, c)
           /\ \A pkt \in All(h, b) : pkt.box = b => pkt \in All(h, b)'
  PROVE  Mail'
<1>1. Places'
  <2> SUFFICES ASSUME NEW h \in Host, NEW b \in Box, NEW pkt \in All(h, b)'
               PROVE  /\ pkt.n <= numbered'[pkt.from]
                      /\ retry'[pkt.from] # Nothing => pkt.n < numbered'[pkt.from]
    BY DEF Places
  <2>1. PICK c \in Box : pkt \in All(h, c)
    OBVIOUS
  <2> QED BY <2>1 DEF Mail, Places
<1>2. Retried'
  BY DEF Mail, Retried
<1>3. Kept'
  <2> SUFFICES ASSUME NEW m \in Host, NEW n \in 1 .. numbered[m]
               PROVE  \/ \E pkt \in lost \union unsent : pkt.from = m /\ pkt.n = n
                      \/ retry[m] # Nothing /\ retry[m].pkt.n = n
                      \/ \E h \in Host, b \in Box : \E pkt \in All(h, b)' :
                           pkt.from = m /\ pkt.n = n /\ pkt.box = b
    BY DEF Kept
  <2>1. CASE \E h \in Host, b \in Box : \E pkt \in All(h, b) :
               pkt.from = m /\ pkt.n = n /\ pkt.box = b
    BY <2>1
  <2> QED BY <2>1 DEF Mail, Kept
<1> QED BY <1>1, <1>2, <1>3 DEF Mail

\* Every packet that is on its way, or was received, is a packet.
LEMMA AllPackets ==
  ASSUME TypeOK, NEW h \in Host, NEW b \in Box
  PROVE  All(h, b) \subseteq Packet
<1>1. /\ wire[h] \in Seq(Packet) /\ boxes[h][b] \in Seq(Packet) /\ received[h] \in Seq(Packet)
      /\ inbox[h] \in Packet \cup {Nothing} /\ worker[h] \in Packet \cup {Waiting, Awake}
  BY DEF TypeOK
<1>2. Held(inbox[h]) \subseteq Packet /\ Held(worker[h]) \subseteq Packet
  BY <1>1 DEF Held
<1>3. /\ Range(wire[h]) \subseteq Packet /\ Range(boxes[h][b]) \subseteq Packet
      /\ Range(received[h]) \subseteq Packet
  BY <1>1, RangeIndex
<1> QED BY <1>2, <1>3 DEF All, Unread, Unsorted, Arriving

LEMMA HeldPacket ==
  ASSUME NEW x \in Packet
  PROVE  Held(x) = {x}
BY NoPacket DEF Held

LEMMA HeldNone == Held(Nothing) = {} /\ Held(Waiting) = {} /\ Held(Awake) = {}
BY DEF Held

\* NetworkInput::CallBack: from the socket into the device.
LEMMA CallBackMail ==
  ASSUME TypeOK, Mail, NEW h \in Host, NetworkCallBack(h)
  PROVE  Mail'
<1> DEFINE x == Head(wire[h])
<1>1. wire[h] \in Seq(Packet) /\ wire[h] # <<>> /\ inbox[h] = Nothing
  BY DEF TypeOK, NetworkCallBack, TakeFromSocket
<1>2. /\ x \in Packet /\ Tail(wire[h]) \in Seq(Packet)
      /\ Range(wire[h]) = {x} \cup Range(Tail(wire[h]))
  BY <1>1, RangeTail
<1>3. /\ wire'[h] = Tail(wire[h]) /\ inbox'[h] = x
      /\ \A g \in Host \ {h} : wire'[g] = wire[g] /\ inbox'[g] = inbox[g]
      /\ UNCHANGED <<worker, boxes, received, numbered, retry, lost, unsent>>
  BY DEF TypeOK, NetworkCallBack, TakeFromSocket, output, thread
<1> HIDE DEF x
<1>4. Held(inbox[h]) = {} /\ Held(inbox'[h]) = {x}
  BY <1>1, <1>2, <1>3, HeldPacket, HeldNone
<1>5. \A g \in Host : Arriving(g)' = Arriving(g)
  BY <1>2, <1>3, <1>4 DEF Arriving
<1>6. \A g \in Host, b \in Box : /\ Unsorted(g)' = Unsorted(g) /\ Unread(g, b)' = Unread(g, b)
                                 /\ All(g, b)' = All(g, b)
  BY <1>3, <1>5 DEF Unsorted, Unread, All
<1>7. ASSUME NEW g \in Host, NEW b \in Box
      PROVE  Ordered(g, b)' /\ \A pkt \in Range(boxes'[g][b]) : pkt.box = b
  <2>1. Ordered(g, b) /\ \A pkt \in Range(boxes[g][b]) : pkt.box = b
    BY DEF Mail, Places
  <2>2. Sorted(wire'[g], b) /\ Older(Held(inbox'[g]), Range(wire'[g]), b)
    <3>1. CASE g = h
      <4>1. Sorted(wire[h], b)
        BY <2>1, <3>1 DEF Ordered
      <4>2. Sorted(Tail(wire[h]), b) /\ Older({x}, Range(Tail(wire[h])), b)
        BY <1>1, <4>1, SortedTail DEF x
      <4> QED BY <1>3, <1>4, <3>1, <4>2
    <3>2. CASE g # h
      BY <1>3, <2>1, <3>2 DEF Ordered
    <3> QED BY <3>1, <3>2
  <2> QED BY <1>3, <1>5, <1>6, <2>1, <2>2 DEF Ordered
<1> QED BY <1>3, <1>6, <1>7, Moved

\* NetworkInput::Receive: from the device to the worker.
LEMMA ReceiveMail ==
  ASSUME TypeOK, BufferAnnounced, Mail, NEW h \in Host, NetworkReceive(h)
  PROVE  Mail'
<1>1. worker[h] = Awake /\ inbox[h] \in Packet
  <2>1. /\ available[h] + One(worker[h] = Awake) = One(inbox[h] # Nothing)
        /\ available[h] \in {0, 1} /\ inbox[h] \in Packet \cup {Nothing} /\ worker[h] = Awake
    BY DEF BufferAnnounced, TypeOK, NetworkReceive
  <2> QED BY <2>1 DEF One
<1>2. /\ worker'[h] = inbox[h] /\ inbox'[h] = Nothing
      /\ \A g \in Host \ {h} : worker'[g] = worker[g] /\ inbox'[g] = inbox[g]
      /\ UNCHANGED <<wire, boxes, received, numbered, retry, lost, unsent>>
  BY DEF TypeOK, NetworkReceive, output, thread
<1>3. /\ Held(inbox[h]) = {inbox[h]} /\ Held(worker[h]) = {}
      /\ Held(worker'[h]) = {inbox[h]} /\ Held(inbox'[h]) = {}
  BY <1>1, <1>2, HeldPacket, HeldNone
<1>4. \A g \in Host : Unsorted(g)' = Unsorted(g)
  BY <1>2, <1>3 DEF Unsorted, Arriving
<1>5. \A g \in Host, b \in Box : Unread(g, b)' = Unread(g, b) /\ All(g, b)' = All(g, b)
  BY <1>2, <1>4 DEF Unread, All
<1>6. ASSUME NEW g \in Host, NEW b \in Box
      PROVE  Ordered(g, b)' /\ \A pkt \in Range(boxes'[g][b]) : pkt.box = b
  <2>1. Ordered(g, b) /\ \A pkt \in Range(boxes[g][b]) : pkt.box = b
    BY DEF Mail, Places
  <2>2. Older(Held(worker'[g]), Arriving(g)', b) /\ Older(Held(inbox'[g]), Range(wire'[g]), b)
    <3>1. CASE g = h
      <4>1. Arriving(h)' = Range(wire[h]) /\ Older({inbox[h]}, Range(wire[h]), b)
        BY <1>2, <1>3, <2>1, <3>1 DEF Arriving, Ordered
      <4> QED BY <1>3, <3>1, <4>1 DEF Older
    <3>2. CASE g # h
      BY <1>2, <2>1, <3>2, Zenon DEF Ordered, Arriving
    <3> QED BY <3>1, <3>2
  <2> QED BY <1>2, <1>4, <1>5, <2>1, <2>2 DEF Ordered
<1> QED BY <1>2, <1>5, <1>6, Moved

\* MailBox::Put: from the worker into the mailbox the packet is for.
LEMMA PutMail ==
  ASSUME TypeOK, Mail, NEW h \in Host, Put(h)
  PROVE  Mail'
<1>0. PICK w, c, q : w = worker[h] /\ c = w.box /\ q = boxes[h][c]
  OBVIOUS
<1>1. w \in Packet /\ c \in Box
  BY <1>0 DEF TypeOK, Put, Packet
<1>2. /\ worker'[h] = Waiting /\ boxes'[h][c] = Append(q, w)
      /\ \A b \in Box \ {c} : boxes'[h][b] = boxes[h][b]
      /\ \A g \in Host \ {h} : worker'[g] = worker[g] /\ boxes'[g] = boxes[g]
      /\ UNCHANGED <<wire, inbox, received, numbered, retry, lost, unsent>>
  BY <1>0, <1>1 DEF TypeOK, Put, output, thread
<1>3. q \in Seq(Packet)
  BY <1>0, <1>1 DEF TypeOK
<1>4. Range(boxes'[h][c]) = Range(q) \cup {w}
  BY <1>1, <1>2, <1>3, RangeAppend
<1>5. Held(worker[h]) = {w} /\ Held(worker'[h]) = {}
  BY <1>0, <1>1, <1>2, HeldPacket, HeldNone
<1>6. \A g \in Host : Arriving(g)' = Arriving(g)
  BY <1>2 DEF Arriving
<1>7. Unsorted(h)' = Arriving(h) /\ Unsorted(h) = {w} \cup Arriving(h)
  BY <1>5, <1>6 DEF Unsorted
<1>8. \A g \in Host \ {h}, b \in Box :
        Unsorted(g)' = Unsorted(g) /\ Unread(g, b)' = Unread(g, b) /\ All(g, b)' = All(g, b)
  BY <1>2, <1>6 DEF Unsorted, Unread, All
<1>9. Unread(h, c)' = Unread(h, c) /\ All(h, c)' = All(h, c)
  <2>1. /\ Unread(h, c)' = Range(boxes'[h][c]) \cup Unsorted(h)'
        /\ Unread(h, c) = Range(q) \cup Unsorted(h)
    BY <1>0 DEF Unread
  <2>2. Unread(h, c)' = Unread(h, c)
    BY <1>4, <1>7, <2>1
  <2> QED BY <1>2, <2>2 DEF All
<1>10. \A b \in Box \ {c} :
         Unread(h, b) = Unread(h, b)' \cup {w} /\ All(h, b) = All(h, b)' \cup {w}
  BY <1>2, <1>7 DEF Unread, All
<1>11. ASSUME NEW g \in Host, NEW b \in Box
       PROVE  Ordered(g, b)' /\ \A pkt \in Range(boxes'[g][b]) : pkt.box = b
  <2>1. Ordered(g, b) /\ \A pkt \in Range(boxes[g][b]) : pkt.box = b
    BY DEF Mail, Places
  <2>2. CASE g # h
    BY <1>2, <1>6, <1>8, <2>1, <2>2 DEF Ordered
  <2>3. CASE g = h /\ b = c
    <3>1. /\ Sorted(q, b) /\ Older(Range(q), {w} \cup Arriving(h), b) /\ Older({w}, Arriving(h), b)
      BY <1>0, <1>5, <1>7, <2>1, <2>3, Zenon DEF Ordered
    <3>2. Sorted(boxes'[h][b], b)
      <4>1. Older(Range(q), {w}, b)
        BY <3>1 DEF Older
      <4> QED BY <1>1, <1>2, <1>3, <2>3, <3>1, <4>1, SortedAppend, Zenon
    <3>3. Older(Range(boxes'[h][b]), Unsorted(h)', b)
      BY <1>4, <1>7, <2>3, <3>1 DEF Older
    <3>4. Older(Held(worker'[h]), Arriving(h)', b)
      BY <1>5 DEF Older
    <3>5. \A pkt \in Range(boxes'[h][b]) : pkt.box = b
      BY <1>0, <1>4, <2>1, <2>3
    <3> QED BY <1>2, <1>9, <2>1, <2>3, <3>2, <3>3, <3>4, <3>5 DEF Ordered
  <2>4. CASE g = h /\ b # c
    <3>1. Older(Range(received[h]), Unread(h, b)', b)
      BY <1>10, <2>1, <2>4 DEF Ordered, Older
    <3>2. Older(Range(boxes[h][b]), Unsorted(h)', b)
      BY <1>7, <2>1, <2>4 DEF Ordered, Older
    <3>3. Older(Held(worker'[h]), Arriving(h)', b)
      BY <1>5 DEF Older
    <3> QED BY <1>2, <2>1, <2>4, <3>1, <3>2, <3>3 DEF Ordered
  <2> QED BY <2>2, <2>3, <2>4
<1>12. ASSUME NEW g \in Host, NEW b \in Box
       PROVE  /\ \A pkt \in All(g, b)' : pkt \in All(g, b)
              /\ \A pkt \in All(g, b) : pkt.box = b => pkt \in All(g, b)'
  <2>1. CASE g # h \/ b = c
    BY <1>8, <1>9, <2>1
  <2>2. CASE g = h /\ b # c
    BY <1>0, <1>10, <2>2
  <2> QED BY <2>1, <2>2
<1> QED BY <1>2, <1>11, <1>12, Moved

\* MailBox::Get: from the mailbox to a thread.
LEMMA GetMail ==
  ASSUME TypeOK, Senders, Mail, NEW t \in Thread, Get(t)
  PROVE  Mail'
<1>0. PICK h, a, q, x : h = Home[t] /\ a = arg[t] /\ q = boxes[h][a] /\ x = Head(q)
  OBVIOUS
<1>1. h \in Host /\ a \in Box
  BY <1>0, PostAssumption DEF Senders, SenderOK, Get
<1>2. q \in Seq(Packet) /\ q # <<>> /\ received[h] \in Seq(Packet)
  BY <1>0, <1>1 DEF TypeOK, Get
<1>3. x \in Packet /\ Tail(q) \in Seq(Packet) /\ Range(q) = {x} \cup Range(Tail(q))
  BY <1>0, <1>2, RangeTail
<1>4. /\ boxes'[h][a] = Tail(q) /\ received'[h] = Append(received[h], x)
      /\ \A b \in Box \ {a} : boxes'[h][b] = boxes[h][b]
      /\ \A g \in Host \ {h} : boxes'[g] = boxes[g] /\ received'[g] = received[g]
      /\ UNCHANGED <<wire, inbox, worker, numbered, retry, lost, unsent>>
  BY <1>0, <1>1 DEF TypeOK, Get, device, output
<1>5. Range(received'[h]) = Range(received[h]) \cup {x}
  BY <1>2, <1>3, <1>4, RangeAppend
<1>6. x.box = a
  BY <1>0, <1>1, <1>3 DEF Mail, Places
<1>7. \A g \in Host : Arriving(g)' = Arriving(g) /\ Unsorted(g)' = Unsorted(g)
  BY <1>4 DEF Arriving, Unsorted
<1>8. \A g \in Host \ {h}, b \in Box : Unread(g, b)' = Unread(g, b) /\ All(g, b)' = All(g, b)
  BY <1>4, <1>7 DEF Unread, All
<1>9. /\ Unread(h, a) = Unread(h, a)' \cup {x} /\ All(h, a)' = All(h, a)
      /\ Unread(h, a)' = Range(Tail(q)) \cup Unsorted(h) /\ Unread(h, a) = Range(q) \cup Unsorted(h)
  <2>1. /\ Unread(h, a)' = Range(Tail(q)) \cup Unsorted(h)
        /\ Unread(h, a) = Range(q) \cup Unsorted(h)
    BY <1>0, <1>1, <1>4, <1>7, Zenon DEF Unread
  <2>2. Unread(h, a) = Unread(h, a)' \cup {x}
    BY <1>3, <2>1
  <2>3. /\ All(h, a)' = Range(received'[h]) \cup Unread(h, a)'
        /\ All(h, a) = Range(received[h]) \cup Unread(h, a)
    BY DEF All
  <2>4. All(h, a)' = All(h, a)
    BY <1>5, <2>2, <2>3
  <2> QED BY <2>1, <2>2, <2>4
<1>10. \A b \in Box \ {a} : Unread(h, b)' = Unread(h, b) /\ All(h, b)' = All(h, b) \cup {x}
  BY <1>1, <1>4, <1>5, <1>7 DEF Unread, All
<1>11. ASSUME NEW g \in Host, NEW b \in Box
       PROVE  Ordered(g, b)' /\ \A pkt \in Range(boxes'[g][b]) : pkt.box = b
  <2>1. Ordered(g, b) /\ \A pkt \in Range(boxes[g][b]) : pkt.box = b
    BY DEF Mail, Places
  <2>2. CASE g # h
    BY <1>4, <1>7, <1>8, <2>1, <2>2, Zenon DEF Ordered
  <2>3. CASE g = h /\ b = a
    <3>1. /\ Sorted(q, b) /\ Sorted(received[h], b) /\ Older(Range(q), Unsorted(h), b)
          /\ Older(Range(received[h]), Range(q) \cup Unsorted(h), b)
      BY <1>0, <1>9, <2>1, <2>3, Zenon DEF Ordered
    <3>2. Sorted(Tail(q), b) /\ Older({x}, Range(Tail(q)), b)
      BY <1>0, <1>2, <3>1, SortedTail, Zenon
    <3>3. Older(Range(received[h]), {x}, b)
      BY <1>3, <3>1 DEF Older
    <3>4. Sorted(received'[h], b)
      BY <1>2, <1>3, <1>4, <3>1, <3>3, SortedAppend
    <3>5. Older(Range(received'[h]), Unread(h, b)', b)
      BY <1>3, <1>5, <1>9, <2>3, <3>1, <3>2 DEF Older
    <3>6. Older(Range(boxes'[h][b]), Unsorted(h)', b)
      BY <1>3, <1>4, <1>7, <2>3, <3>1, Zenon DEF Older
    <3>7. \A pkt \in Range(boxes'[g][b]) : pkt.box = b
      BY <1>0, <1>3, <1>4, <2>1, <2>3, Zenon
    <3> QED BY <1>4, <1>7, <2>1, <2>3, <3>2, <3>4, <3>5, <3>6, <3>7, Zenon DEF Ordered
  <2>4. CASE g = h /\ b # a
    <3>1. Older(Range(received[h]), {x}, b) /\ Older({x}, Unread(h, b), b)
      BY <1>6, <2>4 DEF Older
    <3>2. Sorted(received'[h], b)
      BY <1>2, <1>3, <1>4, <2>1, <2>4, <3>1, SortedAppend DEF Ordered
    <3>3. Older(Range(received'[h]), Unread(h, b)', b)
      BY <1>5, <1>10, <2>1, <2>4, <3>1 DEF Ordered, Older
    <3> QED BY <1>4, <1>7, <2>1, <2>4, <3>2, <3>3, Zenon DEF Ordered
  <2> QED BY <2>2, <2>3, <2>4
<1>12. ASSUME NEW g \in Host, NEW b \in Box
       PROVE  /\ \A pkt \in All(g, b)' : \E c \in Box : pkt \in All(g, c)
              /\ \A pkt \in All(g, b) : pkt.box = b => pkt \in All(g, b)'
  <2>1. CASE g # h \/ b = a
    BY <1>8, <1>9, <2>1
  <2>2. CASE g = h /\ b # a
    <3>1. x \in All(h, a)
      BY <1>9 DEF All
    <3> QED BY <1>1, <1>10, <2>2, <3>1
  <2> QED BY <2>1, <2>2
<1> QED BY <1>4, <1>11, <1>12, Moved

\* NetworkOutput::Send: the packet gets the next number of its machine, and is
\* lost or goes to SendToSocket.
LEMMA SendMail ==
  ASSUME TypeOK, Senders, Mail, NEW t \in Thread, NetworkSend(t)
  PROVE  Mail'
<1>0. PICK h, pkt, first : /\ h = Home[t] /\ pkt = [arg[t] EXCEPT !.n = numbered[h] + 1]
                           /\ first = [pkt |-> pkt, left |-> Retries]
  BY Zenon
<1>1. /\ h \in Host /\ numbered[h] \in Nat /\ retry[h] = Nothing
      /\ arg[t] \in Packet /\ arg[t].from = h
  BY <1>0, PostAssumption, Zenon DEF TypeOK, Senders, SenderOK, NetworkSend, Running
<1>2. pkt \in Packet /\ pkt.from = h /\ pkt.n = numbered[h] + 1
  BY <1>0, <1>1 DEF Packet
<1>3. first \in Attempt /\ first.pkt = pkt
  BY <1>0, <1>2, PostAssumption DEF Attempt
<1>4. /\ numbered'[h] = numbered[h] + 1 /\ \A g \in Host \ {h} : numbered'[g] = numbered[g]
      /\ \/ lost' = lost \cup {pkt} /\ retry' = retry
         \/ /\ lost' = lost /\ retry'[h] = first
            /\ \A g \in Host \ {h} : retry'[g] = retry[g]
      /\ UNCHANGED <<wire, boxes, inbox, worker, unsent, received>>
  BY <1>0, <1>1 DEF TypeOK, NetworkSend, device
<1>5. \A g \in Host, b \in Box : All(g, b)' = All(g, b) /\ (Ordered(g, b)' <=> Ordered(g, b))
  BY <1>4 DEF All, Unread, Unsorted, Arriving, Ordered
<1>6. Places'
  <2> SUFFICES ASSUME NEW g \in Host, NEW b \in Box, NEW y \in All(g, b)
               PROVE  /\ y.n <= numbered'[y.from]
                      /\ retry'[y.from] # Nothing => y.n < numbered'[y.from]
    BY <1>4, <1>5 DEF Mail, Places
  <2>1. /\ y \in Packet /\ y.n <= numbered[y.from]
        /\ retry[y.from] # Nothing => y.n < numbered[y.from]
    BY AllPackets DEF Mail, Places
  <2>2. y.from \in Host /\ y.n \in Nat
    BY <2>1 DEF Packet
  <2>3. CASE y.from = h
    BY <1>1, <1>4, <2>1, <2>2, <2>3
  <2>4. CASE y.from # h
    BY <1>4, <2>1, <2>2, <2>4
  <2> QED BY <2>3, <2>4
<1>7. Retried'
  <2> SUFFICES ASSUME NEW m \in Host, retry'[m] # Nothing
               PROVE  retry'[m].pkt.from = m /\ retry'[m].pkt.n = numbered'[m]
    BY DEF Retried
  <2>1. CASE m = h
    BY <1>1, <1>2, <1>3, <1>4, <2>1
  <2>2. CASE m # h
    BY <1>4, <2>2 DEF Mail, Retried
  <2> QED BY <2>1, <2>2
<1>8. Kept'
  <2> SUFFICES ASSUME NEW m \in Host, NEW n \in 1 .. numbered'[m]
               PROVE  \/ \E y \in lost' \union unsent' : y.from = m /\ y.n = n
                      \/ retry'[m] # Nothing /\ retry'[m].pkt.n = n
                      \/ \E g \in Host, b \in Box : \E y \in All(g, b)' :
                           y.from = m /\ y.n = n /\ y.box = b
    BY DEF Kept
  <2>1. CASE m = h /\ n = numbered[h] + 1
    <3>1. CASE lost' = lost \cup {pkt}
      BY <1>2, <2>1, <3>1
    <3>2. CASE retry'[h] = first
      <4>1. first # Nothing
        BY <1>3, NoPacket
      <4> QED BY <1>2, <1>3, <2>1, <3>2, <4>1
    <3> QED BY <1>4, <3>1, <3>2
  <2>2. CASE ~(m = h /\ n = numbered[h] + 1)
    <3>1. n \in 1 .. numbered[m]
      BY <1>1, <1>4, <2>2
    <3>2. \/ \E y \in lost \union unsent : y.from = m /\ y.n = n
          \/ retry[m] # Nothing /\ retry[m].pkt.n = n
          \/ \E g \in Host, b \in Box : \E y \in All(g, b) :
               y.from = m /\ y.n = n /\ y.box = b
      BY <3>1 DEF Mail, Kept
    <3>3. lost \subseteq lost' /\ unsent' = unsent
      BY <1>4
    <3>4. retry[m] # Nothing => retry'[m] = retry[m]
      BY <1>1, <1>4
    <3> QED BY <1>5, <3>2, <3>3, <3>4
  <2> QED BY <2>1, <2>2
<1> QED BY <1>6, <1>7, <1>8 DEF Mail

\* SendToSocket: the packet is the newest of its machine wherever it gets.
LEMMA SocketMail ==
  ASSUME TypeOK, Mail, NEW h \in Host, SendToSocket(h)
  PROVE  Mail'
<1>0. PICK pkt, d : pkt = retry[h].pkt /\ d = pkt.to
  OBVIOUS
<1>1. retry[h] \in Attempt /\ retry[h] # Nothing
  BY DEF TypeOK, SendToSocket
<1>2. pkt \in Packet /\ d \in Host /\ pkt.from = h /\ pkt.n = numbered[h] /\ pkt.box \in Box
  BY <1>0, <1>1 DEF Attempt, Packet, Mail, Retried
<1>3. /\ UNCHANGED <<boxes, inbox, worker, numbered, lost, received>>
      /\ \A g \in Host \ {h} : retry'[g] = retry[g]
      /\ \/ /\ wire' = [wire EXCEPT ![d] = Append(wire[d], pkt)]
            /\ retry'[h] = Nothing /\ unsent' = unsent
         \/ /\ retry[h].left > 1
            /\ retry'[h] = [retry[h] EXCEPT !.left = retry[h].left - 1]
            /\ wire' = wire /\ unsent' = unsent
         \/ /\ unsent' = unsent \cup {pkt} /\ retry'[h] = Nothing /\ wire' = wire
  BY <1>0, Zenon DEF TypeOK, SendToSocket, device, thread
<1>4. \A g \in Host, b \in Box : \A y \in All(g, b) :
        y.n <= numbered[y.from] /\ (retry[y.from] # Nothing => y.n < numbered[y.from])
  BY DEF Mail, Places
<1>5. \A g \in Host, b \in Box : All(g, b) \subseteq Packet
  BY AllPackets
<1>6. \A g \in Host, b \in Box : Older(All(g, b), {pkt}, b)
  BY <1>1, <1>2, <1>4 DEF Older
<1>7. CASE /\ wire' = [wire EXCEPT ![d] = Append(wire[d], pkt)]
           /\ retry'[h] = Nothing /\ unsent' = unsent
  <2>1. /\ wire[d] \in Seq(Packet) /\ wire'[d] = Append(wire[d], pkt)
        /\ \A g \in Host \ {d} : wire'[g] = wire[g]
    BY <1>2, <1>7 DEF TypeOK
  <2>2. Range(wire'[d]) = Range(wire[d]) \cup {pkt}
    BY <1>2, <2>1, RangeAppend
  <2>3. Arriving(d)' = Arriving(d) \cup {pkt} /\ Unsorted(d)' = Unsorted(d) \cup {pkt}
    BY <1>3, <2>2 DEF Arriving, Unsorted
  <2>4. \A b \in Box : /\ Unread(d, b)' = Unread(d, b) \cup {pkt}
                       /\ All(d, b)' = All(d, b) \cup {pkt}
    BY <1>3, <2>3 DEF Unread, All
  <2>5. \A g \in Host \ {d} : Arriving(g)' = Arriving(g) /\ Unsorted(g)' = Unsorted(g)
    BY <1>3, <2>1 DEF Arriving, Unsorted
  <2>6. \A g \in Host \ {d}, b \in Box : Unread(g, b)' = Unread(g, b) /\ All(g, b)' = All(g, b)
    BY <1>3, <2>5 DEF Unread, All
  <2>7. ASSUME NEW g \in Host, NEW b \in Box
        PROVE  Ordered(g, b)'
    <3>1. Ordered(g, b)
      BY DEF Mail, Places
    <3>2. CASE g # d
      BY <1>3, <2>1, <2>5, <2>6, <3>1, <3>2 DEF Ordered
    <3>3. CASE g = d
      <4>1. /\ Older(Range(received[d]), {pkt}, b) /\ Older(Range(boxes[d][b]), {pkt}, b)
            /\ Older(Held(worker[d]), {pkt}, b) /\ Older(Held(inbox[d]), {pkt}, b)
            /\ Older(Range(wire[d]), {pkt}, b)
        BY <1>2, <1>6 DEF Older, All, Unread, Unsorted, Arriving
      <4>2. Sorted(wire'[d], b)
        BY <1>2, <2>1, <3>1, <3>3, <4>1, SortedAppend DEF Ordered
      <4>3. Older(Range(received[d]), Unread(d, b)', b)
        BY <2>4, <3>1, <3>3, <4>1 DEF Ordered, Older
      <4>4. Older(Range(boxes[d][b]), Unsorted(d)', b)
        BY <2>3, <3>1, <3>3, <4>1 DEF Ordered, Older
      <4>5. Older(Held(worker[d]), Arriving(d)', b)
        BY <2>3, <3>1, <3>3, <4>1 DEF Ordered, Older
      <4>6. Older(Held(inbox[d]), Range(wire'[d]), b)
        BY <2>2, <3>1, <3>3, <4>1 DEF Ordered, Older
      <4> QED BY <1>3, <3>1, <3>3, <4>2, <4>3, <4>4, <4>5, <4>6 DEF Ordered
    <3> QED BY <3>2, <3>3
  <2>8. Places'
    <3> SUFFICES ASSUME NEW g \in Host, NEW b \in Box, NEW y \in All(g, b)'
                 PROVE  /\ y.n <= numbered[y.from]
                        /\ retry'[y.from] # Nothing => y.n < numbered[y.from]
      BY <1>3, <2>7 DEF Mail, Places
    <3>1. CASE y = pkt
      BY <1>2, <1>7, <3>1 DEF TypeOK
    <3>2. CASE y \in All(g, b)
      <4>1. y.from \in Host
        BY <1>5, <3>2 DEF Packet
      <4> QED BY <1>3, <1>4, <1>7, <3>2, <4>1
    <3> QED BY <2>4, <2>6, <3>1, <3>2
  <2>9. Retried'
    BY <1>3, <1>7 DEF Mail, Retried
  <2>10. Kept'
    <3> SUFFICES ASSUME NEW m \in Host, NEW n \in 1 .. numbered[m]
                 PROVE  \/ \E y \in lost \union unsent : y.from = m /\ y.n = n
                        \/ retry'[m] # Nothing /\ retry'[m].pkt.n = n
                        \/ \E g \in Host, b \in Box : \E y \in All(g, b)' :
                             y.from = m /\ y.n = n /\ y.box = b
      BY <1>3, <1>7 DEF Kept
    <3>1. \/ \E y \in lost \union unsent : y.from = m /\ y.n = n
          \/ retry[m] # Nothing /\ retry[m].pkt.n = n
          \/ \E g \in Host, b \in Box : \E y \in All(g, b) :
               y.from = m /\ y.n = n /\ y.box = b
      BY DEF Mail, Kept
    <3>2. \A g \in Host, b \in Box : All(g, b) \subseteq All(g, b)'
      BY <2>4, <2>6
    <3>3. CASE m = h /\ retry[m].pkt.n = n
      <4>1. pkt \in All(d, pkt.box)'
        BY <1>2, <2>4
      <4> QED BY <1>0, <1>2, <3>3, <4>1
    <3> QED BY <1>3, <3>1, <3>2, <3>3
  <2> QED BY <2>8, <2>9, <2>10 DEF Mail
<1>8. CASE /\ wire' = wire
           /\ \/ retry'[h] = Nothing /\ unsent' = unsent \cup {pkt}
              \/ retry'[h] \in Attempt /\ retry'[h].pkt = pkt /\ unsent' = unsent
  <2>1. \A g \in Host, b \in Box : All(g, b)' = All(g, b) /\ (Ordered(g, b)' <=> Ordered(g, b))
    BY <1>3, <1>8 DEF All, Unread, Unsorted, Arriving, Ordered
  <2>2. retry'[h] \in Attempt => retry'[h] # Nothing
    BY NoPacket
  <2>3. Places'
    <3> SUFFICES ASSUME NEW g \in Host, NEW b \in Box, NEW y \in All(g, b)
                 PROVE  /\ y.n <= numbered[y.from]
                        /\ retry'[y.from] # Nothing => y.n < numbered[y.from]
      BY <1>3, <2>1 DEF Mail, Places
    <3>1. y.from \in Host
      BY <1>5 DEF Packet
    <3> QED BY <1>1, <1>3, <1>4, <3>1
  <2>4. Retried'
    BY <1>2, <1>3, <1>8 DEF Mail, Retried
  <2>5. Kept'
    <3> SUFFICES ASSUME NEW m \in Host, NEW n \in 1 .. numbered[m]
                 PROVE  \/ \E y \in lost \union unsent' : y.from = m /\ y.n = n
                        \/ retry'[m] # Nothing /\ retry'[m].pkt.n = n
                        \/ \E g \in Host, b \in Box : \E y \in All(g, b) :
                             y.from = m /\ y.n = n /\ y.box = b
      BY <1>3, <2>1 DEF Kept
    <3>1. \/ \E y \in lost \union unsent : y.from = m /\ y.n = n
          \/ retry[m] # Nothing /\ retry[m].pkt.n = n
          \/ \E g \in Host, b \in Box : \E y \in All(g, b) :
               y.from = m /\ y.n = n /\ y.box = b
      BY DEF Mail, Kept
    <3>2. unsent \subseteq unsent'
      BY <1>8
    <3>3. CASE m = h /\ retry[m].pkt.n = n
      BY <1>0, <1>2, <1>8, <2>2, <3>3
    <3> QED BY <1>3, <3>1, <3>2, <3>3
  <2> QED BY <2>3, <2>4, <2>5 DEF Mail
<1>9. retry[h].left > 1 => LET again == [retry[h] EXCEPT !.left = retry[h].left - 1]
                           IN  again \in Attempt /\ again.pkt = pkt
  BY <1>0, <1>1, PostAssumption DEF Attempt
<1> QED BY <1>3, <1>7, <1>8, <1>9, Zenon

-----------------------------------------------------------------------------
(* The invariant holds at first, and every step keeps it *)

LEMMA InitPost ==
  ASSUME Init
  PROVE  PostIInv
<1> USE DEF Init, PostOfficeInput, PostOfficeOutput
<1>1. TypeOK
  <2>1. /\ wire \in [Host -> Seq(Packet)] /\ received \in [Host -> Seq(Packet)]
        /\ boxes \in [Host -> [Box -> Seq(Packet)]]
    OBVIOUS
  <2>2. calls \in [Thread -> 0 .. MaxCalls] /\ numbered \in [Host -> Nat]
    BY PostAssumption
  <2> QED BY <2>1, <2>2 DEF TypeOK
<1>0. \A h \in Host : /\ available[h] = 0 /\ worker[h] = Waiting /\ inbox[h] = Nothing
                      /\ holder[h] = Nothing /\ sending[h] = 0 /\ sent[h] = 0
  BY Zenon
<1>2. BufferAnnounced
  <2> HIDE DEF Init
  <2> SUFFICES ASSUME NEW h \in Host
               PROVE  available[h] + One(worker[h] = Awake) = One(inbox[h] # Nothing)
    BY DEF BufferAnnounced
  <2>1. One(worker[h] = Awake) = 0 /\ One(inbox[h] # Nothing) = 0
    BY <1>0, PostAssumption, Zenon DEF One
  <2> QED BY <1>0, <2>1
<1>3. Senders
  <2>1. \A t \in Thread : SenderOK(t)
    BY PostAssumption DEF SenderOK, InSend
  <2>2. \A h \in Host : LockOK(h)
    <3> HIDE DEF Init
    <3> TAKE h \in Host
    <3>1. One(holder[h] # Nothing /\ pc[holder[h]] = "sent") = 0
      BY <1>0, Zenon DEF One
    <3>2. sending[h] + sent[h] = 0
      BY <1>0
    <3> QED BY <1>0, <3>1, <3>2 DEF LockOK
  <2> QED BY <2>1, <2>2 DEF Senders
<1>4. Places
  <2>1. Range(<<>>) = {}
    BY DEF Range
  <2>2. \A h \in Host, b \in Box :
          /\ received[h] = <<>> /\ boxes[h][b] = <<>> /\ wire[h] = <<>>
          /\ Held(worker[h]) = {} /\ Held(inbox[h]) = {}
    BY HeldNone
  <2>3. \A h \in Host, b \in Box : All(h, b) = {}
    BY <2>1, <2>2 DEF All, Unread, Unsorted, Arriving
  <2>4. \A b \in Box : Sorted(<<>>, b)
    BY DEF Sorted
  <2>5. \A h \in Host, b \in Box : Ordered(h, b)
    BY <2>1, <2>2, <2>4 DEF Ordered, Older
  <2> QED BY <2>1, <2>2, <2>3, <2>5 DEF Places
<1>5. Retried /\ Kept
  BY DEF Retried, Kept
<1> QED BY <1>1, <1>2, <1>3, <1>4, <1>5 DEF PostIInv

\* Machines, and their postal workers, devices and sockets.
LEMMA HostStep ==
  ASSUME PostIInv, NEW h \in Host, Boot(h) \/ Halt(h) \/ Machine(h)
  PROVE  PostIInv'
<1>1. Control /\ Mail
  BY DEF PostIInv, Control, Mail
<1>2. Control'
  BY <1>1, NetworkControl, ArrivalControl DEF Machine, PostalDelivery
<1>3. TypeOK /\ BufferAnnounced
  BY <1>1 DEF Control
<1>4. CASE Boot(h) \/ Halt(h) \/ SentCallBack(h)
  <2>1. UNCHANGED <<wire, boxes, inbox, received, numbered, retry, lost, unsent, worker>>
    BY <1>4 DEF Boot, Halt, SentCallBack, device, output, thread
  <2>2. Mail'
    BY <1>1, <2>1, MailSame
  <2> QED BY <1>2, <2>2 DEF PostIInv, Control, Mail
<1>5. CASE WorkerWakes(h)
  <2>1. UNCHANGED <<wire, boxes, inbox, received, numbered, retry, lost, unsent>>
    BY <1>5 DEF WorkerWakes, output, thread
  <2>2. \A g \in Host : Held(worker'[g]) = Held(worker[g])
    <3>1. worker[h] = Waiting /\ worker'[h] = Awake /\ \A g \in Host \ {h} : worker'[g] = worker[g]
      BY <1>3, <1>5 DEF WorkerWakes, TypeOK
    <3> QED BY <3>1, HeldNone
  <2>3. Mail'
    BY <1>1, <2>1, <2>2, MailSame
  <2> QED BY <1>2, <2>3 DEF PostIInv, Control, Mail
<1>6. CASE NetworkCallBack(h) \/ NetworkReceive(h) \/ Put(h) \/ SendToSocket(h)
  <2>1. Mail'
    BY <1>1, <1>3, <1>6, CallBackMail, ReceiveMail, PutMail, SocketMail
  <2> QED BY <1>2, <2>1 DEF PostIInv, Control, Mail
<1> QED BY <1>4, <1>5, <1>6 DEF Machine, PostalDelivery

\* Threads that send and receive.
LEMMA ThreadsStep ==
  ASSUME PostIInv, NEW t \in Thread,
         \/ ThreadStep(t)
         \/ \E to \in Host, b \in Box : CallSend(t, to, b, b)
         \/ \E b \in Box : CallReceive(t, b)
  PROVE  PostIInv'
<1>1. Control /\ Mail
  BY DEF PostIInv, Control, Mail
<1>2. TypeOK /\ Senders
  BY <1>1 DEF Control
<1>3. Control'
  BY <1>1, CallControl, SendControl, GetControl DEF ThreadStep
<1>4. CASE \/ Acquire(t) \/ WaitSent(t) \/ Release(t)
           \/ \E to \in Host, b \in Box : CallSend(t, to, b, b)
           \/ \E b \in Box : CallReceive(t, b)
  <2>1. UNCHANGED <<wire, boxes, inbox, received, numbered, retry, lost, unsent, worker>>
    BY <1>4 DEF Acquire, WaitSent, Release, CallSend, CallReceive, device, output
  <2>2. Mail'
    BY <1>1, <2>1, MailSame
  <2> QED BY <1>3, <2>2 DEF PostIInv, Control, Mail
<1>5. CASE NetworkSend(t) \/ Get(t)
  <2>1. Mail'
    BY <1>1, <1>2, <1>5, SendMail, GetMail
  <2> QED BY <1>3, <2>1 DEF PostIInv, Control, Mail
<1> QED BY <1>4, <1>5 DEF ThreadStep

LEMMA StepPost ==
  ASSUME PostIInv, [Next]_vars
  PROVE  PostIInv'
<1>1. CASE \E h \in Host : Boot(h) \/ Halt(h) \/ Machine(h)
  BY <1>1, HostStep
<1>2. CASE \E t \in Thread : ThreadStep(t)
  BY <1>2, ThreadsStep
<1>3. CASE \/ \E t \in Sender, to \in Host, b \in Box : CallSend(t, to, b, b)
           \/ \E t \in Thread \ Sender, b \in Box : CallReceive(t, b)
  <2>1. Sender \subseteq Thread
    BY PostAssumption
  <2> QED BY <1>3, <2>1, ThreadsStep
<1>4. CASE UNCHANGED vars
  <2>1. UNCHANGED <<wire, boxes, inbox, received, numbered, retry, lost, unsent, worker>>
    BY <1>4 DEF vars, device, output, thread
  <2>2. Mail'
    BY <2>1, MailSame DEF PostIInv, Mail
  <2>3. TypeOK' /\ BufferAnnounced'
    BY <1>4 DEF PostIInv, TypeOK, BufferAnnounced, vars, device, output, thread
  <2>4. Senders'
    BY <1>4, SameSenders, Zenon DEF PostIInv, vars, output, thread
  <2> QED BY <2>2, <2>3, <2>4 DEF PostIInv, Mail
<1> QED BY <1>1, <1>2, <1>3, <1>4 DEF Next

\* The sender that waits for the network is the one that has the lock.
LEMMA InFlight ==
  ASSUME PostIInv
  PROVE  OneInFlight
<1> SUFFICES ASSUME NEW h \in Host
             PROVE  LET waiting == {t \in Thread : Home[t] = h /\ pc[t] = "sent"}
                    IN  /\ sending[h] + sent[h] = One(waiting # {})
                        /\ \A t \in waiting : holder[h] = t
  BY Zenon DEF OneInFlight
<1> DEFINE waiting == {t \in Thread : Home[t] = h /\ pc[t] = "sent"}
<1>1. LockOK(h) /\ holder[h] \in Thread \cup {Nothing} /\ \A t \in Thread : SenderOK(t)
  BY DEF PostIInv, Senders, TypeOK
<1>2. \A t \in waiting : holder[h] = t
  BY <1>1 DEF SenderOK, InSend
<1>3. CASE holder[h] # Nothing /\ pc[holder[h]] = "sent"
  <2>1. waiting = {holder[h]}
    BY <1>1, <1>2, <1>3 DEF LockOK
  <2>2. One(waiting # {}) = 1
    BY <2>1 DEF One
  <2>3. sending[h] + sent[h] = 1
    BY <1>1, <1>3 DEF LockOK, One
  <2> QED BY <1>2, <2>2, <2>3
<1>4. CASE ~(holder[h] # Nothing /\ pc[holder[h]] = "sent")
  <2>1. waiting = {}
    BY <1>2, <1>4, PostAssumption
  <2>2. One(waiting # {}) = 0
    BY <2>1 DEF One
  <2>3. sending[h] + sent[h] = 0
    BY <1>1, <1>4 DEF LockOK, One
  <2> QED BY <1>2, <2>2, <2>3
<1> QED BY <1>3, <1>4, Zenon

\* The places of a packet, put together, are the stream.
LEMMA StreamPlaces ==
  ASSUME PostIInv, NEW h \in Host, NEW b \in Box
  PROVE  /\ Stream(h, b) \in Seq(Packet) /\ Sorted(Stream(h, b), b)
         /\ Range(Stream(h, b)) = All(h, b)
<1>1. /\ received[h] \in Seq(Packet) /\ boxes[h][b] \in Seq(Packet) /\ wire[h] \in Seq(Packet)
      /\ inbox[h] \in Packet \cup {Nothing} /\ worker[h] \in Packet \cup {Waiting, Awake}
  BY DEF PostIInv, TypeOK
<1>2. Ordered(h, b)
  BY DEF PostIInv, Places
<1>3. ASSUME NEW x \in Packet \cup {Nothing, Waiting, Awake}
      PROVE  /\ Carried(x) \in Seq(Packet) /\ Sorted(Carried(x), b)
             /\ Range(Carried(x)) = Held(x)
  <2>1. CASE x \in {Nothing, Waiting, Awake}
    <3>1. Carried(x) = <<>> /\ Held(x) = {}
      BY <2>1 DEF Carried, Held
    <3>2. <<>> \in Seq(Packet) /\ Range(<<>>) = {} /\ Sorted(<<>>, b)
      BY DEF Range, Sorted
    <3> QED BY <3>1, <3>2
  <2>2. CASE x \notin {Nothing, Waiting, Awake}
    <3>1. Carried(x) = <<x>> /\ Held(x) = {x} /\ x \in Packet
      BY <2>2 DEF Carried, Held
    <3>2. <<x>> \in Seq(Packet) /\ Sorted(<<x>>, b)
      BY <3>1 DEF Sorted
    <3>3. Range(<<x>>) = {x}
      BY DEF Range
    <3> QED BY <3>1, <3>2, <3>3
  <2> QED BY <2>1, <2>2
<1> DEFINE w == Carried(worker[h])
           i == Carried(inbox[h])
           s1 == received[h] \o boxes[h][b]
           s2 == s1 \o w
           s3 == s2 \o i
           s4 == s3 \o wire[h]
<1>4. /\ w \in Seq(Packet) /\ Sorted(w, b) /\ Range(w) = Held(worker[h])
      /\ i \in Seq(Packet) /\ Sorted(i, b) /\ Range(i) = Held(inbox[h])
  BY <1>1, <1>3
<1>5. Stream(h, b) = s4
  BY DEF Stream
<1> HIDE DEF w, i
<1>6. s1 \in Seq(Packet) /\ Sorted(s1, b) /\ Range(s1) = Range(received[h]) \cup Range(boxes[h][b])
  <2>1. Older(Range(received[h]), Range(boxes[h][b]), b)
    BY <1>2 DEF Ordered, Older, Unread
  <2> QED BY <1>1, <1>2, <2>1, SortedConcat DEF Ordered
<1> HIDE DEF s1
<1>7. s2 \in Seq(Packet) /\ Sorted(s2, b) /\ Range(s2) = Range(s1) \cup Held(worker[h])
  <2>1. Older(Range(s1), Range(w), b)
    BY <1>2, <1>4, <1>6 DEF Ordered, Older, Unread, Unsorted
  <2> QED BY <1>4, <1>6, <2>1, SortedConcat, Zenon
<1> HIDE DEF s2
<1>8. s3 \in Seq(Packet) /\ Sorted(s3, b) /\ Range(s3) = Range(s2) \cup Held(inbox[h])
  <2>1. Older(Range(s2), Range(i), b)
    BY <1>2, <1>4, <1>6, <1>7 DEF Ordered, Older, Unread, Unsorted, Arriving
  <2> QED BY <1>4, <1>7, <2>1, SortedConcat, Zenon
<1> HIDE DEF s3
<1>9. s4 \in Seq(Packet) /\ Sorted(s4, b) /\ Range(s4) = Range(s3) \cup Range(wire[h])
  <2>1. Older(Range(s3), Range(wire[h]), b)
    BY <1>2, <1>6, <1>7, <1>8 DEF Ordered, Older, Unread, Unsorted, Arriving
  <2> QED BY <1>1, <1>2, <1>8, <2>1, SortedConcat, Zenon DEF Ordered
<1>10. Range(s4) = All(h, b)
  BY <1>6, <1>7, <1>8, <1>9 DEF All, Unread, Unsorted, Arriving
<1> QED BY <1>5, <1>9, <1>10

LEMMA PostSound ==
  ASSUME PostIInv
  PROVE  PostInv /\ MailKept
<1>1. PostInv
  BY InFlight DEF PostIInv, PostInv
<1>2. InOrder
  BY StreamPlaces DEF InOrder, Sorted
<1>3. NoneForgotten
  <2> SUFFICES ASSUME NEW m \in Host, NEW n \in 1 .. numbered[m],
                      NEW h \in Host, NEW b \in Box, NEW pkt \in All(h, b),
                      pkt.from = m, pkt.n = n, pkt.box = b
               PROVE  LET s == Stream(h, b) IN
                      \E i \in 1 .. Len(s) : s[i].from = m /\ s[i].n = n /\ s[i].box = b
    BY DEF PostIInv, Kept, NoneForgotten
  <2>1. PICK i \in 1 .. Len(Stream(h, b)) : Stream(h, b)[i] = pkt
    BY StreamPlaces, RangeIndex
  <2> QED BY <2>1
<1> QED BY <1>1, <1>2, <1>3 DEF MailKept

-----------------------------------------------------------------------------

\* On every machine, however many threads send, the packet in the device's
\* buffer is announced once and the worker that wakes finds it, and the
\* interrupt for a message wakes the thread that sent it (network.cc, post.cc).
THEOREM DevicesServeOne == Spec => []PostInv
<1>1. PostIInv => PostInv
  BY PostSound
<1> QED BY <1>1, InitPost, StepPost, PTL DEF Spec

\* What is given to the network and not dropped is on its way or received, once
\* and in the order in which its machine sent it to the mailbox, whatever comes
\* up, halts or retries meanwhile (network.cc, post.cc, SendToSocket).
THEOREM MailIsKept == Spec => []MailKept
<1>1. PostIInv => MailKept
  BY PostSound
<1> QED BY <1>1, InitPost, StepPost, PTL DEF Spec
=============================================================================
