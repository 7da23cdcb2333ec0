---------------------------- MODULE MachineProofs ---------------------------
(***************************************************************************)
(* Proofs about the machine and what is next to it: Console, for any       *)
(* number of readers and writers and any characters; SynchDisk, for any    *)
(* number of threads, sectors and calls; DiskHead, for any geometry and    *)
(* speed of the disk; AddrSpaces, for any programs, pages and memory.      *)
(***************************************************************************)
EXTENDS SynchDisk, Console, DiskHead, AddrSpaces, SequenceTheorems, TLAPS

\* Leaves that name no prover: Zenon for at most 5 seconds, then SMT.
USE ZenonT(5), SMTT(30)

-----------------------------------------------------------------------------
(* Console: the inductive invariant. *)

InCall(t) == at[t] \in {"getwait", "take"}
OutCall(t) == at[t] \in {"write", "putwait"}

\* Only readers call GetChar, and a writer that is not at its end has a
\* character left to put.
Loops ==
  \A t \in Client :
    /\ at[t] \in {"get", "getwait", "take"} => t \in Reader
    /\ t \in Writer \ Reader /\ at[t] # "end" => puts[t] < MaxPuts

\* The two locks are free exactly while nobody is between acquire and release,
\* and keep everybody else out.
Locks ==
  /\ inLock = 1 <=> \A t \in Client : ~InCall(t)
  /\ \A t, u \in Client : InCall(t) /\ InCall(u) => t = u
  /\ outLock = 1 <=> \A t \in Client : ~OutCall(t)
  /\ \A t, u \in Client : OutCall(t) /\ OutCall(u) => t = u

\* One poll at a time: it is due, or what it found is announced, or the reader
\* that was told of it is taking it.
OnePoll ==
  /\ poll => incoming = EOF /\ inWait = 0
  /\ \A t \in Client : at[t] = "take" => ~poll /\ inWait = 0
  /\ incoming # EOF => inWait = 1 \/ \E t \in Client : at[t] = "take"

\* One character at a time on its way to the display: between PutChar and the
\* return of waitFor->P() it is being written, or announced as written.
OnePut ==
  /\ putBusy => outWait = 0
  /\ putBusy \/ outWait = 1 => \E t \in Client : at[t] = "putwait"

\* What was typed is what was received, what is in the device and what is
\* unread, in this order, until a byte 255 is read: it is taken for the end of
\* the input, and nothing is polled after it.
InOrder ==
  \/ received \o buffer \o unread = typed
  \/ /\ ~poll /\ incoming = EOF /\ EOF \in Range(typed)
     /\ Len(received) =< Len(typed)
     /\ \A i \in 1 .. Len(received) : received[i] = typed[i]

ConsoleIInv == TypeOK /\ Loops /\ Locks /\ OnePoll /\ OnePut /\ InOrder /\ PollingGoesOn

-----------------------------------------------------------------------------
(* Console: the character stream. *)

\* What is in a sequence has an index.
LEMMA RangeIndex ==
  ASSUME NEW S, NEW s \in Seq(S), NEW c
  PROVE  c \in Range(s) <=> \E i \in 1 .. Len(s) : s[i] = c
BY DEF Range

\* A step that moves no character keeps their order.
LEMMA SameOrder ==
  ASSUME InOrder, UNCHANGED <<typed, unread, incoming, received>>, poll' => poll
  PROVE  InOrder'
BY DEF InOrder, buffer

\* A character that is typed comes last.
LEMMA TypeOrder ==
  ASSUME TypeOK, InOrder, NEW c \in Byte, Type(c)
  PROVE  InOrder'
<1> USE DEF TypeOK, Type, inDev, thread
<1>1. CASE received \o buffer \o unread = typed
  <2>1. buffer' = buffer /\ received' = received
    BY DEF buffer
  <2>2. received \o buffer \in Seq(Byte)
    BY DEF buffer
  <2>3. (received \o buffer) \o Append(unread, c) = Append((received \o buffer) \o unread, c)
    BY <2>2
  <2> QED BY <1>1, <2>1, <2>3 DEF InOrder
<1>2. CASE ~poll /\ incoming = EOF /\ EOF \in Range(typed)
           /\ Len(received) =< Len(typed)
           /\ \A i \in 1 .. Len(received) : received[i] = typed[i]
  <2>1. /\ Len(typed') = Len(typed) + 1
        /\ \A i \in 1 .. Len(typed) : typed'[i] = typed[i]
    OBVIOUS
  <2>2. EOF \in Range(typed')
    <3>1. typed \in Seq(Byte) /\ typed' \in Seq(Byte)
      OBVIOUS
    <3>2. PICK i \in 1 .. Len(typed) : typed[i] = EOF
      BY <1>2, <3>1, RangeIndex
    <3>3. i \in 1 .. Len(typed') /\ typed'[i] = EOF
      BY <2>1, <3>1, <3>2
    <3> HIDE DEF TypeOK, Type
    <3> QED BY <3>1, <3>3, RangeIndex
  <2> QED BY <1>2, <2>1, <2>2 DEF InOrder
<1> QED BY <1>1, <1>2 DEF InOrder

\* ConsoleInput::CallBack takes the first of the unread characters, and finds
\* the device empty; a byte 255 ends the order there.
LEMMA ReadOrder ==
  ASSUME TypeOK, InOrder, OnePoll, ReadCallBack
  PROVE  InOrder'
<1> USE DEF TypeOK
<1>1. CASE unread' = unread /\ incoming' = incoming
  BY <1>1, SameOrder DEF ReadCallBack, thread
<1>2. CASE unread # <<>> /\ incoming' = Head(unread) /\ unread' = Tail(unread) /\ poll' = FALSE
  <2>1. incoming = EOF /\ poll /\ typed' = typed /\ received' = received
    BY DEF ReadCallBack, OnePoll, thread
  <2>2. received \o unread = typed
    BY <2>1 DEF InOrder, buffer
  <2> DEFINE c == Head(unread)
  <2>3. received \o <<c>> \o Tail(unread) = received \o unread
    BY <1>2
  <2>4. CASE c # EOF
    BY <1>2, <2>1, <2>2, <2>3, <2>4 DEF InOrder, buffer
  <2>5. CASE c = EOF
    <3>1. /\ Len(typed) = Len(received) + Len(unread)
          /\ \A i \in 1 .. Len(received) : received[i] = typed[i]
          /\ typed[Len(received) + 1] = unread[1]
          /\ Len(unread) > 0
      BY <1>2, <2>2
    <3>2. EOF \in Range(typed)
      <4>1. Len(received) + 1 \in 1 .. Len(typed) /\ typed[Len(received) + 1] = EOF
        BY <1>2, <2>5, <3>1
      <4> QED BY <4>1, RangeIndex
    <3> QED BY <1>2, <2>1, <2>5, <3>1, <3>2 DEF InOrder
  <2> QED BY <2>4, <2>5
<1> QED BY <1>1, <1>2 DEF ReadCallBack

\* GetChar moves the character from the device to its caller.
LEMMA GetOrder ==
  ASSUME TypeOK, InOrder, OnePoll, NEW t \in Client, GetChar(t)
  PROVE  InOrder'
<1> USE DEF TypeOK
<1>1. typed' = typed /\ unread' = unread /\ incoming' = EOF /\ ~poll
  BY DEF GetChar, input, OnePoll
<1>2. CASE incoming = EOF
  <2>1. received' = received /\ poll' = FALSE
    BY <1>1, <1>2 DEF GetChar, Returned
  <2> QED BY <1>1, <1>2, <2>1 DEF InOrder, buffer
<1>3. CASE incoming # EOF
  <2>1. received' = Append(received, incoming)
    BY <1>3 DEF GetChar, Returned
  <2>2. received \o <<incoming>> \o unread = typed
    BY <1>3 DEF InOrder, buffer
  <2>3. Append(received, incoming) \o <<>> = received \o <<incoming>>
    OBVIOUS
  <2> QED BY <1>1, <2>1, <2>2, <2>3 DEF InOrder, buffer
<1> QED BY <1>2, <1>3

-----------------------------------------------------------------------------
(* Console: every step keeps the invariant. *)

Rest == Loops /\ Locks /\ OnePoll /\ OnePut /\ PollingGoesOn

\* The user, the kernel's other threads and its idling.
LEMMA EnvironmentStep ==
  ASSUME ConsoleIInv,
         (\E c \in Byte : Type(c)) \/ CloseInput \/ Idle \/ OthersGo
  PROVE  ConsoleIInv'
<1> USE DEF ConsoleIInv
<1>1. CASE \E c \in Byte : Type(c)
  <2>1. PICK c \in Byte : Type(c)
    BY <1>1
  <2>2. InOrder'
    BY <2>1, TypeOrder
  <2>3. TypeOK'
    BY <2>1 DEF TypeOK, Type, inDev, outDev, thread
  <2>4. Rest'
    BY <2>1 DEF Type, inDev, outDev, thread, Rest, Loops, Locks, InCall, OutCall, OnePoll,
                OnePut, PollingGoesOn
  <2> QED BY <2>2, <2>3, <2>4 DEF Rest
<1>2. CASE CloseInput
  <2>1. TypeOK' /\ InOrder'
    BY <1>2, SameOrder DEF CloseInput, TypeOK, inDev, outDev, thread
  <2>2. Rest'
    BY <1>2 DEF CloseInput, inDev, outDev, thread, Rest, Loops, Locks, InCall, OutCall,
                OnePoll, OnePut, PollingGoesOn
  <2> QED BY <2>1, <2>2 DEF Rest
<1>3. CASE Idle
  <2>1. TypeOK' /\ InOrder'
    BY <1>3, SameOrder DEF Idle, TypeOK, input, outDev, thread
  <2>2. Rest'
    BY <1>3 DEF Idle, outDev, thread, Rest, Loops, Locks, InCall, OutCall,
                OnePoll, OnePut, PollingGoesOn
  <2> QED BY <2>1, <2>2 DEF Rest
<1>4. CASE OthersGo
  <2>1. TypeOK' /\ InOrder'
    BY <1>4, SameOrder DEF OthersGo, TypeOK, input, inDev, outDev, thread
  <2>2. Rest'
    BY <1>4 DEF OthersGo, inDev, outDev, thread, Rest, Loops, Locks, InCall, OutCall,
                OnePoll, OnePut, PollingGoesOn
  <2> QED BY <2>1, <2>2 DEF Rest
<1> QED BY <1>1, <1>2, <1>3, <1>4

\* The interrupts: what they announce is announced once, since one poll and one
\* write are pending at most.
LEMMA InterruptStep ==
  ASSUME ConsoleIInv, ReadCallBack \/ WriteCallBack
  PROVE  ConsoleIInv'
<1> USE DEF ConsoleIInv
<1>1. CASE ReadCallBack
  <2>1. InOrder'
    BY <1>1, ReadOrder
  <2>2. incoming = EOF /\ inWait = 0 /\ \A t \in Client : at[t] # "take"
    BY <1>1 DEF ReadCallBack, OnePoll
  <2>3. Loops' /\ Locks' /\ OnePut'
    BY <1>1 DEF ReadCallBack, outDev, thread, Loops, Locks, InCall, OutCall, OnePut
  <2>4. UNCHANGED <<typed, closed, disabled, inLock, outDev, thread, others, halted>>
    BY <1>1 DEF ReadCallBack
  <2>5. CASE poll' = poll /\ UNCHANGED <<unread, incoming, inWait>>
    <3>1. TypeOK'
      BY <2>4, <2>5 DEF TypeOK, outDev, thread
    <3>2. OnePoll' /\ PollingGoesOn'
      BY <2>4, <2>5 DEF OnePoll, PollingGoesOn, thread
    <3> QED BY <2>1, <2>3, <3>1, <3>2
  <2>6. CASE disabled /\ poll' = FALSE /\ UNCHANGED <<unread, incoming, inWait>>
    <3>1. TypeOK'
      BY <2>4, <2>6 DEF TypeOK, outDev, thread
    <3>2. OnePoll' /\ PollingGoesOn'
      BY <2>2, <2>4, <2>6 DEF OnePoll, PollingGoesOn, thread
    <3> QED BY <2>1, <2>3, <3>1, <3>2
  <2>7. CASE /\ poll' = FALSE /\ inWait' = inWait + 1
             /\ IF unread = <<>> THEN UNCHANGED <<unread, incoming>>
                ELSE incoming' = Head(unread) /\ unread' = Tail(unread)
    <3>1. inWait' = 1
      BY <2>2, <2>7
    <3>2. unread' \in Seq(Byte) /\ incoming' \in Byte
      <4>1. unread # <<>> => Head(unread) \in Byte /\ Tail(unread) \in Seq(Byte)
        BY DEF TypeOK
      <4> QED BY <2>7, <4>1 DEF TypeOK
    <3>3. TypeOK'
      <4>1. poll' \in BOOLEAN
        BY <2>7
      <4>2. inWait' \in 0 .. 1
        BY <3>1
      <4> QED BY <2>4, <3>2, <4>1, <4>2, Zenon DEF TypeOK, outDev, thread
    <3>4. OnePoll' /\ PollingGoesOn'
      BY <2>2, <2>4, <2>7, <3>1 DEF OnePoll, PollingGoesOn, thread
    <3> QED BY <2>1, <2>3, <3>3, <3>4
  <2> QED BY <1>1, <2>5, <2>6, <2>7, Zenon DEF ReadCallBack, SynchInputCallBack
<1>2. CASE WriteCallBack
  <2>1. TypeOK' /\ InOrder'
    <3>1. putBusy' = FALSE /\ outWait' = 1
      BY <1>2 DEF WriteCallBack, SynchOutputCallBack, OnePut
    <3>2. UNCHANGED <<input, inDev, outLock, thread, others, halted>>
      BY <1>2 DEF WriteCallBack
    <3>3. TypeOK'
      <4>1. putBusy' \in BOOLEAN
        BY <3>1
      <4>2. outWait' \in 0 .. 1
        BY <3>1
      <4> QED BY <3>2, <4>1, <4>2, Zenon DEF TypeOK, input, inDev, thread
    <3> QED BY <3>2, <3>3, SameOrder DEF input, inDev, thread
  <2>2. Loops' /\ Locks' /\ OnePoll' /\ PollingGoesOn'
    BY <1>2 DEF WriteCallBack, inDev, thread, Loops, Locks, InCall, OutCall, OnePoll,
                PollingGoesOn
  <2>3. OnePut'
    BY <1>2 DEF WriteCallBack, SynchOutputCallBack, thread, OnePut
  <2> QED BY <2>1, <2>2, <2>3
<1> QED BY <1>1, <1>2

\* GetChar: acquire, wait, take the character and release.
LEMMA GetStep ==
  ASSUME ConsoleIInv, NEW t \in Client, AcquireIn(t) \/ WaitIn(t) \/ GetChar(t)
  PROVE  ConsoleIInv'
<1> USE DEF ConsoleIInv
<1>1. CASE AcquireIn(t)
  <2>1. TypeOK' /\ InOrder'
    BY <1>1, SameOrder DEF AcquireIn, GoTo, TypeOK, input, outDev
  <2>2. Loops' /\ Locks'
    BY <1>1 DEF AcquireIn, GoTo, TypeOK, outDev, Loops, Locks, InCall, OutCall
  <2>3. OnePoll' /\ OnePut' /\ PollingGoesOn'
    BY <1>1 DEF AcquireIn, GoTo, TypeOK, outDev, OnePoll, OnePut, PollingGoesOn
  <2> QED BY <2>1, <2>2, <2>3
<1>2. CASE WaitIn(t)
  <2>1. TypeOK' /\ InOrder'
    BY <1>2, SameOrder DEF WaitIn, GoTo, TypeOK, input, outDev
  <2>2. Loops' /\ Locks'
    BY <1>2 DEF WaitIn, GoTo, TypeOK, outDev, Loops, Locks, InCall, OutCall
  <2>3. OnePoll' /\ OnePut' /\ PollingGoesOn'
    BY <1>2 DEF WaitIn, GoTo, TypeOK, outDev, Loops, Locks, InCall, OnePoll, OnePut,
                PollingGoesOn
  <2> QED BY <2>1, <2>2, <2>3
<1>3. CASE GetChar(t)
  <2>1. inLock = 0 /\ ~poll /\ inWait = 0 /\ t \in Reader
    BY <1>3 DEF GetChar, Locks, InCall, OnePoll, Loops, TypeOK
  <2>2. TypeOK'
    BY <1>3, <2>1 DEF GetChar, Returned, GoTo, TypeOK, Byte, input, outDev
  <2>3. Loops'
    BY <1>3, <2>1 DEF GetChar, GoTo, TypeOK, Loops
  <2>4. Locks'
    BY <1>3, <2>1 DEF GetChar, GoTo, TypeOK, outDev, Locks, InCall, OutCall
  <2>5. OnePoll' /\ OnePut' /\ PollingGoesOn'
    BY <1>3, <2>1 DEF GetChar, Returned, GoTo, TypeOK, outDev, Locks, InCall, OnePoll,
                      OnePut, PollingGoesOn
  <2>6. InOrder'
    BY <1>3, GetOrder
  <2> QED BY <2>2, <2>3, <2>4, <2>5, <2>6
<1> QED BY <1>1, <1>2, <1>3

\* PutChar: acquire, start the write, wait for it and release.
LEMMA PutStep ==
  ASSUME ConsoleIInv, NEW t \in Client,
         AcquireOut(t) \/ PutChar(t) \/ WaitOut(t)
  PROVE  ConsoleIInv'
<1> USE DEF ConsoleIInv
<1>1. CASE AcquireOut(t)
  <2>1. TypeOK' /\ InOrder'
    BY <1>1, SameOrder DEF AcquireOut, GoTo, TypeOK, input, inDev
  <2>2. Loops' /\ Locks'
    BY <1>1 DEF AcquireOut, GoTo, TypeOK, inDev, Loops, Locks, InCall, OutCall
  <2>3. OnePoll' /\ OnePut' /\ PollingGoesOn'
    BY <1>1 DEF AcquireOut, GoTo, TypeOK, inDev, OnePoll, OnePut, PollingGoesOn
  <2> QED BY <2>1, <2>2, <2>3
<1>2. CASE PutChar(t)
  <2>1. TypeOK' /\ InOrder'
    BY <1>2, SameOrder DEF PutChar, GoTo, TypeOK, input, inDev
  <2>2. Loops' /\ Locks'
    BY <1>2 DEF PutChar, GoTo, TypeOK, inDev, Loops, Locks, InCall, OutCall
  <2>3. OnePoll' /\ OnePut' /\ PollingGoesOn'
    BY <1>2 DEF PutChar, GoTo, TypeOK, inDev, Locks, OutCall, OnePoll, OnePut,
                PollingGoesOn
  <2> QED BY <2>1, <2>2, <2>3
<1>3. CASE WaitOut(t)
  <2>1. outLock = 0 /\ outWait = 1 /\ ~putBusy
    BY <1>3 DEF WaitOut, Locks, OutCall, OnePut, TypeOK
  <2>2. PICK l \in {"get", "put", "end"} :
          /\ at' = [at EXCEPT ![t] = l] /\ (l = "get" => t \in Reader)
          /\ IF t \in Reader THEN l = "get" /\ puts' = puts
             ELSE /\ puts' = [puts EXCEPT ![t] = puts[t] + 1]
                  /\ l = IF puts'[t] < MaxPuts THEN "put" ELSE "end"
    BY <1>3 DEF WaitOut, GoTo
  <2>3. puts' \in [Writer -> 0 .. MaxPuts] /\ Loops'
    <3>1. CASE t \in Reader
      BY <2>2, <3>1 DEF TypeOK, Loops
    <3>2. CASE t \notin Reader
      <4>1. t \in Writer /\ puts[t] \in Nat /\ puts[t] < MaxPuts
        BY <1>3, <3>2 DEF Client, WaitOut, Loops, TypeOK
      <4>2. puts' \in [Writer -> 0 .. MaxPuts]
        <5>1. puts[t] + 1 \in 0 .. MaxPuts /\ puts \in [Writer -> 0 .. MaxPuts]
          BY <4>1, ConsoleConstants DEF TypeOK
        <5> QED BY <2>2, <3>2, <5>1
      <4>3. /\ \A u \in Client \ {t} : at'[u] = at[u]
            /\ \A u \in Writer \ {t} : puts'[u] = puts[u]
            /\ at'[t] = l /\ l # "get"
        BY <2>2, <3>2, <4>1 DEF TypeOK
      <4>4. l # "end" => puts'[t] < MaxPuts
        BY <2>2, <3>2
      <4> QED BY <4>1, <4>2, <4>3, <4>4 DEF Loops
    <3> QED BY <3>1, <3>2
  <2>4. TypeOK' /\ InOrder'
    BY <1>3, <2>1, <2>2, <2>3, SameOrder DEF WaitOut, TypeOK, input, inDev
  <2>5. Locks'
    BY <1>3, <2>1, <2>2 DEF WaitOut, TypeOK, inDev, Locks, InCall, OutCall
  <2>6. OnePoll' /\ OnePut' /\ PollingGoesOn'
    BY <1>3, <2>1, <2>2 DEF WaitOut, TypeOK, inDev, OnePoll, OnePut, PollingGoesOn
  <2> QED BY <2>3, <2>4, <2>5, <2>6
<1> QED BY <1>1, <1>2, <1>3

\* The consoles as their constructors leave them.
LEMMA InitConsole ==
  ASSUME CInit
  PROVE  ConsoleIInv
<1> USE DEF CInit, SynchConsoleInput, SynchConsoleOutput, ConsoleInput, ConsoleOutput
<1>1. TypeOK
  <2>1. puts \in [Writer -> 0 .. MaxPuts]
    BY ConsoleConstants
  <2>2. /\ typed \in Seq(Byte) /\ unread \in Seq(Byte) /\ incoming \in Byte
        /\ received \in Seq(Byte \ {EOF})
    BY DEF Byte
  <2>3. /\ inLock \in 0 .. 1 /\ inWait \in 0 .. 1 /\ outLock \in 0 .. 1 /\ outWait \in 0 .. 1
        /\ at \in [Client -> {"get", "getwait", "take", "put", "write", "putwait", "end"}]
    OBVIOUS
  <2>4. /\ closed \in BOOLEAN /\ poll \in BOOLEAN /\ disabled \in BOOLEAN
        /\ putBusy \in BOOLEAN /\ told \in BOOLEAN /\ halted \in BOOLEAN
        /\ others \in {"running", "waiting", "gone"}
    BY Zenon
  <2> QED BY <2>1, <2>2, <2>3, <2>4, Zenon DEF TypeOK
<1>2. Loops /\ Locks
  BY ConsoleConstants DEF Loops, Locks, InCall, OutCall, Client
<1>3. OnePoll /\ OnePut /\ PollingGoesOn
  BY DEF OnePoll, OnePut, PollingGoesOn
<1>4. InOrder
  BY DEF InOrder, buffer
<1> QED BY <1>1, <1>2, <1>3, <1>4 DEF ConsoleIInv

\* Every step of a client, a poll or a display keeps the invariant.
LEMMA StepConsole ==
  ASSUME ConsoleIInv, [CNext]_cvars
  PROVE  ConsoleIInv'
<1>1. CASE CNext
  BY <1>1, EnvironmentStep, InterruptStep, GetStep, PutStep DEF CNext, CStep, Byte
<1>2. CASE UNCHANGED cvars
  <2> USE <1>2 DEF ConsoleIInv, cvars, input, inDev, outDev, thread
  <2>1. TypeOK' /\ InOrder'
    BY SameOrder DEF TypeOK
  <2>2. Rest'
    BY DEF Rest, Loops, Locks, InCall, OutCall, OnePoll, OnePut, PollingGoesOn
  <2> QED BY <2>1, <2>2 DEF Rest
<1> QED BY <1>1, <1>2

\* The inductive invariant has what ConsoleInv says of the device's assertions
\* and of the characters.
LEMMA ConsoleSound ==
  ASSUME ConsoleIInv
  PROVE  ConsoleInv
<1> USE DEF ConsoleIInv
<1>1. DeviceAsserts
  BY DEF DeviceAsserts, OnePoll, OnePut, Locks, OutCall
<1>2. NothingLost
  <2>1. received \o buffer \in Seq(Byte)
    BY DEF TypeOK, buffer
  <2>2. CASE received \o buffer \o unread = typed
    <3> DEFINE got == received \o buffer
    <3>1. /\ Len(got) \in 0 .. Len(typed)
          /\ \A i \in 1 .. Len(got) : got[i] = typed[i]
      BY <2>1, <2>2 DEF TypeOK
    <3>2. got = SubSeq(typed, 1, Len(got))
      BY <2>1, <3>1 DEF TypeOK
    <3> QED BY <2>2, <3>1, <3>2 DEF NothingLost
  <2>3. CASE /\ incoming = EOF /\ EOF \in Range(typed)
             /\ Len(received) =< Len(typed)
             /\ \A i \in 1 .. Len(received) : received[i] = typed[i]
    <3>1. received = SubSeq(typed, 1, Len(received)) /\ received \o buffer = received
      BY <2>3 DEF TypeOK, buffer
    <3>2. Len(received) \in 0 .. Len(typed)
      BY <2>3 DEF TypeOK
    <3> QED BY <2>3, <3>1, <3>2 DEF NothingLost
  <2> QED BY <2>2, <2>3 DEF InOrder
<1> QED BY <1>1, <1>2 DEF ConsoleInv

-----------------------------------------------------------------------------

\* However many threads read and write, and whatever is typed: the four
\* semaphores stay binary, the assertions of ConsoleInput::CallBack and
\* ConsoleOutput::PutChar hold, no character is lost, repeated or overtaken, and
\* the device goes on polling until a reader is told of the end of the input.
THEOREM ConsoleKeepsInput == CSpec => []ConsoleInv
<1>1. CInit => ConsoleIInv
  BY InitConsole
<1>2. ConsoleIInv /\ [CNext]_cvars => ConsoleIInv'
  BY StepConsole
<1>3. ConsoleIInv => ConsoleInv
  BY ConsoleSound
<1> QED BY <1>1, <1>2, <1>3, PTL DEF CSpec

-----------------------------------------------------------------------------
(* SynchDisk: the assertions of the disk and of the lock, and the          *)
(* atomicity of a transfer.                                                *)

USE DiskConstants DEF DiskConstants

\* The disk before the first call.
LEMMA InitIInv == Init => IInv
<1> SUFFICES ASSUME Init PROVE IInv
  OBVIOUS
<1>1. \A t \in Thread : pc[t] = "out" /\ request[t] = Free
  BY DEF Init
<1>2. lock = 1 /\ semaphore = 0 /\ active = FALSE /\ lockHolder = NoThread
  BY DEF Init
<1>3. DiskTypeOK
  <2>1. /\ request \in [Thread -> [op : {"read", "write"}, sector : Sector, data : Data]
                                    \cup {Free}]
        /\ sectors \in [Sector -> Data]
    BY DEF Init
  <2>2. /\ pc \in [Thread -> {"out", "acquire", "request", "wait", "release"}]
        /\ calls \in [Thread -> 0 .. MaxCalls]
    BY DEF Init
  <2>3. active \in BOOLEAN
    BY <1>2, Zenon
  <2>4. lock \in 0 .. 1 /\ semaphore \in 0 .. 1 /\ lockHolder \in Thread \cup {NoThread}
    BY <1>2
  <2> QED
    BY <2>1, <2>2, <2>3, <2>4, Zenon DEF DiskTypeOK, Init
<1> QED
  BY <1>1, <1>2, <1>3 DEF IInv, Locked

\* A call only adds a thread outside the lock.
LEMMA CallIInv == ASSUME IInv, NEW t \in Thread, Call(t) PROVE IInv'
<1> PICK op \in {"read", "write"}, s \in Sector, d \in Data :
      request' = [request EXCEPT ![t] = [op |-> op, sector |-> s, data |-> d]]
  BY DEF Call
<1>1. /\ pc' = [pc EXCEPT ![t] = "acquire"] /\ calls' = [calls EXCEPT ![t] = @ + 1]
      /\ UNCHANGED <<lock, lockHolder, semaphore, active, sectors>>
      /\ pc[t] = "out" /\ calls[t] < MaxCalls
  BY DEF Call, Goto
<1>2. DiskTypeOK'
  BY <1>1 DEF IInv, DiskTypeOK
<1>3. [op |-> op, sector |-> s, data |-> d] # Free
  BY DEF Free
<1>4. \A u \in Thread : pc'[u] = "out" <=> request'[u] = Free
  BY <1>1, <1>3 DEF IInv, DiskTypeOK
<1>5. \A u \in Thread : (pc'[u] = pc[u] /\ u # t) \/ (u = t /\ pc'[u] = "acquire")
  BY <1>1 DEF IInv, DiskTypeOK
<1> QED
  BY <1>1, <1>2, <1>4, <1>5 DEF IInv, Locked, Free

\* The lock lets in one thread, and the disk is idle then.
LEMMA AcquireIInv == ASSUME IInv, NEW t \in Thread, Acquire(t) PROVE IInv'
<1>1. DiskTypeOK'
  BY DEF IInv, DiskTypeOK, Acquire, Goto
<1>2. \A u \in Thread : ~Locked(u)
  BY DEF IInv, DiskTypeOK, Acquire
<1>3. \A u \in Thread : pc'[u] = IF u = t THEN "request" ELSE pc[u]
  BY DEF IInv, DiskTypeOK, Acquire, Goto
<1>4. lock' = 0 /\ pc[t] = "acquire"
      /\ UNCHANGED <<lockHolder, semaphore, active, sectors, request>>
  BY DEF IInv, DiskTypeOK, Acquire
<1> QED
  BY <1>1, <1>2, <1>3, <1>4 DEF IInv, Locked

\* The transfer keeps the types of the sectors and of the call.
LEMMA TransferTypes ==
  ASSUME IInv, NEW t \in Thread, pc[t] # "out", StartTransfer(t)
  PROVE  /\ sectors' \in [Sector -> Data]
         /\ request' \in [Thread -> [op : {"read", "write"}, sector : Sector, data : Data]
                                      \cup {Free}]
         /\ \A u \in Thread : request'[u] = Free <=> request[u] = Free
<1>1. request[t] \in [op : {"read", "write"}, sector : Sector, data : Data]
  BY DEF IInv, DiskTypeOK
<1>2. CASE request[t].op = "write" /\ UNCHANGED request
           /\ sectors' = [sectors EXCEPT ![request[t].sector] = request[t].data]
  BY <1>1, <1>2 DEF IInv, DiskTypeOK
<1>3. CASE request' = [request EXCEPT ![t] =
             [op |-> "read", sector |-> @.sector, data |-> sectors[@.sector]]]
           /\ UNCHANGED sectors
  <2> DEFINE r == [op |-> "read", sector |-> request[t].sector,
                   data |-> sectors[request[t].sector]]
  <2>1. r \in [op : {"read", "write"}, sector : Sector, data : Data] /\ r # Free
    BY <1>1 DEF IInv, DiskTypeOK, Free
  <2>2. request' = [request EXCEPT ![t] = r] /\ request[t] # Free
    BY <1>3 DEF IInv, DiskTypeOK
  <2> HIDE DEF r
  <2> QED
    BY <1>3, <2>1, <2>2 DEF IInv, DiskTypeOK
<1> QED
  BY <1>2, <1>3 DEF StartTransfer

\* ReadRequest or WriteRequest, by the holder of the lock.
LEMMA RequestIInv == ASSUME IInv, NEW t \in Thread, Request(t) PROVE IInv'
<1>1. /\ pc[t] = "request" /\ pc' = [pc EXCEPT ![t] = "wait"] /\ lockHolder' = t
      /\ active' = TRUE /\ UNCHANGED <<lock, semaphore, calls>> /\ StartTransfer(t)
  BY DEF Request, Goto
<1>2. /\ sectors' \in [Sector -> Data]
      /\ request' \in [Thread -> [op : {"read", "write"}, sector : Sector, data : Data]
                                   \cup {Free}]
      /\ \A u \in Thread : request'[u] = Free <=> request[u] = Free
  BY <1>1, TransferTypes
<1>3. DiskTypeOK'
  BY <1>1, <1>2 DEF IInv, DiskTypeOK
<1>4. \A u \in Thread : pc'[u] = IF u = t THEN "wait" ELSE pc[u]
  BY <1>1 DEF IInv, DiskTypeOK
<1>5. \A u \in Thread : u # t => ~Locked(u)
  BY <1>1 DEF IInv, Locked
<1>6. semaphore = 0
  BY <1>1, <1>5 DEF IInv, Locked, DiskTypeOK
<1>7. lock = 0
  BY <1>1 DEF IInv, Locked
<1> QED
  BY <1>1, <1>2, <1>3, <1>4, <1>5, <1>6, <1>7 DEF IInv, Locked

\* P() returns to the holder only, after the interrupt.
LEMMA WaitIInv == ASSUME IInv, NEW t \in Thread, Wait(t) PROVE IInv'
<1>1. DiskTypeOK'
  BY DEF IInv, DiskTypeOK, Wait, Goto
<1>2. \A u \in Thread : pc'[u] = IF u = t THEN "release" ELSE pc[u]
  BY DEF IInv, DiskTypeOK, Wait, Goto
<1>3. semaphore' = 0 /\ ~active /\ pc[t] = "wait"
      /\ UNCHANGED <<lock, lockHolder, active, sectors, request>>
  BY DEF IInv, DiskTypeOK, Wait
<1> QED
  BY <1>1, <1>2, <1>3 DEF IInv, Locked

\* The holder leaves the disk idle.
LEMMA ReleaseIInv == ASSUME IInv, NEW t \in Thread, Release(t) PROVE IInv'
<1>1. pc[t] = "release" /\ lock = 0 /\ lock' = 1
      /\ UNCHANGED <<semaphore, active, sectors, calls>>
  BY DEF IInv, Locked, Release
<1>2. DiskTypeOK'
  BY <1>1 DEF IInv, DiskTypeOK, Release, Goto
<1>3. \A u \in Thread : pc'[u] = IF u = t THEN "out" ELSE pc[u]
  BY DEF IInv, DiskTypeOK, Release, Goto
<1>4. \A u \in Thread : u # t => ~Locked(u)
  BY <1>1 DEF IInv, Locked
<1>5. \A u \in Thread : request'[u] = IF u = t THEN Free ELSE request[u]
  BY DEF IInv, DiskTypeOK, Release
<1>6. ~active /\ semaphore = 0
  BY <1>1, <1>4 DEF IInv, Locked, DiskTypeOK
<1> QED
  BY <1>1, <1>2, <1>3, <1>4, <1>5, <1>6 DEF IInv, Locked

\* The interrupt wakes the holder.
LEMMA CallBackIInv == ASSUME IInv, CallBack PROVE IInv'
<1>1. DiskTypeOK'
  <2>1. active' \in BOOLEAN
    BY Zenon DEF CallBack
  <2>2. semaphore' \in 0 .. 1
    BY DEF IInv, DiskTypeOK, CallBack
  <2> QED
    BY <2>1, <2>2, Zenon DEF IInv, DiskTypeOK, CallBack
<1> QED
  BY <1>1 DEF IInv, CallBack, Locked

\* The inductive invariant of SynchDisk holds of every behaviour.
THEOREM SynchDiskInvariant == Safety => []IInv
<1>1. IInv /\ [Next]_vars => IInv'
  <2> SUFFICES ASSUME IInv, [Next]_vars PROVE IInv'
    OBVIOUS
  <2>1. CASE UNCHANGED vars
    BY <2>1 DEF vars, IInv, DiskTypeOK, Locked
  <2>2. CASE CallBack
    BY <2>2, CallBackIInv
  <2>3. CASE \E t \in Thread : Step(t)
    BY <2>3, CallIInv, AcquireIInv, RequestIInv, WaitIInv, ReleaseIInv DEF Step
  <2> QED
    BY <2>1, <2>2, <2>3 DEF Next
<1> QED
  BY InitIInv, <1>1, PTL DEF Safety

\* ASSERT(!active) of Disk::ReadRequest and WriteRequest never fails.
THEOREM DiskNeverOverlaps == Safety => []OneRequest
<1>1. IInv => OneRequest
  BY DEF IInv, OneRequest, Locked
<1> QED
  BY <1>1, SynchDiskInvariant, PTL

\* ASSERT(IsHeldByCurrentThread()) of Lock::Release never fails.
THEOREM LockReleasedByHolder == Safety => []ReleasedByHolder
<1>1. IInv => ReleasedByHolder
  BY DEF IInv, ReleasedByHolder
<1> QED
  BY <1>1, SynchDiskInvariant, PTL

\* The completion interrupt wakes the thread whose request it completes.
THEOREM CompletionIsOwn == Safety => []OwnCompletion
<1>1. IInv => OwnCompletion
  BY DEF IInv, OwnCompletion, Locked
<1> QED
  BY <1>1, SynchDiskInvariant, PTL

\* SynchDisk implements a disk with atomic transfers: a call takes effect in
\* Disk::ReadRequest or WriteRequest, while the lock is held.
THEOREM SynchDiskIsAtomic == Safety => ImplementsAtomicDisk
<1> DEFINE done == {t \in Thread : pc[t] \in {"wait", "release"}}
<1>1. Init => Abstract!Init
  BY DEF Init, Abstract!Init, Free, Abstract!Free
<1>2. IInv /\ [Next]_vars => [Abstract!Next]_<<sectors, request, done>>
  <2> SUFFICES ASSUME IInv, [Next]_vars PROVE [Abstract!Next]_<<sectors, request, done>>
    OBVIOUS
  <2> USE DEF IInv
  <2>1. CASE UNCHANGED vars
    BY <2>1 DEF vars
  <2>2. CASE CallBack
    BY <2>2 DEF CallBack
  <2>3. ASSUME NEW t \in Thread, Call(t) PROVE Abstract!Call(t)
    <3>1. pc' = [pc EXCEPT ![t] = "acquire"] /\ pc[t] = "out" /\ UNCHANGED sectors
          /\ request[t] = Free
      BY <2>3 DEF Call, Goto
    <3>2. done' = done
      BY <3>1 DEF DiskTypeOK
    <3>3. request[t].op = "none"
      BY <3>1 DEF Free
    <3> QED
      BY <2>3, <3>1, <3>2, <3>3 DEF Call, Abstract!Call
  <2>4. ASSUME NEW t \in Thread, Acquire(t) PROVE UNCHANGED <<sectors, request, done>>
    BY <2>4 DEF Acquire, Goto, DiskTypeOK
  <2>5. ASSUME NEW t \in Thread, Request(t) PROVE Abstract!Transfer(t)
    <3>1. pc' = [pc EXCEPT ![t] = "wait"] /\ pc[t] = "request" /\ StartTransfer(t)
      BY <2>5 DEF Request, Goto
    <3>2. done' = done \cup {t} /\ t \notin done
      BY <3>1 DEF DiskTypeOK
    <3>3. request[t].op # "none"
      BY <3>1 DEF DiskTypeOK, Free
    <3> QED
      BY <3>1, <3>2, <3>3 DEF StartTransfer, Abstract!Transfer
  <2>6. ASSUME NEW t \in Thread, Wait(t) PROVE UNCHANGED <<sectors, request, done>>
    BY <2>6 DEF Wait, Goto, DiskTypeOK
  <2>7. ASSUME NEW t \in Thread, Release(t) PROVE Abstract!Return(t)
    <3>1. pc' = [pc EXCEPT ![t] = "out"] /\ pc[t] = "release" /\ UNCHANGED sectors
          /\ request' = [request EXCEPT ![t] = Free]
      BY <2>7 DEF Release, Goto
    <3>2. done' = done \ {t} /\ t \in done
      BY <3>1 DEF DiskTypeOK
    <3> QED
      BY <3>1, <3>2 DEF Abstract!Return, Free, Abstract!Free
  <2> QED
    BY <2>1, <2>2, <2>3, <2>4, <2>5, <2>6, <2>7 DEF Next, Step, Abstract!Next
<1> QED
  BY <1>1, <1>2, SynchDiskInvariant, PTL DEF Safety, ImplementsAtomicDisk, Abstract!Spec

-----------------------------------------------------------------------------
(* DiskHead: the arithmetic of a turning disk. *)

\* Multiples.
LEMMA Multiple ==
  ASSUME NEW q \in Nat, NEW R \in Nat \ {0}
  PROVE  q * R \in Nat /\ (q * R) % R = 0 /\ (q * R) \div R = q
OBVIOUS

\* A common factor cancels.
LEMMA Cancel ==
  ASSUME NEW k \in Int, NEW c \in Int, NEW R \in Nat \ {0}, k * R < c * R
  PROVE  k < c
OBVIOUS

\* What leaves no remainder is a multiple of the divisor.
LEMMA ExactQuotient ==
  ASSUME NEW t \in Nat, NEW R \in Nat \ {0}, t % R = 0
  PROVE  t \div R \in Nat /\ t = (t \div R) * R
OBVIOUS

\* Quotient and remainder.
LEMMA Remainder ==
  ASSUME NEW t \in Nat, NEW R \in Nat \ {0}
  PROVE  t % R \in 0 .. R - 1 /\ t \div R \in Nat /\ t = (t \div R) * R + (t % R)
OBVIOUS

\* The remainder is the one number below the divisor that leaves a multiple.
LEMMA UniqueRemainder ==
  ASSUME NEW k \in Int, NEW S \in Nat \ {0}, NEW r \in 0 .. S - 1, NEW t \in Nat, t = k * S + r
  PROVE  t % S = r
OBVIOUS

\* The rotation that TimeToSeek returns ends at the next sector boundary.
LEMMA Boundary ==
  ASSUME NEW x \in Nat, NEW R \in Nat \ {0}, NEW rot,
         rot = IF x % R > 0 THEN R - (x % R) ELSE 0
  PROVE  rot \in 0 .. R - 1 /\ (x + rot) % R = 0
<1>1. PICK k \in Nat, o \in 0 .. R - 1 : k = x \div R /\ o = x % R /\ x = k * R + o
  BY Remainder
<1>2. CASE o = 0
  BY <1>1, <1>2
<1>3. CASE o # 0
  <2>1. rot = R - o /\ rot \in 0 .. R - 1
    BY <1>1, <1>3
  <2>2. x + rot \in Nat /\ x + rot = (k + 1) * R + 0 /\ 0 \in 0 .. R - 1
    BY <1>1, <2>1
  <2>3. (x + rot) % R = 0
    BY <2>2, UniqueRemainder
  <2> QED  BY <2>1, <2>3
<1> QED  BY <1>2, <1>3

\* ModuloDiff is the number of sectors to wait until sector a comes.
LEMMA TurnTo ==
  ASSUME NEW a \in Nat, NEW q \in Nat
  PROVE  /\ ModuloDiff(a, q) \in 0 .. SectorsPerTrack - 1
         /\ (q + ModuloDiff(a, q)) % SectorsPerTrack = a % SectorsPerTrack
<1>a. PICK S \in Nat \ {0} : S = SectorsPerTrack
  BY HeadConstants
<1>0. PICK d : d = ModuloDiff(a, q)
  OBVIOUS
<1> SUFFICES d \in 0 .. S - 1 /\ (q + d) % S = a % S
  BY <1>a, <1>0
<1>1. PICK k \in Nat, r \in 0 .. S - 1 : r = q % S /\ q = k * S + r
  BY Remainder
<1>2. PICK b \in 0 .. S - 1 : b = a % S
  BY Remainder
<1>3. PICK m \in Nat : m = k * S /\ q = m + r
  BY <1>1
<1>4. PICK c \in Nat : c = b - r + S
  BY <1>1, <1>2
<1>5. d = c % S
  BY <1>a, <1>0, <1>1, <1>2, <1>4 DEF ModuloDiff
<1>6. CASE b < r
  <2>1. c \in 0 .. S - 1 /\ c = 0 * S + c
    BY <1>4, <1>6
  <2>2. d = c
    BY <1>4, <1>5, <2>1, UniqueRemainder
  <2>3. PICK e \in Nat : e = q + d /\ e = (m + S) + b
    BY <1>3, <1>4, <2>2
  <2>4. (k + 1) * S = m + S
    BY <1>3
  <2>5. PICK k1 \in Int : k1 = k + 1
    BY <1>1
  <2>6. e % S = b
    <3>1. e = k1 * S + b
      BY <2>3, <2>4, <2>5
    <3> QED  BY <1>2, <3>1, UniqueRemainder
  <2> QED  BY <1>2, <2>1, <2>2, <2>3, <2>6
<1>7. CASE r <= b
  <2>1. PICK f \in 0 .. S - 1 : f = b - r /\ c = 1 * S + f
    BY <1>4, <1>7
  <2>2. d = f
    BY <1>4, <1>5, <2>1, UniqueRemainder
  <2>3. PICK e \in Nat : e = q + d /\ e = k * S + b
    BY <1>3, <2>1, <2>2
  <2>4. e % S = b
    <3>1. PICK k1 \in Int : e = k1 * S + b
      BY <1>1, <2>3
    <3> QED  BY <1>2, <3>1, UniqueRemainder
  <2> QED  BY <1>2, <2>1, <2>2, <2>3, <2>4
<1> QED  BY <1>6, <1>7

\* In less than a turn, the sectors that come are different ones.
LEMMA NotBefore ==
  ASSUME NEW q \in Nat, NEW S \in Nat \ {0}, NEW d \in 0 .. S - 1, NEW j \in 0 .. d - 1
  PROVE  (q + j) % S # (q + d) % S
<1>1. q + d \in Nat /\ q + j \in Nat
  OBVIOUS
<1>2. PICK k \in Nat, r \in 0 .. S - 1 : r = (q + d) % S /\ q + d = k * S + r
  BY <1>1, Remainder
<1>3. CASE d - j <= r
  <2>1. r - (d - j) \in 0 .. S - 1 /\ q + j = k * S + (r - (d - j))
    BY <1>2, <1>3
  <2>2. (q + j) % S = r - (d - j)
    BY <1>1, <2>1, UniqueRemainder
  <2> QED  BY <1>2, <2>2
<1>4. CASE r < d - j
  <2>1. PICK f \in 0 .. S - 1 : f = r - (d - j) + S
    BY <1>4
  <2>2. PICK m \in Nat : m = k * S /\ q + d = m + r
    BY <1>2
  <2>3. PICK e \in Nat : e = q + j /\ e = (m - S) + f
    BY <1>1, <2>1, <2>2
  <2>4. PICK k1 \in Int : k1 = k - 1 /\ k1 * S = m - S
    BY <1>2, <2>2
  <2>5. e % S = f
    <3>1. e = k1 * S + f
      BY <2>3, <2>4
    <3> QED  BY <3>1, UniqueRemainder
  <2> QED  BY <1>2, <1>4, <2>1, <2>3, <2>5
<1> QED  BY <1>3, <1>4

-----------------------------------------------------------------------------

\* The variables are times and a sector; nothing is in the buffer before the
\* first request.
HeadType ==
  /\ totalTicks \in Nat /\ bufferInit \in Nat /\ completes \in Nat /\ arrived \in Nat
  /\ lastSector \in Nat
  /\ ~Requested => bufferInit = 0

HeadIInv == HeadType /\ HeadInv

\* The seek and the rotation after it end at a sector boundary.
LEMMA TimesAre ==
  ASSUME HeadType, NEW s \in Nat
  PROVE  /\ Seek(s) \in Nat /\ Rotation(s) \in 0 .. RotationTime - 1
         /\ TimeAfter(s) \in Nat /\ TimeAfter(s) % RotationTime = 0
<1>1. /\ SectorsPerTrack \in Nat \ {0} /\ RotationTime \in Nat \ {0} /\ SeekTime \in Nat
      /\ lastSector \in Nat /\ totalTicks \in Nat
  BY HeadConstants DEF HeadType
<1>2. Track(s) \in Nat /\ Track(lastSector) \in Nat
  BY <1>1, Remainder DEF Track
<1>3. PICK n \in Nat : n = abs(Track(s) - Track(lastSector))
  BY <1>2 DEF abs
<1>4. Seek(s) \in Nat
  BY <1>1, <1>3 DEF Seek
<1>5. PICK x \in Nat : x = totalTicks + Seek(s)
  BY <1>1, <1>4
<1>6. Rotation(s) = IF x % RotationTime > 0 THEN RotationTime - (x % RotationTime) ELSE 0
  BY <1>5 DEF Rotation
<1>7. PICK rot : rot = Rotation(s)
  OBVIOUS
<1>8. rot \in 0 .. RotationTime - 1 /\ (x + rot) % RotationTime = 0
  BY <1>1, <1>6, <1>7, Boundary
<1>9. TimeAfter(s) = x + rot
  BY <1>5, <1>7 DEF TimeAfter
<1> QED  BY <1>4, <1>7, <1>8, <1>9

\* The sector under the head at the start of slot q, and how long until another
\* one is.
LEMMA ComesUnder ==
  ASSUME NEW s \in Nat, NEW q \in Nat
  PROVE  /\ ModuloDiff(s, q) \in 0 .. SectorsPerTrack - 1
         /\ UnderHead(s, (q + ModuloDiff(s, q)) * RotationTime)
         /\ \A t \in Nat : /\ q * RotationTime - RotationTime < t
                           /\ t < (q + ModuloDiff(s, q)) * RotationTime
                           => ~UnderHead(s, t)
<1>0. SectorsPerTrack \in Nat \ {0} /\ RotationTime \in Nat \ {0}
  BY HeadConstants
<1>1. PICK d : d = ModuloDiff(s, q)
  OBVIOUS
<1>2. d \in 0 .. SectorsPerTrack - 1 /\ (q + d) % SectorsPerTrack = s % SectorsPerTrack
  BY <1>1, TurnTo
<1>3. PICK c \in Nat : c = q + d
  BY <1>0, <1>2
<1>4. UnderHead(s, c * RotationTime)
  <2>1. (c * RotationTime) % RotationTime = 0 /\ (c * RotationTime) \div RotationTime = c
    BY <1>0, Multiple
  <2> QED  BY <1>2, <1>3, <2>1 DEF UnderHead
<1>5. ASSUME NEW t \in Nat, q * RotationTime - RotationTime < t, t < c * RotationTime,
             UnderHead(s, t)
      PROVE  FALSE
  <2>1. PICK k \in Nat : /\ k = t \div RotationTime /\ t = k * RotationTime
                         /\ k % SectorsPerTrack = s % SectorsPerTrack
    BY <1>0, <1>5, ExactQuotient DEF UnderHead
  <2>2. q - 1 < k /\ k < c
    <3>1. PICK q1 \in Int : q1 = q - 1
      OBVIOUS
    <3>2. q1 * RotationTime = q * RotationTime - RotationTime
      BY <1>0, <3>1
    <3>3. q1 < k
      BY <1>0, <1>5, <2>1, <3>2, Cancel
    <3>4. k < c
      BY <1>0, <1>5, <2>1, Cancel
    <3> QED  BY <3>1, <3>3, <3>4
  <2>3. PICK j \in 0 .. d - 1 : k = q + j
    <3>1. k - q \in 0 .. d - 1 /\ k = q + (k - q)
      BY <1>0, <1>2, <1>3, <2>1, <2>2
    <3> QED  BY <3>1
  <2>4. (q + j) % SectorsPerTrack # (q + d) % SectorsPerTrack
    BY <1>0, <1>2, NotBefore
  <2> QED  BY <1>2, <2>1, <2>3, <2>4
<1> QED  BY <1>1, <1>2, <1>3, <1>4, <1>5

\* The disk starts at tick 0 with an empty track buffer and no request.
LEMMA InitHead == HeadInit => HeadIInv
<1> SUFFICES ASSUME HeadInit PROVE HeadIInv
  OBVIOUS
<1>1. HeadType /\ ~Requested
  BY DEF HeadInit, HeadType, Requested
<1>2. BufferOfThisTrack
  BY <1>1, HeadConstants DEF HeadInit, BufferOfThisTrack
<1> QED  BY <1>1, <1>2 DEF HeadIInv, HeadInv, WholeSectorPasses, BufferHasSector

\* A request that the medium serves.
LEMMA MediumRequest ==
  ASSUME HeadIInv, NEW s \in Nat, NEW writing, HeadRequest(s, writing), ~BufferApplies(s, writing)
  PROVE  /\ completes' \in Nat /\ TimeAfter(s) < completes'
         /\ WholeSectorPasses' /\ BufferHasSector'
<1>0. HeadType /\ RotationTime \in Nat \ {0} /\ SectorsPerTrack \in Nat \ {0} /\ totalTicks \in Nat
  BY HeadConstants DEF HeadIInv, HeadType
<1>1. PICK seek \in Nat, rot \in 0 .. RotationTime - 1, after \in Nat :
        /\ seek = Seek(s) /\ rot = Rotation(s) /\ after = TimeAfter(s) /\ after % RotationTime = 0
        /\ after = totalTicks + seek + rot
  BY <1>0, TimesAre DEF TimeAfter
<1>2. PICK q \in Nat : q = after \div RotationTime /\ after = q * RotationTime
  BY <1>0, <1>1, ExactQuotient
<1>3. PICK d \in 0 .. SectorsPerTrack - 1 :
        /\ d = ModuloDiff(s, q) /\ UnderHead(s, (q + d) * RotationTime)
        /\ \A t \in Nat : q * RotationTime - RotationTime < t /\ t < (q + d) * RotationTime
                          => ~UnderHead(s, t)
  BY <1>1, <1>2, ComesUnder
<1>4. completes' = totalTicks + (seek + rot + d * RotationTime + RotationTime)
  BY <1>1, <1>2, <1>3 DEF HeadRequest, ComputeLatency
<1>5. PICK m \in Nat : m = d * RotationTime /\ (q + d) * RotationTime = q * RotationTime + m
  BY <1>0, <1>3
<1>6. /\ completes' \in Nat /\ after < completes' /\ completes' - RotationTime = (q + d) * RotationTime
      /\ completes' - RotationTime = after + m
  BY <1>0, <1>1, <1>2, <1>4, <1>5
<1>7. /\ latest'.sector = s /\ latest'.seek = seek /\ latest'.at = totalTicks /\ ~latest'.buffered
  BY <1>1 DEF HeadRequest
<1>8. WholeSectorPasses'
  <2>1. UnderHead(s, completes' - RotationTime)
    BY <1>3, <1>6
  <2>2. completes' - RotationTime >= totalTicks + seek
    BY <1>0, <1>1, <1>5, <1>6
  <2>3. ASSUME NEW t \in totalTicks + seek .. (completes' - RotationTime) - 1
        PROVE  ~UnderHead(s, t)
    <3>1. t \in Nat /\ q * RotationTime - RotationTime < t /\ t < (q + d) * RotationTime
      <4>1. completes' - RotationTime \in Nat /\ totalTicks + seek \in Nat
        <5>1. completes' - RotationTime = after + m
          BY <1>6
        <5> QED  BY <1>0, <1>1, <1>5, <5>1
      <4>2. t \in Nat /\ totalTicks + seek <= t /\ t < completes' - RotationTime
        BY <2>3, <4>1
      <4>3. after - RotationTime < t
        BY <1>0, <1>1, <4>2
      <4> QED  BY <1>2, <1>6, <4>2, <4>3
    <3> QED  BY <1>3, <3>1
  <2> QED  BY <1>7, <2>1, <2>2, <2>3 DEF WholeSectorPasses, UnderHead
<1>9. BufferHasSector'
  BY <1>7 DEF BufferHasSector
<1> QED  BY <1>1, <1>6, <1>8, <1>9

\* A request that the track buffer serves: its sector has passed.
LEMMA BufferedRequest ==
  ASSUME HeadIInv, NEW s \in Nat, NEW writing, HeadRequest(s, writing), BufferApplies(s, writing)
  PROVE  /\ completes' \in Nat /\ totalTicks < completes' /\ Seek(s) = 0
         /\ WholeSectorPasses' /\ BufferHasSector'
<1>0. /\ HeadType /\ RotationTime \in Nat \ {0} /\ SectorsPerTrack \in Nat \ {0} /\ totalTicks \in Nat
      /\ bufferInit \in Nat /\ bufferInit % RotationTime = 0 /\ bufferInit <= totalTicks
  <2>1. HeadType /\ BufferOfThisTrack /\ totalTicks >= completes
    BY DEF HeadIInv, HeadInv, HeadRequest
  <2>2. totalTicks \in Nat /\ bufferInit \in Nat /\ completes \in Nat
    BY <2>1 DEF HeadType
  <2>3. bufferInit <= totalTicks
    BY <2>1, <2>2 DEF HeadType, BufferOfThisTrack, Requested
  <2> QED  BY <2>1, <2>2, <2>3, HeadConstants DEF BufferOfThisTrack
<1>1. PICK rot \in 0 .. RotationTime - 1, after \in Nat :
        /\ Seek(s) = 0 /\ after = TimeAfter(s) /\ after % RotationTime = 0
        /\ after = totalTicks + rot
  <2>1. Seek(s) = 0
    BY DEF BufferApplies
  <2>2. PICK rot \in 0 .. RotationTime - 1, after \in Nat :
          /\ rot = Rotation(s) /\ after = TimeAfter(s) /\ after % RotationTime = 0
    BY <1>0, TimesAre
  <2>3. after = totalTicks + rot
    BY <1>0, <2>1, <2>2 DEF TimeAfter
  <2> QED  BY <2>1, <2>2, <2>3
<1>2. PICK q0, q1 \in Nat : /\ q0 = bufferInit \div RotationTime /\ bufferInit = q0 * RotationTime
                            /\ q1 = after \div RotationTime /\ after = q1 * RotationTime
  BY <1>0, <1>1, ExactQuotient
<1>3. PICK d \in 0 .. SectorsPerTrack - 1 :
        d = ModuloDiff(s, q0) /\ UnderHead(s, (q0 + d) * RotationTime)
  BY <1>2, ComesUnder
<1>4. (after - bufferInit) \div RotationTime > d
  BY <1>1, <1>2, <1>3 DEF BufferApplies
<1>5. PICK n \in Nat : n = q1 - q0 /\ after - bufferInit = n * RotationTime
  <2>1. q0 <= q1
    BY <1>0, <1>1, <1>2
  <2> QED  BY <1>0, <1>2, <2>1
<1>6. n > d
  BY <1>0, <1>4, <1>5, Multiple
<1>7. PICK start \in Nat : start = (q0 + d) * RotationTime
  BY <1>0, <1>2, <1>3
<1>8. bufferInit <= start /\ start <= totalTicks
  <2>1. PICK m \in Nat : m = d * RotationTime /\ start = bufferInit + m
    BY <1>0, <1>2, <1>3, <1>7
  <2>2. (d + 1) * RotationTime <= n * RotationTime /\ (d + 1) * RotationTime = m + RotationTime
    BY <1>0, <1>3, <1>5, <1>6, <2>1
  <2> QED  BY <1>0, <1>1, <1>5, <2>1, <2>2
<1>9. completes' = totalTicks + RotationTime
  BY DEF HeadRequest, ComputeLatency
<1>10. latest'.sector = s /\ latest'.buffered /\ latest'.since = bufferInit
  BY DEF HeadRequest
<1>11. BufferHasSector'
  <2>1. start \in bufferInit .. completes' - RotationTime
    BY <1>0, <1>7, <1>8, <1>9
  <2> QED  BY <1>3, <1>7, <1>10, <2>1 DEF BufferHasSector, UnderHead
<1>12. WholeSectorPasses'
  BY <1>10 DEF WholeSectorPasses
<1>13. completes' \in Nat /\ totalTicks < completes'
  BY <1>0, <1>9
<1> QED  BY <1>1, <1>11, <1>12, <1>13

\* ReadRequest and WriteRequest keep the invariant: the buffer is restarted by a
\* seek, at the sector boundary after it, and before the request completes.
LEMMA RequestHead ==
  ASSUME HeadIInv, NEW s \in Nat, NEW writing, HeadRequest(s, writing)
  PROVE  HeadIInv'
<1>0. /\ HeadType /\ BufferOfThisTrack /\ totalTicks >= completes
      /\ totalTicks \in Nat /\ completes \in Nat /\ bufferInit \in Nat /\ arrived \in Nat
  BY DEF HeadIInv, HeadInv, HeadType, HeadRequest
<1>1. /\ completes' \in Nat /\ totalTicks < completes' /\ WholeSectorPasses' /\ BufferHasSector'
      /\ Seek(s) # 0 => TimeAfter(s) < completes'
  <2>1. CASE BufferApplies(s, writing)
    BY <2>1, BufferedRequest
  <2>2. CASE ~BufferApplies(s, writing)
    <3>1. totalTicks <= TimeAfter(s)
      BY <1>0, TimesAre DEF TimeAfter
    <3>2. completes' \in Nat /\ TimeAfter(s) < completes' /\ WholeSectorPasses' /\ BufferHasSector'
      BY <2>2, MediumRequest
    <3>3. TimeAfter(s) \in Nat
      BY <1>0, TimesAre
    <3> QED  BY <1>0, <3>1, <3>2, <3>3
  <2> QED  BY <2>1, <2>2
<1>2. /\ bufferInit' \in Nat /\ arrived' \in Nat /\ bufferInit' >= arrived'
      /\ bufferInit' % RotationTime = 0 /\ bufferInit' < completes'
  <2>1. CASE Seek(s) = 0
    <3>1. bufferInit' = bufferInit /\ arrived' = arrived
      BY <2>1 DEF HeadRequest, UpdateLast
    <3>2. bufferInit <= totalTicks
      BY <1>0 DEF HeadType, BufferOfThisTrack, Requested
    <3> QED  BY <1>0, <1>1, <3>1, <3>2 DEF BufferOfThisTrack
  <2>2. CASE Seek(s) # 0
    <3>1. bufferInit' = TimeAfter(s) /\ arrived' = totalTicks + Seek(s)
      BY <2>2 DEF HeadRequest, UpdateLast
    <3>2. /\ Seek(s) \in Nat /\ Rotation(s) \in 0 .. RotationTime - 1
          /\ TimeAfter(s) \in Nat /\ TimeAfter(s) % RotationTime = 0
          /\ RotationTime \in Nat
      BY <1>0, TimesAre, HeadConstants
    <3>3. TimeAfter(s) >= totalTicks + Seek(s)
      BY <1>0, <3>2 DEF TimeAfter
    <3> QED  BY <1>0, <1>1, <2>2, <3>1, <3>2, <3>3
  <2> QED  BY <2>1, <2>2
<1>3. totalTicks' = totalTicks /\ lastSector' = s /\ Requested'
  BY <1>0, <1>1 DEF HeadRequest, UpdateLast, Requested
<1>4. HeadType' /\ BufferOfThisTrack'
  BY <1>0, <1>1, <1>2, <1>3 DEF HeadType, BufferOfThisTrack
<1> QED  BY <1>1, <1>4 DEF HeadIInv, HeadInv

\* Every step keeps the invariant.
LEMMA StepHead == HeadIInv /\ [HeadNext]_headVars => HeadIInv'
<1> SUFFICES ASSUME HeadIInv, [HeadNext]_headVars PROVE HeadIInv'
  OBVIOUS
<1>1. CASE Tick
  BY <1>1 DEF Tick, HeadIInv, HeadType, HeadInv, WholeSectorPasses, BufferHasSector,
              BufferOfThisTrack, Requested, UnderHead
<1>2. ASSUME NEW s \in 0..(NumSectors - 1), NEW writing \in BOOLEAN, HeadRequest(s, writing)
      PROVE  HeadIInv'
  <2>1. NumSectors \in Nat
    BY HeadConstants DEF NumSectors
  <2>2. s \in Nat
    BY <2>1
  <2> QED  BY <1>2, <2>2, RequestHead
<1>3. CASE UNCHANGED headVars
  BY <1>3 DEF headVars, HeadIInv, HeadType, HeadInv, WholeSectorPasses, BufferHasSector,
              BufferOfThisTrack, Requested, UnderHead
<1> QED  BY <1>1, <1>2, <1>3 DEF HeadNext

\* The latency that disk.cc computes is that of a disk turning under a head,
\* for every geometry and every speed: a request served by the medium ends
\* with the first complete pass of its sector, one served by the track buffer
\* asks for a sector that has passed since the buffer was started, and the
\* buffer never holds what was read before the last seek.
THEOREM LatencyIsExact == HeadSpec => []HeadInv
<1>1. HeadIInv => HeadInv
  BY DEF HeadIInv
<1> QED  BY <1>1, InitHead, StepHead, PTL DEF HeadSpec

-----------------------------------------------------------------------------
(* AddrSpaces: the inductive invariant. *)

\* How far a program has come.
Loading == {"code", "data", "ro", "loaded", "running"}
Phases == {"named", "forked", "opened", "finished"} \cup Loading

SpaceType ==
  /\ noffH \in [Program -> Files] /\ phase \in [Program -> Phases]
  /\ numPages \in [Program -> Nat] /\ stackReg \in [Program -> Int]
  /\ aborted \in BOOLEAN

\* A program that is being loaded has room for all its pages, or was the one to
\* fail an assertion of Load.
Fits(p) == numPages[p] = Pages(SpaceSize(noffH[p])) /\ numPages[p] <= NumPhysPages
Sized(p) ==
  /\ phase[p] \in {"named", "forked", "opened"} => numPages[p] = 0
  /\ phase[p] \in Loading => Fits(p) \/ (phase[p] = "code" /\ aborted)
  /\ phase[p] = "running" => /\ stackReg[p] = numPages[p] * PageSize - Gap
                             /\ running[1] = p => running[2] = numPages[p]

\* No thread runs before all have been made, and memory been cleared.
ClearedBefore == \A p \in Program : phase[p] \notin {"named", "forked"} => MainFinished

\* Memory holds what has been read, and zeroes where nothing has.
ByteRead(a) ==
  \/ mainMemory[a] = ZeroByte /\ \A q \in Program : ~Covers(q, a)
  \/ \E q \in Program : Covers(q, a) /\ mainMemory[a] = <<q, a>>
MemoryRead == \A a \in Address : ByteRead(a)

\* The inductive invariant of the address spaces.
SpaceIInv == SpaceType /\ ClearedBefore /\ MemoryRead /\ \A p \in Program : Sized(p)

\* divRoundUp gives enough pages.
LEMMA RoundUp ==
  ASSUME NEW n \in Nat, NEW S \in Nat \ {0}
  PROVE  /\ (n + S - 1) \div S \in Nat
         /\ n <= ((n + S - 1) \div S) * S
OBVIOUS

\* A page is one of the space's exactly when its addresses are.
LEMMA PageBelow ==
  ASSUME NEW a \in Nat, NEW n \in Nat, NEW S \in Nat \ {0}
  PROVE  a \div S \in Nat /\ (a \div S >= n <=> a >= n * S)
OBVIOUS

\* Fewer pages are fewer bytes.
LEMMA PagesWithin ==
  ASSUME NEW m \in Nat, NEW n \in Nat, NEW S \in Nat, m <= n
  PROVE  m * S \in Nat /\ m * S <= n * S
OBVIOUS

\* The sizes of an executable.
LEMMA SizesAre ==
  ASSUME SpaceType, NEW p \in Program
  PROVE  /\ noffH[p].code \in Nat /\ noffH[p].ro \in Nat /\ noffH[p].data \in Nat
         /\ noffH[p].bss \in Nat
         /\ SpaceSize(noffH[p]) \in Nat /\ Pages(SpaceSize(noffH[p])) \in Nat
         /\ SpaceSize(noffH[p]) <= Pages(SpaceSize(noffH[p])) * PageSize
         /\ Pages(SpaceSize(noffH[p])) # 0
<1>1. noffH[p] \in Files
  BY DEF SpaceType
<1>2. /\ noffH[p].code \in Nat /\ noffH[p].ro \in Nat /\ noffH[p].data \in Nat
      /\ noffH[p].bss \in Nat /\ PageSize \in Nat \ {0} /\ UserStackSize \in Nat
  BY <1>1, SpaceConstants
<1>3. SpaceSize(noffH[p]) \in Nat \ {0}
  BY <1>2, SpaceConstants DEF SpaceSize
<1>4. PICK size \in Nat \ {0}, page \in Nat \ {0} : size = SpaceSize(noffH[p]) /\ page = PageSize
  BY <1>2, <1>3
<1>5. /\ (size + page - 1) \div page \in Nat
      /\ size <= ((size + page - 1) \div page) * page
      /\ (size + page - 1) \div page # 0
  <2>1. /\ (size + page - 1) \div page \in Nat
        /\ size <= ((size + page - 1) \div page) * page
    BY RoundUp
  <2>2. 0 * page = 0
    OBVIOUS
  <2> QED  BY <2>1, <2>2
<1>6. Pages(size) \in Nat /\ size <= Pages(size) * page /\ Pages(size) # 0
  BY <1>4, <1>5 DEF Pages
<1> QED  BY <1>2, <1>4, <1>6

\* main has not begun: every program is only named, and memory is clear.
LEMMA InitSpace == SpaceInit => SpaceIInv
<1> SUFFICES ASSUME SpaceInit PROVE SpaceIInv
  OBVIOUS
<1>1. SpaceType
  <2>1. "named" \in Phases /\ 0 \in Nat /\ 0 \in Int
    BY DEF Phases
  <2> QED  BY <2>1 DEF SpaceInit, SpaceType
<1>2. \A p \in Program : phase[p] = "named"
  BY DEF SpaceInit
<1>3. \A a \in Address : mainMemory[a] = ZeroByte
  BY DEF SpaceInit
<1>4. \A p \in Program : Sized(p) /\ numPages[p] = 0
  BY <1>2 DEF Sized, Loading, SpaceInit
<1>5. MemoryRead
  BY <1>3, <1>4 DEF MemoryRead, ByteRead, Covers, SegmentsRead
<1> QED  BY <1>1, <1>2, <1>4, <1>5 DEF SpaceIInv, ClearedBefore

\* Memory and the segments read stay as they are.
LEMMA MemoryKept ==
  ASSUME MemoryRead, UNCHANGED <<noffH, mainMemory>>,
         \A q \in Program : SegmentsRead(q)' = SegmentsRead(q)
  PROVE  MemoryRead'
<1>1. \A q \in Program : \A a : Covers(q, a)' <=> Covers(q, a)
  BY DEF Covers, Segment
<1> QED  BY <1>1 DEF MemoryRead, ByteRead

\* A program goes on without reading a segment.
LEMMA NothingRead ==
  ASSUME SpaceType, MemoryRead, UNCHANGED <<noffH, mainMemory>>, NEW p \in Program, NEW label,
         phase' = [phase EXCEPT ![p] = label],
         \A q \in Program \ {p} : numPages'[q] = numPages[q],
         \/ numPages[p] = 0 /\ numPages'[p] = 0
         \/ numPages[p] = 0 /\ label = "code"
         \/ /\ numPages'[p] = numPages[p]
            /\ phase[p] \notin {"code", "data", "ro"} /\ label \notin {"code", "data", "ro"}
  PROVE  MemoryRead'
<1>1. phase'[p] = label /\ \A q \in Program \ {p} : phase'[q] = phase[q]
  BY DEF SpaceType
<1>2. \A q \in Program \ {p} : SegmentsRead(q)' = SegmentsRead(q)
  BY <1>1 DEF SegmentsRead
<1>3. SegmentsRead(p)' = SegmentsRead(p)
  BY <1>1 DEF SegmentsRead
<1> QED  BY <1>2, <1>3, MemoryKept

\* Every step keeps the invariant.
LEMMA StepSpace ==
  ASSUME SpaceIInv, [SpaceNext]_spaceVars
  PROVE  SpaceIInv'
<1>0. /\ SpaceType /\ ClearedBefore /\ MemoryRead /\ \A p \in Program : Sized(p)
  BY DEF SpaceIInv
<1>t. /\ noffH \in [Program -> Files] /\ phase \in [Program -> Phases]
      /\ numPages \in [Program -> Nat] /\ stackReg \in [Program -> Int]
      /\ aborted \in BOOLEAN
  BY DEF SpaceIInv, SpaceType
<1>1. CASE UNCHANGED spaceVars
  <2>1. SpaceType' /\ ClearedBefore'
    BY <1>0, <1>1 DEF spaceVars, SpaceType, ClearedBefore, MainFinished
  <2>2. \A p \in Program : Sized(p)'
    BY <1>0, <1>1 DEF spaceVars, Sized, Fits
  <2>3. UNCHANGED <<noffH, mainMemory>> /\ \A q \in Program : SegmentsRead(q)' = SegmentsRead(q)
    BY <1>1 DEF spaceVars, SegmentsRead
  <2>4. MemoryRead'
    BY <1>0, <2>3, MemoryKept
  <2> QED  BY <2>1, <2>2, <2>4 DEF SpaceIInv
<1>2. ASSUME NEW p \in Program, Exec(p)
      PROVE  SpaceIInv'
  <2>1. /\ phase[p] = "named" /\ phase' = [phase EXCEPT ![p] = "forked"]
        /\ UNCHANGED <<noffH, numPages, running, stackReg, aborted>>
    BY <1>2 DEF Exec
  <2>2. \A a \in Address : mainMemory'[a] = ZeroByte
    BY <1>2 DEF Exec
  <2>3. /\ phase'[p] = "forked" /\ \A q \in Program \ {p} : phase'[q] = phase[q]
        /\ phase' \in [Program -> Phases]
    BY <1>0, <2>1 DEF SpaceType, Phases
  <2>4. \A q \in Program : phase'[q] \in {"named", "forked"}
    BY <1>0, <2>1, <2>3 DEF ClearedBefore, MainFinished
  <2>5. SpaceType' /\ ClearedBefore'
    BY <1>0, <2>1, <2>3, <2>4 DEF SpaceType, ClearedBefore
  <2>6. \A q \in Program : phase[q] \in {"named", "forked"}
    BY <2>1, <2>3, <2>4
  <2>7. \A q \in Program : numPages'[q] = 0
    BY <1>0, <2>1, <2>6 DEF Sized
  <2>8. \A q \in Program : Sized(q)'
    BY <2>4, <2>7 DEF Sized, Loading
  <2>9. MemoryRead'
    BY <2>2, <2>7 DEF MemoryRead, ByteRead, Covers, SegmentsRead
  <2> QED  BY <2>5, <2>8, <2>9 DEF SpaceIInv
\* The other steps are of one thread, after main has finished.
<1>3. ASSUME NEW p \in Program, Turn(p), NEW label \in Phases \ {"named", "forked"},
             phase[p] # "named",
             phase' = [phase EXCEPT ![p] = label], UNCHANGED noffH,
             numPages' \in [Program -> Nat], stackReg' \in [Program -> Int],
             \A q \in Program \ {p} : numPages'[q] = numPages[q] /\ stackReg'[q] = stackReg[q],
             aborted' \in BOOLEAN,
             running' = running \/ running'[1] = p,
             Sized(p)', MemoryRead'
      PROVE  SpaceIInv'
  <2>1. /\ phase'[p] = label /\ \A q \in Program \ {p} : phase'[q] = phase[q]
        /\ phase' \in [Program -> Phases]
    BY <1>0, <1>3 DEF SpaceType
  <2>2. SpaceType'
    BY <1>0, <1>3, <2>1 DEF SpaceType
  <2>3. ClearedBefore'
    BY <1>3, <2>1 DEF ClearedBefore, MainFinished, Turn
  <2>4. ASSUME NEW q \in Program \ {p}
        PROVE  Sized(q)'
    <3>1. phase'[q] = phase[q] /\ numPages'[q] = numPages[q] /\ stackReg'[q] = stackReg[q]
          /\ noffH' = noffH /\ Sized(q) /\ ~aborted
      BY <1>0, <1>3, <2>1, <2>4 DEF Turn
    <3>2. running'[1] = q => running' = running
      BY <1>3, <2>4
    <3> QED  BY <3>1, <3>2 DEF Sized, Fits
  <2> QED  BY <1>3, <2>2, <2>3, <2>4 DEF SpaceIInv
<1>4. ASSUME NEW p \in Program, Open(p)
      PROVE  SpaceIInv'
  <2>1. PICK label : label = IF noffH[p].kind # "none" THEN "opened" ELSE "finished"
    OBVIOUS
  <2>2. /\ Turn(p) /\ phase[p] = "forked" /\ phase' = [phase EXCEPT ![p] = label]
        /\ UNCHANGED <<noffH, mainMemory, numPages, running, stackReg, aborted>>
    BY <1>4, <2>1 DEF Open
  <2>3. phase'[p] = label /\ numPages[p] = 0 /\ numPages'[p] = 0
    BY <1>0, <1>t, <2>2 DEF Sized
  <2>4. Sized(p)'
    BY <2>1, <2>3 DEF Sized, Loading
  <2>5. MemoryRead'
    BY <1>0, <2>2, <2>3, NothingRead
  <2>6. label \in Phases \ {"named", "forked"}
    BY <2>1 DEF Phases
  <2> QED  BY <1>t, <1>3, <2>2, <2>4, <2>5, <2>6
<1>5. ASSUME NEW p \in Program, ReadHeader(p)
      PROVE  SpaceIInv'
  <2>1. PICK n : n = IF noffH[p].kind = "noff" THEN Pages(SpaceSize(noffH[p])) ELSE numPages[p]
    OBVIOUS
  <2>2. /\ Turn(p) /\ phase[p] = "opened" /\ phase' = [phase EXCEPT ![p] = "code"]
        /\ numPages' = [numPages EXCEPT ![p] = n]
        /\ aborted' = (noffH[p].kind # "noff" \/ n > NumPhysPages)
        /\ UNCHANGED <<noffH, mainMemory, running, stackReg>>
    BY <1>5, <2>1 DEF ReadHeader
  <2>3. n \in Nat /\ NumPhysPages \in Nat
    <3>1. SpaceType
      BY <1>0
    <3>2. Pages(SpaceSize(noffH[p])) \in Nat /\ numPages[p] \in Nat
      BY <1>t, <3>1, SizesAre
    <3> QED  BY <2>1, <3>2, SpaceConstants
  <2>4. /\ phase'[p] = "code" /\ numPages'[p] = n /\ numPages' \in [Program -> Nat]
        /\ \A q \in Program \ {p} : numPages'[q] = numPages[q]
    BY <1>t, <2>2, <2>3
  <2>5. aborted' \in BOOLEAN /\ (aborted' \/ (noffH[p].kind = "noff" /\ n <= NumPhysPages))
    <3>1. n > NumPhysPages \/ n <= NumPhysPages
      BY <2>3
    <3> QED  BY <2>2, <3>1
  <2>6. Sized(p)'
    <3>1. ~aborted' => n = Pages(SpaceSize(noffH[p])) /\ n <= NumPhysPages
      BY <2>1, <2>5
    <3> QED  BY <2>2, <2>4, <3>1 DEF Sized, Fits
  <2>7. MemoryRead'
    <3>1. numPages[p] = 0
      BY <1>0, <2>2 DEF Sized
    <3> QED  BY <1>0, <2>2, <2>4, <3>1, NothingRead
  <2>8. "code" \in Phases \ {"named", "forked"}
    BY DEF Phases, Loading
  <2> QED  BY <1>t, <1>3, <2>2, <2>4, <2>5, <2>6, <2>7, <2>8
<1>6. ASSUME NEW p \in Program, LoadSegment(p)
      PROVE  SpaceIInv'
  <2>1. PICK seg, label : /\ seg = phase[p]
                          /\ label = [code |-> "data", data |-> "ro", ro |-> "loaded"][seg]
    OBVIOUS
  <2>2. /\ Turn(p) /\ seg \in {"code", "data", "ro"} /\ phase' = [phase EXCEPT ![p] = label]
        /\ mainMemory' = ReadAt(p, seg)
        /\ UNCHANGED <<noffH, numPages, running, stackReg, aborted>>
    BY <1>6, <2>1 DEF LoadSegment
  <2>3. /\ seg = "code" => label = "data"
        /\ seg = "data" => label = "ro"
        /\ seg = "ro" => label = "loaded"
    BY <2>1
  <2>4. phase'[p] = label
    BY <1>t, <2>2
  <2>5. seg \in Loading /\ label \in Loading /\ label \in Phases \ {"named", "forked"}
        /\ label # "running" /\ label # "finished" /\ seg # "finished"
    BY <2>2, <2>3 DEF Loading, Phases
  <2>6. Sized(p)' /\ numPages[p] # 0
    <3>1. Fits(p)
      BY <1>0, <2>1, <2>2, <2>5 DEF Sized, Turn
    <3>2. Fits(p)'
      BY <2>2, <3>1 DEF Fits
    <3>3. Pages(SpaceSize(noffH[p])) # 0
      BY <1>0, SizesAre
    <3> QED  BY <2>4, <2>5, <3>1, <3>2, <3>3 DEF Sized, Fits, Loading
  <2>7. \A s : s \in SegmentsRead(p)' <=> s \in SegmentsRead(p) \/ s = seg
    BY <2>1, <2>2, <2>3, <2>4, <2>6 DEF SegmentsRead
  <2>8. \A a \in Address : mainMemory'[a] = IF a \in Segment(p, seg) THEN <<p, a>> ELSE mainMemory[a]
    BY <2>2 DEF ReadAt, Segment
  <2>9. MemoryRead'
    <3>1. \A q, s : Segment(q, s)' = Segment(q, s)
      BY <2>2 DEF Segment
    <3>2. \A q \in Program \ {p} : SegmentsRead(q)' = SegmentsRead(q)
      <4>1. \A q \in Program \ {p} : phase'[q] = phase[q] /\ numPages'[q] = numPages[q]
        BY <1>t, <2>2
      <4> QED  BY <4>1 DEF SegmentsRead
    <3>3. \A q \in Program \ {p} : \A a : Covers(q, a)' <=> Covers(q, a)
      BY <3>1, <3>2 DEF Covers
    <3>4. \A a : Covers(p, a)' <=> Covers(p, a) \/ a \in Segment(p, seg)
      BY <2>7, <3>1 DEF Covers
    <3> SUFFICES ASSUME NEW a \in Address PROVE ByteRead(a)'
      BY DEF MemoryRead
    <3>5. CASE a \in Segment(p, seg)
      BY <2>8, <3>4, <3>5 DEF ByteRead
    <3>6. CASE a \notin Segment(p, seg)
      <4>1. ByteRead(a) /\ mainMemory'[a] = mainMemory[a]
        BY <1>0, <2>8, <3>6 DEF MemoryRead
      <4>2. \A q \in Program : Covers(q, a)' <=> Covers(q, a)
        BY <3>3, <3>4, <3>6
      <4> QED  BY <4>1, <4>2 DEF ByteRead
    <3> QED  BY <3>5, <3>6
  <2> QED  BY <1>t, <1>3, <2>1, <2>2, <2>5, <2>6, <2>9
<1>7. ASSUME NEW p \in Program, Execute(p)
      PROVE  SpaceIInv'
  <2>1. /\ Turn(p) /\ phase[p] = "loaded" /\ phase' = [phase EXCEPT ![p] = "running"]
        /\ stackReg' = [stackReg EXCEPT ![p] = numPages[p] * PageSize - Gap]
        /\ running' = <<p, numPages[p]>>
        /\ UNCHANGED <<noffH, mainMemory, numPages, aborted>>
    BY <1>7 DEF Execute
  <2>2. numPages[p] * PageSize - Gap \in Int
    BY <1>t, SpaceConstants
  <2>3. /\ phase'[p] = "running" /\ stackReg' \in [Program -> Int]
        /\ stackReg'[p] = numPages[p] * PageSize - Gap
        /\ \A q \in Program \ {p} : stackReg'[q] = stackReg[q]
    BY <1>t, <2>1, <2>2
  <2>4. running'[1] = p /\ running'[2] = numPages[p]
    BY <2>1
  <2>5. Sized(p)'
    BY <1>0, <2>1, <2>3, <2>4 DEF Sized, Fits, Loading
  <2>6. MemoryRead'
    <3>1. \A q \in Program : numPages'[q] = numPages[q]
      BY <2>1
    <3> QED  BY <1>0, <2>1, <3>1, NothingRead
  <2>7. "running" \in Phases \ {"named", "forked"}
    BY DEF Phases, Loading
  <2> QED  BY <1>t, <1>3, <2>1, <2>3, <2>4, <2>5, <2>6, <2>7
<1>8. ASSUME NEW p \in Program, Resume(p)
      PROVE  SpaceIInv'
  <2>1. /\ Turn(p) /\ phase[p] = "running" /\ running' = <<p, numPages[p]>>
        /\ UNCHANGED <<noffH, mainMemory, phase, numPages, stackReg, aborted>>
    BY <1>8 DEF Resume
  <2>2. running'[1] = p /\ running'[2] = numPages[p] /\ phase' = [phase EXCEPT ![p] = "running"]
    BY <1>t, <2>1
  <2>3. Sized(p)'
    BY <1>0, <2>1, <2>2 DEF Sized, Fits
  <2>5. MemoryRead'
    <3>1. \A q \in Program : numPages'[q] = numPages[q]
      BY <2>1
    <3> QED  BY <1>0, <2>1, <2>2, <3>1, NothingRead
  <2>4. "running" \in Phases \ {"named", "forked"}
    BY DEF Phases, Loading
  <2> QED  BY <1>t, <1>3, <2>1, <2>2, <2>3, <2>4, <2>5
<1>9. ASSUME NEW p \in Program, Exit(p)
      PROVE  SpaceIInv'
  <2>1. /\ Turn(p) /\ phase[p] = "running" /\ phase' = [phase EXCEPT ![p] = "finished"]
        /\ UNCHANGED <<noffH, mainMemory, numPages, running, stackReg, aborted>>
    BY <1>9 DEF Exit
  <2>2. phase'[p] = "finished"
    BY <1>t, <2>1
  <2>3. Sized(p)'
    BY <2>2 DEF Sized, Loading
  <2>5. MemoryRead'
    <3>1. \A q \in Program : numPages'[q] = numPages[q]
      BY <2>1
    <3> QED  BY <1>0, <2>1, <3>1, NothingRead
  <2>4. "finished" \in Phases \ {"named", "forked"}
    BY DEF Phases
  <2> QED  BY <1>t, <1>3, <2>1, <2>3, <2>4, <2>5
<1> QED  BY <1>1, <1>2, <1>4, <1>5, <1>6, <1>7, <1>8, <1>9 DEF SpaceNext

-----------------------------------------------------------------------------

\* A program that runs has room for its image and stack in the memory it has.
LEMMA RoomInMemory ==
  ASSUME SpaceIInv, NEW p \in Program, Live(p)
  PROVE  /\ numPages[p] \in Nat /\ numPages[p] <= NumPhysPages
         /\ SpaceSize(noffH[p]) <= numPages[p] * PageSize
         /\ numPages[p] * PageSize \in Nat /\ numPages[p] * PageSize <= MemorySize
         /\ MemorySize \in Nat
         /\ stackReg[p] = numPages[p] * PageSize - Gap
         /\ running[2] = numPages[p]
<1>1. SpaceType /\ Sized(p) /\ phase[p] = "running" /\ running[1] = p
  <2>1. phase[p] = "running" /\ running[1] = p
    BY DEF Live
  <2> QED  BY <2>1 DEF SpaceIInv
<1>2. /\ numPages[p] = Pages(SpaceSize(noffH[p])) /\ numPages[p] <= NumPhysPages
      /\ stackReg[p] = numPages[p] * PageSize - Gap /\ running[2] = numPages[p]
  BY <1>1 DEF Sized, Fits, Loading
<1>3. /\ numPages[p] \in Nat /\ NumPhysPages \in Nat /\ PageSize \in Nat
      /\ SpaceSize(noffH[p]) <= numPages[p] * PageSize
  <2>1. numPages[p] \in Nat
    BY <1>1 DEF SpaceType
  <2>2. SpaceSize(noffH[p]) <= numPages[p] * PageSize
    BY <1>1, <1>2, SizesAre
  <2> QED  BY <2>1, <2>2, SpaceConstants
<1>4. numPages[p] * PageSize \in Nat /\ numPages[p] * PageSize <= MemorySize /\ MemorySize \in Nat
  <2>1. PICK n, most, size \in Nat : n = numPages[p] /\ most = NumPhysPages /\ size = PageSize
    BY <1>3
  <2>2. n <= most
    BY <1>2, <2>1
  <2>3. n * size \in Nat /\ n * size <= most * size /\ most * size \in Nat
    BY <2>2, PagesWithin
  <2> QED  BY <2>1, <2>3 DEF MemorySize
<1> QED  BY <1>2, <1>3, <1>4

\* An address is one of the program's image or behind it.
LEMMA ImageInPlace ==
  ASSUME SpaceIInv, NEW p \in Program, Live(p), NEW a \in 0 .. numPages[p] * PageSize - 1
  PROVE  \/ mainMemory[a] = Image(p, a)
         \/ \E q \in Program \ {p} : Covers(q, a) /\ mainMemory[a] = <<q, a>>
<1>0. SpaceType /\ MemoryRead /\ Sized(p) /\ phase[p] = "running"
  BY DEF SpaceIInv, Live
<1>1. PICK code, ro, data \in Nat :
         /\ code = noffH[p].code /\ ro = noffH[p].ro /\ data = noffH[p].data
  BY <1>0, SizesAre
<1>2. a \in Nat /\ a \in Address
  <2>1. numPages[p] * PageSize \in Nat /\ MemorySize \in Nat /\ numPages[p] * PageSize <= MemorySize
    BY RoomInMemory
  <2> QED  BY <2>1 DEF Address
<1>3. /\ Segment(p, "code") = 0 .. 0 + code - 1
      /\ Segment(p, "ro") = code .. code + ro - 1
      /\ Segment(p, "data") = code + ro .. code + ro + data - 1
  BY <1>1 DEF Segment, Start
<1>4. (a \in Segment(p, "code") \/ a \in Segment(p, "ro") \/ a \in Segment(p, "data"))
        <=> a < code + ro + data
  <2>1. /\ a \in Segment(p, "code") <=> a < code
        /\ a \in Segment(p, "ro") <=> code <= a /\ a < code + ro
        /\ a \in Segment(p, "data") <=> code + ro <= a /\ a < code + ro + data
    BY <1>2, <1>3
  <2> QED  BY <1>2, <2>1
<1>5. SegmentsRead(p) = {"code", "data", "ro"}
  <2>1. numPages[p] # 0
    BY <1>0, SizesAre DEF Sized, Fits, Loading
  <2> QED  BY <1>0, <2>1 DEF SegmentsRead
<1>6. Covers(p, a) <=> a < code + ro + data
  BY <1>4, <1>5 DEF Covers
<1>7. Image(p, a) = IF Covers(p, a) THEN <<p, a>> ELSE ZeroByte
  BY <1>1, <1>6 DEF Image
<1>8. ByteRead(a)
  BY <1>0, <1>2 DEF MemoryRead
<1> QED  BY <1>7, <1>8 DEF ByteRead

\* Both translations ask whether the page is one of the space's, and find its
\* frame.
LEMMA SameTranslation ==
  ASSUME NEW p \in Program, NEW n \in 0 .. NumPhysPages, numPages[p] = n, NEW a \in Nat,
         NEW writing \in BOOLEAN
  PROVE  LET s == SpaceTranslate(p, a, writing)
         IN  /\ s.exception = Machine(n)!Translate(a, 1, writing)
             /\ s.exception = "none" => s.paddr = Machine(n)!Physical(a)
             /\ s.use = Machine(n)!UseBits(a, 1, writing)
             /\ s.dirty = Machine(n)!DirtyBits(a, 1, writing)
<1>1. PageSize \in Nat \ {0} /\ NumPhysPages \in Nat
  BY SpaceConstants
<1>2. PICK page \in Nat : page = a \div PageSize
  BY <1>1, PageBelow
<1>3. a % 1 = 0
  OBVIOUS
<1>4. Len(Table(n)) = n
  BY <1>1 DEF Table
<1>s. PICK s : s = SpaceTranslate(p, a, writing)
  OBVIOUS
<1>5. CASE page >= n
  <2>1. Machine(n)!Translate(a, 1, writing) = "AddressError"
    BY <1>2, <1>3, <1>4, <1>5 DEF Machine!Translate, Machine!Page
  <2>2. Machine(n)!UseBits(a, 1, writing) = {} /\ Machine(n)!DirtyBits(a, 1, writing) = {}
    BY <2>1 DEF Machine!UseBits, Machine!DirtyBits
  <2>3. s = [exception |-> "AddressError", paddr |-> 0, use |-> {}, dirty |-> {}]
    BY <1>2, <1>5, <1>s DEF SpaceTranslate
  <2>4. s.exception = "AddressError" /\ s.use = {} /\ s.dirty = {}
    BY <2>3
  <2> QED  BY <1>s, <2>1, <2>2, <2>4
<1>6. CASE ~(page >= n)
  <2>1. page + 1 \in 1 .. n /\ page + 1 \in 1 .. NumPhysPages /\ ~(page >= NumPhysPages)
    BY <1>1, <1>2, <1>6
  <2>2. /\ Table(n)[page + 1] = [valid |-> TRUE, readOnly |-> FALSE, physicalPage |-> (page + 1) - 1]
        /\ Table(NumPhysPages)[page + 1]
             = [valid |-> TRUE, readOnly |-> FALSE, physicalPage |-> (page + 1) - 1]
    BY <2>1 DEF Table
  <2>3. PICK pte : pte = Table(NumPhysPages)[page + 1]
    OBVIOUS
  <2>4. pte.valid /\ ~pte.readOnly /\ pte.physicalPage = page
    BY <1>2, <2>2, <2>3
  <2>5. Machine(n)!Entry(a) = pte /\ Machine(n)!Page(a) = page
    BY <1>2, <2>2, <2>3 DEF Machine!Entry, Machine!Page
  <2>6. Machine(n)!Translate(a, 1, writing) = "none"
    BY <1>3, <1>4, <1>6, <2>1, <2>4, <2>5 DEF Machine!Translate
  <2>7. /\ Machine(n)!UseBits(a, 1, writing) = {page}
        /\ Machine(n)!DirtyBits(a, 1, writing) = IF writing THEN {page} ELSE {}
    BY <2>5, <2>6 DEF Machine!UseBits, Machine!DirtyBits
  <2>8. PICK paddr : paddr = page * PageSize + (a % PageSize)
    OBVIOUS
  <2>9. Machine(n)!Physical(a) = paddr
    BY <2>4, <2>5, <2>8 DEF Machine!Physical
  <2>10. paddr < MemorySize
    <3>1. PICK S \in Nat \ {0} : S = PageSize
      BY <1>1
    <3>2. page * S + (a % S) = a /\ a < (page + 1) * S
      BY <1>2, <3>1
    <3>3. (page + 1) * S <= NumPhysPages * S
      BY <1>1, <2>1, PagesWithin
    <3>4. a < NumPhysPages * S
      BY <1>1, <3>2, <3>3
    <3> QED  BY <2>8, <3>1, <3>2, <3>4 DEF MemorySize
  <2>11. s = [exception |-> "none", paddr |-> paddr, use |-> {page},
              dirty |-> IF writing THEN {page} ELSE {}]
    BY <1>2, <1>6, <1>s, <2>1, <2>3, <2>4, <2>8, <2>10 DEF SpaceTranslate
  <2>12. /\ s.exception = "none" /\ s.paddr = paddr /\ s.use = {page}
         /\ s.dirty = IF writing THEN {page} ELSE {}
    BY <2>11
  <2> QED  BY <1>s, <2>6, <2>7, <2>9, <2>12
<1> QED  BY <1>5, <1>6

\* AddrSpace, for any sizes of executables, pages and memory: the stack has its
\* UserStackSize above the data, a program finds its whole image but for what
\* other programs were read over it, and the two translations of user addresses
\* agree.
THEOREM ProgramsFindTheirSpace == SpaceSpec => []SpaceInv
<1>1. SpaceInit => SpaceIInv
  BY InitSpace
<1>2. SpaceIInv /\ [SpaceNext]_spaceVars => SpaceIInv'
  BY StepSpace
<1>3. SpaceIInv => SpaceInv
  <2> SUFFICES ASSUME SpaceIInv PROVE SpaceInv
    OBVIOUS
  <2>1. StackAboveData
    <3> SUFFICES ASSUME NEW p \in Program, Live(p)
                 PROVE  /\ stackReg[p] + Gap - UserStackSize >= End(noffH[p])
                        /\ stackReg[p] + Gap <= MemorySize
      BY DEF StackAboveData
    <3>1. PICK top \in Nat : top = numPages[p] * PageSize
      BY RoomInMemory
    <3>2. PICK end \in Nat : end = End(noffH[p]) /\ SpaceSize(noffH[p]) = end + UserStackSize
      <4>1. SpaceType
        BY DEF SpaceIInv
      <4>2. /\ noffH[p].code \in Nat /\ noffH[p].ro \in Nat /\ noffH[p].data \in Nat
            /\ noffH[p].bss \in Nat
        BY <4>1, SizesAre
      <4>3. End(noffH[p]) \in Nat
        BY <4>2 DEF End
      <4>4. SpaceSize(noffH[p]) = End(noffH[p]) + UserStackSize
        BY <4>2, SpaceConstants DEF End, SpaceSize
      <4> QED  BY <4>3, <4>4
    <3>3. /\ end + UserStackSize <= top /\ top <= MemorySize /\ stackReg[p] = top - Gap
          /\ MemorySize \in Int
      BY <3>1, <3>2, RoomInMemory, SpaceConstants DEF MemorySize
    <3> QED  BY <3>2, <3>3, SpaceConstants
  <2>2. ImageFound
    BY ImageInPlace DEF ImageFound
  <2>3. TranslationsAgree
    <3> SUFFICES ASSUME NEW p \in Program, Live(p), NEW n \in 0 .. NumPhysPages, running[2] = n,
                        NEW a \in 0 .. MemorySize + PageSize, NEW writing \in BOOLEAN
                 PROVE  LET s == SpaceTranslate(p, a, writing)
                        IN  /\ s.exception = Machine(n)!Translate(a, 1, writing)
                            /\ s.exception = "none" => s.paddr = Machine(n)!Physical(a)
                            /\ s.use = Machine(n)!UseBits(a, 1, writing)
                            /\ s.dirty = Machine(n)!DirtyBits(a, 1, writing)
      BY DEF TranslationsAgree
    <3>1. numPages[p] = n /\ a \in Nat
      BY RoomInMemory
    <3> QED  BY <3>1, SameTranslation
  <2> QED  BY <2>1, <2>2, <2>3 DEF SpaceInv
<1> QED  BY <1>1, <1>2, <1>3, PTL DEF SpaceSpec
=============================================================================
