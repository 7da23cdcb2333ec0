------------------------------ MODULE Console -------------------------------
(***************************************************************************)
(* The console device (src/machine/console.cc), SynchConsoleInput and      *)
(* SynchConsoleOutput (src/userprog/synchconsole.cc), kernel threads that  *)
(* run the loop of Kernel::ConsoleTest or just write, and the way the      *)
(* kernel idles and halts (Thread::Sleep, Kernel::PrepareToEnd).           *)
(* Semaphores are those of module Semaphore.                               *)
(***************************************************************************)
EXTENDS Naturals, Sequences, Functions

CONSTANTS
  Reader,     \* threads in ConsoleTest
  Writer,     \* threads that call SynchConsoleOutput::PutChar
  Char, EOF,  \* the bytes a user may type: 255 read into a char is EOF
  MaxTyped,   \* bound: the bytes typed
  MaxPuts     \* bound: the calls of one writer

\* Writers have something to write.
ASSUME ConsoleConstants == MaxPuts \in Nat \ {0}

VARIABLES
  typed,      \* history: all that has been typed
  unread,     \* what PollFile and ReadPartial have still to find
  closed,     \* no more input: the end of the file, or ^D
  poll,       \* a ConsoleReadInt is pending
  incoming, disabled, putBusy,
  inLock, inWait, outLock, outWait,   \* the semaphores' values
  at,         \* where each thread is
  received,   \* history: the characters GetChar returned, to whichever reader
  told,       \* history: a GetChar has returned EOF
  puts,       \* how many characters each writer has put
  others,     \* the other threads of the kernel: "running", "waiting", "gone"
  halted
input == <<typed, unread, closed>>
inDev == <<poll, incoming, disabled, inLock, inWait>>
outDev == <<putBusy, outLock, outWait>>
thread == <<at, received, told, puts>>
cvars == <<input, inDev, outDev, thread, others, halted>>

Client == Reader \cup Writer
GoTo(t, l) == at' = [at EXCEPT ![t] = l]

ConsoleInput == poll = TRUE /\ incoming = EOF
SynchConsoleInput == ConsoleInput /\ inLock = 1 /\ inWait = 0
ConsoleOutput == putBusy = FALSE
SynchConsoleOutput == ConsoleOutput /\ outLock = 1 /\ outWait = 0

CInit ==
  /\ typed = <<>> /\ unread = <<>> /\ closed = FALSE
  /\ SynchConsoleInput /\ SynchConsoleOutput /\ disabled = FALSE
  /\ at = [t \in Client |-> IF t \in Reader THEN "get" ELSE "put"]
  /\ received = <<>> /\ told = FALSE /\ puts = [t \in Writer |-> 0]
  /\ others \in {"running", "gone"} /\ halted = FALSE

\* The user at the keyboard.
Type(c) ==
  /\ ~closed /\ Len(typed) < MaxTyped
  /\ typed' = Append(typed, c) /\ unread' = Append(unread, c)
  /\ UNCHANGED <<closed, inDev, outDev, thread, others, halted>>
CloseInput ==
  /\ ~closed /\ closed' = TRUE
  /\ UNCHANGED <<typed, unread, inDev, outDev, thread, others, halted>>

-----------------------------------------------------------------------------
(* Who can run, and what happens when nobody can *)

Ready(t) ==
  \/ at[t] = "get" /\ inLock > 0
  \/ at[t] = "getwait" /\ inWait > 0
  \/ at[t] = "put" /\ outLock > 0
  \/ at[t] = "putwait" /\ outWait > 0
  \/ at[t] \in {"take", "write"}
Running == others = "running" \/ \E t \in Client : Ready(t)

\* Time passes while a thread runs, or in Idle after PrepareToEnd.
TimePasses == ~halted /\ (Running \/ disabled)

\* Thread::Sleep with an empty ready list: PrepareToEnd, and Interrupt::Idle,
\* which halts if no interrupt is pending.
Idle ==
  /\ ~halted /\ ~Running
  /\ disabled' = TRUE
  /\ halted' = ~(poll \/ putBusy \/ others = "waiting")
  /\ UNCHANGED <<input, poll, incoming, inLock, inWait, outDev, thread, others>>

OthersGo ==
  /\ \/ others = "running" /\ others' \in {"waiting", "gone"}
     \/ others = "waiting" /\ TimePasses /\ others' = "running"
  /\ UNCHANGED <<input, inDev, outDev, thread, halted>>

-----------------------------------------------------------------------------
(* The devices' interrupts *)

\* PollFile: something can be read, be it the end of the file.
PollFile == unread # <<>> \/ closed

SynchInputCallBack == inWait' = inWait + 1
SynchOutputCallBack == outWait' = outWait + 1

\* ConsoleInput::CallBack and SynchConsoleInput::CallBack.
ReadCallBack ==
  /\ poll /\ TimePasses
  /\ \/ disabled /\ poll' = FALSE /\ UNCHANGED <<unread, incoming, inWait>>
     \/ /\ ~disabled /\ ~PollFile
        /\ UNCHANGED <<poll, unread, incoming, inWait>>
     \/ /\ ~disabled /\ PollFile
        /\ poll' = FALSE /\ SynchInputCallBack
        /\ IF unread = <<>> THEN UNCHANGED <<unread, incoming>>
           ELSE incoming' = Head(unread) /\ unread' = Tail(unread)
  /\ UNCHANGED <<typed, closed, disabled, inLock, outDev, thread, others, halted>>

\* ConsoleOutput::CallBack and SynchConsoleOutput::CallBack.
WriteCallBack ==
  /\ putBusy /\ TimePasses
  /\ putBusy' = FALSE /\ SynchOutputCallBack
  /\ UNCHANGED <<input, inDev, outLock, thread, others, halted>>

-----------------------------------------------------------------------------
(* GetChar and PutChar: each step ends with a P() or a V() *)

AcquireIn(t) ==
  /\ at[t] = "get" /\ inLock > 0 /\ inLock' = inLock - 1 /\ GoTo(t, "getwait")
  /\ UNCHANGED <<input, poll, incoming, disabled, inWait, outDev, received, told, puts,
                 others, halted>>
WaitIn(t) ==
  /\ at[t] = "getwait" /\ inWait > 0 /\ inWait' = inWait - 1 /\ GoTo(t, "take")
  /\ UNCHANGED <<input, poll, incoming, disabled, inLock, outDev, received, told, puts,
                 others, halted>>

\* What the caller of GetChar gets.
Returned(c) ==
  /\ received' = IF c = EOF THEN received ELSE Append(received, c)
  /\ told' = (told \/ c = EOF)

GetCharTwice(t) ==
  /\ at[t] = "take"
  /\ poll' = TRUE
  /\ UNCHANGED incoming
  /\ Returned(incoming)
  /\ inLock' = inLock + 1 /\ GoTo(t, IF incoming = EOF THEN "end" ELSE "put")
  /\ UNCHANGED <<input, disabled, inWait, outDev, puts, others, halted>>

\* ConsoleInput::GetChar, the release of the lock, and the test of ConsoleTest.
GetChar(t) ==
  /\ at[t] = "take"
  /\ poll' = (poll \/ incoming # EOF) /\ incoming' = EOF
  /\ Returned(incoming)
  /\ inLock' = inLock + 1 /\ GoTo(t, IF incoming = EOF THEN "end" ELSE "put")
  /\ UNCHANGED <<input, disabled, inWait, outDev, puts, others, halted>>

AcquireOut(t) ==
  /\ at[t] = "put" /\ outLock > 0 /\ outLock' = outLock - 1 /\ GoTo(t, "write")
  /\ UNCHANGED <<input, inDev, putBusy, outWait, received, told, puts, others,
                 halted>>

PutCharUnannounced(t) ==
  /\ at[t] = "write" /\ putBusy' = FALSE /\ GoTo(t, "putwait")
  /\ UNCHANGED <<input, inDev, outLock, outWait, received, told, puts, others, halted>>

\* ConsoleOutput::PutChar.
PutChar(t) ==
  /\ at[t] = "write" /\ putBusy' = TRUE /\ GoTo(t, "putwait")
  /\ UNCHANGED <<input, inDev, outLock, outWait, received, told, puts, others, halted>>

\* SynchConsoleOutput's waitFor->P(), and the release that follows it.
WaitOut(t) ==
  /\ at[t] = "putwait" /\ outWait > 0 /\ outWait' = outWait - 1
  /\ outLock' = outLock + 1
  /\ IF t \in Reader THEN GoTo(t, "get") /\ UNCHANGED puts
     ELSE /\ puts' = [puts EXCEPT ![t] = @ + 1]
          /\ GoTo(t, IF puts'[t] < MaxPuts THEN "put" ELSE "end")
  /\ UNCHANGED <<input, inDev, putBusy, received, told, others, halted>>

CStep(t) == \/ AcquireIn(t) \/ WaitIn(t) \/ GetChar(t)
           \/ AcquireOut(t) \/ PutChar(t) \/ WaitOut(t)

CNext ==
  \/ \E c \in Char \cup {EOF} : Type(c)
  \/ CloseInput \/ Idle \/ OthersGo \/ ReadCallBack \/ WriteCallBack
  \/ \E t \in Client : CStep(t)

\* Ready threads are given the processor, pending interrupts are delivered, and
\* a kernel with nothing to run idles.  The user need not type anything.
CSpec ==
  /\ CInit /\ [][CNext]_cvars
  /\ WF_cvars(Idle) /\ WF_cvars(ReadCallBack) /\ WF_cvars(WriteCallBack)
  /\ \A t \in Client : WF_cvars(CStep(t))

-----------------------------------------------------------------------------

Byte == Char \cup {EOF}

\* The type of the state: the four semaphores stay binary.
TypeOK ==
  /\ typed \in Seq(Byte) /\ unread \in Seq(Byte) /\ incoming \in Byte
  /\ closed \in BOOLEAN /\ poll \in BOOLEAN /\ disabled \in BOOLEAN
  /\ putBusy \in BOOLEAN /\ told \in BOOLEAN /\ halted \in BOOLEAN
  /\ inLock \in 0 .. 1 /\ inWait \in 0 .. 1 /\ outLock \in 0 .. 1 /\ outWait \in 0 .. 1
  /\ at \in [Client -> {"get", "getwait", "take", "put", "write", "putwait", "end"}]
  /\ received \in Seq(Byte \ {EOF}) /\ puts \in [Writer -> 0 .. MaxPuts]
  /\ others \in {"running", "waiting", "gone"}

\* The assertions of ConsoleInput::CallBack and ConsoleOutput::PutChar: no poll
\* is due while a character waits to be taken, and the display is idle when a
\* thread gets to it.
DeviceAsserts ==
  /\ poll => incoming = EOF
  /\ \A t \in Client : at[t] = "write" => ~putBusy

\* The character in the device, if there is one.
buffer == IF incoming = EOF THEN <<>> ELSE <<incoming>>

\* Between the keyboard and the readers no character is lost, repeated or
\* overtaken; if byte 255 is typed, up to where it ends the input.
NothingLost ==
  IF EOF \in Range(typed)
  THEN \E n \in 0 .. Len(typed) : received \o buffer = SubSeq(typed, 1, n)
  ELSE received \o buffer \o unread = typed

\* Until a reader has been told of the end of the input or the console has been
\* disabled, the device goes on looking for characters: a poll is due, or the
\* outcome of the last one is on its way to a reader.
PollingGoesOn ==
  \/ poll \/ disabled \/ inWait = 1
  \/ told \/ \E t \in Reader : at[t] = "take"

\* A reader that waits for a character gets one that is typed, unless first the
\* console is disabled or another reader is told that the input has ended:
\* nothing is polled after that.
TypedIsRead ==
  \A t \in Reader : (at[t] = "getwait" /\ unread # <<>>) ~>
    (at[t] # "getwait" \/ disabled \/ told)

\* The console neither loses input nor stops listening, and its assertions hold
\* (console.cc, synchconsole.cc).
ConsoleInv == TypeOK /\ DeviceAsserts /\ NothingLost /\ PollingGoesOn
=============================================================================
