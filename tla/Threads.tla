------------------------------ MODULE Threads ------------------------------
(***************************************************************************)
(* Threads on one simulated processor: Thread and Scheduler (src/threads), *)
(* Semaphore (synch.cc), the interrupt simulation (src/machine/            *)
(* interrupt.cc) with the timer and the alarm that slice time, and the     *)
(* part of the context switch that saves and restores user programs.       *)
(*                                                                         *)
(* The processor is sequential.  Interrupts are on only where cpu is       *)
(* "run"; every other value of cpu is a point inside a routine that has    *)
(* turned them off, and only that routine can go on.  A kernel routine is  *)
(* preempted where it turns interrupts on again, which is a call of        *)
(* OneTick, and user code after each instruction.                          *)
(*                                                                         *)
(* Time is kept relative: an interrupt scheduled for time "when" is        *)
(* pending with left = when - totalTicks.                                  *)
(***************************************************************************)
EXTENDS Integers, Sequences, FiniteSets, Functions

CONSTANTS
  Thread, Main,   \* the threads, and the one that main() runs in
  UserThread,     \* those that run a user program: their space is not NULL
  NoThread,       \* the null Thread *
  Sem,            \* the semaphores
  Device,         \* the semaphores that a device's interrupt handler V()s
  InitialValue,   \* the initial value of each semaphore
  MaxValue,       \* bound: no thread calls V() on a semaphore that high
  SystemTick, UserTick,
  TimerDelay,     \* the delays SetInterrupt may choose (one, without -rs)
  Latency         \* the delays of a device

ASSUME ThreadsConstants ==
  /\ IsFiniteSet(Thread) /\ Main \in Thread /\ NoThread \notin Thread
  /\ Device \subseteq Sem \ {"timer"} /\ InitialValue \in [Sem -> Nat]
  /\ Sem \cap {"code", "begin", "yield", "finish"} = {}   \* see doing
  /\ SystemTick \in Nat /\ UserTick \in Nat
  /\ TimerDelay \subseteq Nat \ {0} /\ Latency \subseteq Nat \ {0}

VARIABLES
  current, status, readyList, toBeDestroyed,
  cpu,            \* where the processor is (see above)
  doing,          \* the routine each thread is inside of while switched out
  mode,           \* Interrupt::status
  back,           \* the oldStatus of each thread's outermost OneTick
  pending, yieldOnReturn, timerDisabled,
  value, queue,
  registers, pageTable,   \* the machine's
  userRegisters,          \* each thread's saved copy
  executed        \* history: what each program's own registers should hold

sched == <<current, readyList, toBeDestroyed>>
clock == <<pending, yieldOnReturn, timerDisabled>>
sems == <<value, queue>>
user == <<registers, pageTable, userRegisters, executed>>
vars == <<sched, status, cpu, doing, mode, back, clock, sems, user>>

-----------------------------------------------------------------------------
(* The pending interrupts, a list sorted by time *)

Elapse(q, n) == [i \in DOMAIN q |-> [q[i] EXCEPT !.left = @ - n]]

InsertAtFront(q, x) == <<x>> \o q

PendingCompare(x, y) == x.left - y.left

\* SortedList::Insert puts a new interrupt behind those of the same time.
Insert(q, x) ==
  LET before == {i \in DOMAIN q : PendingCompare(x, q[i]) >= 0}
      n == Cardinality(before)
  IN  SubSeq(q, 1, n) \o <<x>> \o SubSeq(q, n + 1, Len(q))

ScheduleTimer(q) ==
  IF timerDisabled THEN {q} ELSE {Insert(q, [dev |-> "timer", left |-> n]) : n \in TimerDelay}

Due == pending # <<>> /\ Head(pending).left <= 0

\* SetLevel(IntOn) after IntOff, and Machine::Run after an instruction.
OneTick(n) == cpu' = "tick" /\ pending' = Elapse(pending, n)

-----------------------------------------------------------------------------
(* The scheduler *)

ReadyToRun(t) == readyList' = Append(readyList, t) /\ status' = [status EXCEPT ![t] = "READY"]

FindNextToRun == IF readyList = <<>> THEN NoThread ELSE Head(readyList)
NoneReady == FindNextToRun = NoThread

SaveUserState ==
  userRegisters' = IF current \in UserThread
                     THEN [userRegisters EXCEPT ![current] = registers] ELSE userRegisters

RestoreUserState == registers' = userRegisters[current]

RunKeepsRegisters(next, finishing, st) ==
  /\ toBeDestroyed' = IF finishing THEN current ELSE toBeDestroyed
  /\ current' = next
  /\ status' = [st EXCEPT ![next] = "RUNNING"]
  /\ cpu' = "resume"
  /\ UNCHANGED userRegisters

\* The half of Scheduler::Run before SWITCH; Resume is the half after it.
Run(next, finishing, st) ==
  /\ toBeDestroyed' = IF finishing THEN current ELSE toBeDestroyed
  /\ SaveUserState
  /\ current' = next
  /\ status' = [st EXCEPT ![next] = "RUNNING"]
  /\ cpu' = "resume"

\* The deleted Thread object is gone, its saved registers with it.
CheckToBeDestroyed ==
  /\ status' = [t \in Thread |-> IF t = toBeDestroyed THEN "NONE" ELSE status[t]]
  /\ userRegisters' = [t \in Thread |->
       IF t = toBeDestroyed THEN <<NoThread, 0>> ELSE userRegisters[t]]
  /\ toBeDestroyed' = NoThread

\* P() as if Sleep returned only with a unit to take.
ResumeTakes ==
  /\ cpu = "resume"
  /\ CheckToBeDestroyed
  /\ doing' = [doing EXCEPT ![current] = "code"]
  /\ value' = IF doing[current] \in Sem THEN [value EXCEPT ![doing[current]] = @ - 1] ELSE value
  /\ OneTick(SystemTick)
  /\ UNCHANGED <<current, readyList, mode, back, yieldOnReturn, timerDisabled, queue,
                 registers, pageTable, executed>>

\* A new thread comes from SWITCH into Begin, which turns interrupts on.
Begin ==
  /\ doing[current] = "begin"
  /\ doing' = [doing EXCEPT ![current] = "code"]
  /\ OneTick(SystemTick)

\* Scheduler::Run after SWITCH, and Thread::Begin in a new thread.
Resume ==
  /\ cpu = "resume"
  /\ CheckToBeDestroyed
  /\ IF current \in UserThread /\ doing[current] # "begin"
       THEN RestoreUserState /\ pageTable' = current
       ELSE UNCHANGED <<registers, pageTable>>
  /\ \/ doing[current] \in Sem /\ cpu' = "P" /\ UNCHANGED <<doing, pending>>
     \/ Begin
     \/ /\ doing[current] = "yield"
        /\ doing' = [doing EXCEPT ![current] = "code"]
        /\ OneTick(SystemTick)
  /\ UNCHANGED <<current, readyList, mode, back, yieldOnReturn, timerDisabled, sems, executed>>

\* Thread::Yield, called with interrupts on.
YieldBody ==
  \/ NoneReady /\ OneTick(SystemTick)
     /\ UNCHANGED <<sched, status, doing, userRegisters>>
  \/ /\ ~NoneReady
     /\ readyList' = Append(Tail(readyList), current)
     /\ doing' = [doing EXCEPT ![current] = "yield"]
     /\ Run(FindNextToRun, FALSE, [status EXCEPT ![current] = "READY"])
     /\ UNCHANGED pending

-----------------------------------------------------------------------------
(* Interrupts *)

VBodyKeeps(s) ==
  LET woken == IF queue[s] = <<>> THEN <<>> ELSE <<Head(queue[s])>>
  IN  /\ value' = [value EXCEPT ![s] = @ + 1]
      /\ UNCHANGED queue
      /\ readyList' = readyList \o woken
      /\ status' = [t \in Thread |-> IF t \in Range(woken) THEN "READY" ELSE status[t]]

VBodyOnce(s) ==
  LET woken == IF queue[s] = <<>> \/ value[s] > 0 THEN <<>> ELSE <<Head(queue[s])>>
  IN  /\ value' = [value EXCEPT ![s] = @ + 1]
      /\ queue' = [queue EXCEPT ![s] = IF woken = <<>> THEN @ ELSE Tail(@)]
      /\ readyList' = readyList \o woken
      /\ status' = [t \in Thread |-> IF t \in Range(woken) THEN "READY" ELSE status[t]]

\* Semaphore::V with interrupts off: wake the first waiter, if any.
VBody(s) ==
  LET woken == IF queue[s] = <<>> THEN <<>> ELSE <<Head(queue[s])>>
  IN  /\ value' = [value EXCEPT ![s] = @ + 1]
      /\ queue' = [queue EXCEPT ![s] = IF @ = <<>> THEN @ ELSE Tail(@)]
      /\ readyList' = readyList \o woken
      /\ status' = [t \in Thread |-> IF t \in Range(woken) THEN "READY" ELSE status[t]]

TimerIgnored ==
  /\ Head(pending).dev = "timer"
  /\ pending' \in ScheduleTimer(Tail(pending))
  /\ UNCHANGED <<readyList, status, sems, yieldOnReturn>>

YieldOnReturn == yieldOnReturn' = TRUE

\* Alarm::CallBack: a time slice ends, unless the machine idles.
AlarmCallBack == IF mode # "Idle" THEN YieldOnReturn ELSE UNCHANGED yieldOnReturn

\* Timer::CallBack: the alarm's handler, then SetInterrupt.
TimerCallBack ==
  /\ Head(pending).dev = "timer"
  /\ AlarmCallBack
  /\ pending' \in ScheduleTimer(Tail(pending))
  /\ UNCHANGED <<readyList, status, sems>>

DeviceCallBack ==
  /\ Head(pending).dev \in Device
  /\ VBody(Head(pending).dev)
  /\ pending' = Tail(pending)
  /\ UNCHANGED yieldOnReturn

\* One round of the loop of CheckIfDue.
CheckIfDue ==
  /\ cpu \in {"tick", "idle"} /\ Due
  /\ TimerCallBack \/ DeviceCallBack
  /\ UNCHANGED <<current, toBeDestroyed, cpu, doing, mode, back, timerDisabled, user>>

\* OneTick once nothing is due any more.
TickDone ==
  /\ cpu = "tick" /\ ~Due
  /\ \/ /\ ~yieldOnReturn
        /\ cpu' = "run" /\ mode' = back[current]
        /\ UNCHANGED <<sched, status, doing, pending, yieldOnReturn, userRegisters>>
     \/ /\ yieldOnReturn /\ yieldOnReturn' = FALSE
        /\ mode' = "System"
        /\ YieldBody
  /\ UNCHANGED <<back, timerDisabled, sems, registers, pageTable, executed>>

Halt == cpu' = "halt"

PrepareToEnd == timerDisabled' = TRUE

\* The loop of Thread::Sleep while no thread is ready: PrepareToEnd and Idle.
Idle ==
  /\ cpu = "sleep" /\ NoneReady
  /\ PrepareToEnd
  /\ \/ pending = <<>> /\ Halt /\ UNCHANGED <<pending, mode>>
     \/ /\ pending # <<>> /\ cpu' = "idle" /\ mode' = "Idle"
        /\ pending' = Elapse(pending, Head(pending).left)
  /\ UNCHANGED <<sched, status, doing, back, yieldOnReturn, sems, user>>

IdleDone ==
  /\ cpu = "idle" /\ ~Due
  /\ cpu' = "sleep" /\ mode' = "System"
  /\ UNCHANGED <<sched, status, doing, back, clock, sems, user>>

\* The end of Thread::Sleep; the next thread may be the sleeping one itself.
Dispatch ==
  /\ cpu = "sleep" /\ ~NoneReady
  /\ readyList' = Tail(readyList)
  /\ Run(FindNextToRun, doing[current] = "finish", status)
  /\ UNCHANGED <<doing, mode, back, clock, sems, registers, pageTable, executed>>

-----------------------------------------------------------------------------
(* What the current thread may call *)

InKernel == cpu = "run" /\ mode = "System"

PCall(s) ==
  /\ InKernel
  /\ cpu' = "P" /\ doing' = [doing EXCEPT ![current] = s]
  /\ back' = [back EXCEPT ![current] = "System"]
  /\ UNCHANGED <<sched, status, mode, clock, sems, user>>

\* The while loop of Semaphore::P, tested at the call and after each Sleep.
P ==
  /\ cpu = "P"
  /\ LET s == doing[current] IN
     \/ /\ value[s] = 0
        /\ queue' = [queue EXCEPT ![s] = Append(@, current)]
        /\ status' = [status EXCEPT ![current] = "BLOCKED"] /\ cpu' = "sleep"
        /\ UNCHANGED <<value, doing, pending>>
     \/ /\ value[s] > 0
        /\ value' = [value EXCEPT ![s] = @ - 1]
        /\ doing' = [doing EXCEPT ![current] = "code"]
        /\ OneTick(SystemTick)
        /\ UNCHANGED <<queue, status>>
  /\ UNCHANGED <<sched, mode, back, yieldOnReturn, timerDisabled, user>>

V(s) ==
  /\ InKernel /\ value[s] < MaxValue
  /\ VBody(s)
  /\ OneTick(SystemTick) /\ back' = [back EXCEPT ![current] = "System"]
  /\ UNCHANGED <<current, toBeDestroyed, doing, mode, yieldOnReturn, timerDisabled, user>>

\* A request to a device schedules its interrupt; one at a time per device.
Request(d) ==
  /\ InKernel /\ value[d] = 0
  /\ \A i \in DOMAIN pending : pending[i].dev # d
  /\ \E n \in Latency : pending' = Insert(pending, [dev |-> d, left |-> n])
  /\ UNCHANGED <<sched, status, cpu, doing, mode, back, yieldOnReturn, timerDisabled,
                 sems, user>>

\* The stack of a new thread returns into ThreadRoot: it begins at Begin.
StackAllocate(u) == doing' = [doing EXCEPT ![u] = "begin"]

Fork(u) ==
  /\ InKernel /\ status[u] = "NONE"
  /\ ReadyToRun(u)
  /\ StackAllocate(u)
  /\ OneTick(SystemTick) /\ back' = [back EXCEPT ![current] = "System", ![u] = "System"]
  /\ UNCHANGED <<current, toBeDestroyed, mode, yieldOnReturn, timerDisabled, sems, user>>

Yield ==
  /\ InKernel
  /\ YieldBody /\ back' = [back EXCEPT ![current] = "System"]
  /\ UNCHANGED <<mode, yieldOnReturn, timerDisabled, sems, registers, pageTable, executed>>

Finish ==
  /\ InKernel
  /\ doing' = [doing EXCEPT ![current] = "finish"]
  /\ executed' = [executed EXCEPT ![current] = 0]
  /\ status' = [status EXCEPT ![current] = "BLOCKED"] /\ cpu' = "sleep"
  /\ UNCHANGED <<sched, mode, back, clock, sems, registers, pageTable, userRegisters>>

\* AddrSpace::Execute up to the loop of Machine::Run.
Execute ==
  /\ InKernel /\ current \in UserThread /\ executed[current] = 0
  /\ executed' = [executed EXCEPT ![current] = 1]
  /\ registers' = <<current, 1>> /\ pageTable' = current
  /\ mode' = "User"
  /\ UNCHANGED <<sched, status, cpu, doing, back, clock, sems, userRegisters>>

\* One round of the loop of Machine::Run: the program changes its registers.
Instruction ==
  /\ cpu = "run" /\ mode = "User"
  /\ registers' = <<registers[1], 3 - registers[2]>>
  /\ executed' = [executed EXCEPT ![current] = 3 - @]
  /\ OneTick(UserTick) /\ back' = [back EXCEPT ![current] = "User"]
  /\ UNCHANGED <<sched, status, doing, mode, yieldOnReturn, timerDisabled, sems, pageTable,
                 userRegisters>>

\* Machine::RaiseException goes into the kernel, and out of it again: the
\* instruction that trapped ends in a tick of its own.
Trap ==
  /\ cpu = "run" /\ mode = "User" /\ mode' = "System"
  /\ UNCHANGED <<sched, status, cpu, doing, back, clock, sems, user>>

Return ==
  /\ InKernel /\ current \in UserThread /\ executed[current] # 0
  /\ mode' = "User"
  /\ OneTick(UserTick) /\ back' = [back EXCEPT ![current] = "User"]
  /\ UNCHANGED <<sched, status, doing, yieldOnReturn, timerDisabled, sems, user>>

-----------------------------------------------------------------------------

NewScheduler == readyList = <<>> /\ toBeDestroyed = NoThread
NewInterrupt == cpu = "run" /\ mode = "System" /\ yieldOnReturn = FALSE
NewTimer ==
  timerDisabled = FALSE /\ \E n \in TimerDelay : pending = <<[dev |-> "timer", left |-> n]>>
NewSemaphores == value = InitialValue /\ queue = [s \in Sem |-> <<>>]

Init ==
  /\ current = Main /\ status = [t \in Thread |-> IF t = Main THEN "RUNNING" ELSE "NONE"]
  /\ doing = [t \in Thread |-> "code"] /\ back = [t \in Thread |-> "System"]
  /\ NewScheduler /\ NewInterrupt /\ NewTimer /\ NewSemaphores
  /\ registers = <<NoThread, 0>> /\ pageTable = NoThread
  /\ userRegisters = [t \in Thread |-> <<NoThread, 0>>]
  /\ executed = [t \in Thread |-> 0]

Next ==
  \/ Resume \/ CheckIfDue \/ TickDone \/ Idle \/ IdleDone \/ Dispatch \/ P
  \/ \E s \in Sem : PCall(s)
  \/ \E s \in Sem \ Device : V(s)
  \/ \E d \in Device : Request(d)
  \/ \E u \in Thread : Fork(u)
  \/ Yield \/ Finish \/ Execute \/ Instruction \/ Trap \/ Return

\* The simulator never stops by itself: as long as something can be done it is.
Spec == Init /\ [][Next]_vars /\ WF_vars(Next)

-----------------------------------------------------------------------------
(* Properties *)

Live(t) == status[t] # "NONE"

\* The type of the state: a semaphore's value is "always >= 0" (synch.h:52).
TypeOK ==
  /\ current \in Thread /\ toBeDestroyed \in Thread \cup {NoThread}
  /\ status \in [Thread -> {"NONE", "RUNNING", "READY", "BLOCKED"}]
  /\ readyList \in Seq(Thread) /\ queue \in [Sem -> Seq(Thread)]
  /\ cpu \in {"run", "tick", "P", "sleep", "idle", "resume", "halt"}
  /\ doing \in [Thread -> {"code", "begin", "yield", "finish"} \cup Sem]
  /\ mode \in {"System", "User", "Idle"} /\ back \in [Thread -> {"System", "User"}]
  /\ pending \in Seq([dev : Device \cup {"timer"}, left : Int])
  /\ yieldOnReturn \in BOOLEAN /\ timerDisabled \in BOOLEAN
  /\ value \in [Sem -> Nat]
  /\ registers \in (Thread \cup {NoThread}) \X (0 .. 2)
  /\ pageTable \in Thread \cup {NoThread}
  /\ userRegisters \in [Thread -> (Thread \cup {NoThread}) \X (0 .. 2)]
  /\ executed \in [Thread -> 0 .. 2]

Waits(t, q) == {i \in DOMAIN q : q[i] = t}

\* A thread is where its status says and nowhere else: READY threads are on the
\* ready list, once; BLOCKED ones on the queue of the one semaphore they wait
\* for, once, or finishing; a deleted thread is on no list that the scheduler
\* or a semaphore could take it from.
OnePlace ==
  \A t \in Thread :
    LET onQueues == UNION {{s} \X Waits(t, queue[s]) : s \in Sem}
    IN  /\ Cardinality(Waits(t, readyList)) = IF status[t] = "READY" THEN 1 ELSE 0
        /\ Cardinality(onQueues) =
             IF status[t] = "BLOCKED" /\ doing[t] # "finish" THEN 1 ELSE 0
        /\ \A x \in onQueues : doing[t] = x[1]
        /\ status[t] = "RUNNING" => t = current

\* Scheduler::Run's and ~Thread's assertions: at most one finished thread is
\* waiting to be deleted, only until the next thread has come back from SWITCH,
\* and it is never the thread that is running.
CarcassDisposed ==
  toBeDestroyed # NoThread =>
    cpu = "resume" /\ toBeDestroyed # current /\ doing[toBeDestroyed] = "finish"

Woken(s) == {t \in Thread : Live(t) /\ doing[t] = s /\ Waits(t, queue[s]) = {}}

\* No wake-up is lost: while threads sleep on a semaphore, there are at least
\* as many woken threads on their way to test it as the semaphore has units.
NoLostWakeup == \A s \in Sem : queue[s] # <<>> => Cardinality(Woken(s)) >= value[s]

\* A user program always runs on its own registers and page table, whatever
\* switches, kernel threads and other programs came between two instructions.
ProgramStateOwn ==
  mode = "User" /\ cpu \in {"run", "tick"} =>
    registers = <<current, executed[current]>> /\ pageTable = current

\* The pending list is sorted, and once CheckIfDue is over nothing is overdue.
InterruptsTimely ==
  /\ \A i, j \in DOMAIN pending : i < j => pending[i].left <= pending[j].left
  /\ cpu = "run" => \A i \in DOMAIN pending : pending[i].left > 0

\* The machine halts only when no thread could ever run again: none is ready
\* and no interrupt that could wake one is to come.
HaltsOnlyWhenDone ==
  cpu = "halt" => pending = <<>> /\ \A t \in Thread : status[t] \in {"NONE", "BLOCKED"}

\* Every ready thread gets the processor, even if another one never gives it up,
\* unless one thread keeps it for ever after Thread::Sleep has disabled the timer
\* for good (PrepareToEnd): without time slices, too, a ready thread runs if the
\* others yield, sleep, finish or let the machine go idle again.
ReadyRuns ==
  \A t \in Thread :
    \/ status[t] = "READY" ~> status[t] = "RUNNING"
    \/ <>[][timerDisabled /\ UNCHANGED current]_vars

\* Threads are where their status says, and a finished one is deleted by the
\* thread that runs next, under every order of calls, switches and interrupts.
ThreadsInv == TypeOK /\ OnePlace /\ CarcassDisposed

Promise == INSTANCE Semaphore WITH
  NoSem <- "code", wants <- [t \in Thread |-> IF doing[t] \in Sem THEN doing[t] ELSE "code"]

\* Semaphore::P and V, with their queues, sleeping threads, interrupts and time
\* slices, are the atomic P and V that synch.h promises.
ImplementsSemaphore == Promise!Spec

\* Interrupts come in their order and on time, down to the last: the machine
\* halts only when neither a thread nor an interrupt is left that could do
\* anything (Interrupt::CheckIfDue and Idle).
InterruptsInv == InterruptsTimely /\ HaltsOnlyWhenDone
=============================================================================
