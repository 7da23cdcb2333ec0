--------------------------- MODULE ThreadsProofs ----------------------------
(***************************************************************************)
(* For any number of threads, semaphores and devices: threads are where    *)
(* their status says, user programs keep their registers, no wake-up is    *)
(* lost, interrupts are timely, and P() and V() are atomic.                *)
(***************************************************************************)
EXTENDS Threads, FiniteSetTheorems, TLAPS

\* Leaves that name no prover: Zenon for at most 3 seconds, then SMT.
USE ZenonT(3), SMTT(30)

\* No thread is twice on a list.
Distinct(q) == \A i, j \in 1 .. Len(q) : q[i] = q[j] => i = j

Asleep(s) == {t \in Thread : status[t] = "BLOCKED" /\ doing[t] = s}

\* OnePlace, by the sets of threads on the lists.
Places ==
  /\ Distinct(readyList) /\ Range(readyList) = {t \in Thread : status[t] = "READY"}
  /\ \A s \in Sem : Distinct(queue[s]) /\ Range(queue[s]) = Asleep(s)

\* The routine a thread is inside of, by its status.
Routines ==
  \A t \in Thread :
    /\ status[t] = "NONE" => doing[t] \in {"code", "finish"}
    /\ status[t] = "READY" => doing[t] \in Sem \cup {"begin", "yield"}
    /\ status[t] = "BLOCKED" => doing[t] \in Sem \cup {"finish"}
    /\ status[t] = "RUNNING" => t = current

\* Where the processor is, the current thread is too.
Processor ==
  /\ cpu \in {"run", "tick", "P", "resume"} => status[current] = "RUNNING"
  /\ cpu \in {"run", "tick"} => doing[current] = "code"
  /\ cpu = "P" => doing[current] \in Sem
  /\ cpu = "resume" => doing[current] \in Sem \cup {"begin", "yield"}
  /\ cpu \in {"sleep", "idle", "halt"} =>
       status[current] \in {"READY", "BLOCKED"} /\ doing[current] \in Sem \cup {"finish"}

Carcass ==
  toBeDestroyed # NoThread =>
    /\ cpu = "resume" /\ toBeDestroyed # current
    /\ doing[toBeDestroyed] = "finish" /\ status[toBeDestroyed] = "BLOCKED"

\* Where a user program's registers are: in the machine while its thread runs,
\* and saved from the switch away from it up to the one back.
Programs ==
  /\ \A t \in Thread : executed[t] # 0 =>
       /\ t \in UserThread /\ status[t] # "NONE" /\ doing[t] \notin {"begin", "finish"}
       /\ t # current \/ cpu = "resume" => userRegisters[t] = <<t, executed[t]>>
       /\ t = current /\ cpu # "resume" =>
            registers = <<current, executed[current]>> /\ pageTable = current
  /\ \A t \in Thread : back[t] = "User" /\ doing[t] # "finish" => executed[t] # 0
  /\ mode = "User" => cpu \in {"run", "tick"} /\ executed[current] # 0

Interrupt == [dev : Device \cup {"timer"}, left : Int]

Sorted(q) == \A i, j \in 1 .. Len(q) : i < j => q[i].left <= q[j].left

Timely ==
  /\ Sorted(pending)
  /\ cpu = "run" => \A i \in 1 .. Len(pending) : pending[i].left > 0

ThreadsIInv == TypeOK /\ Places /\ Routines /\ Processor /\ Carcass /\ Programs /\ Timely

Halted == cpu = "halt" => pending = <<>> /\ readyList = <<>>

-----------------------------------------------------------------------------
(* Lists of threads *)

LEMMA ElementsOf ==
  ASSUME NEW S, NEW q \in Seq(S)
  PROVE  /\ Range(q) \subseteq S /\ (q = <<>> <=> Range(q) = {})
         /\ \A x : x \in Range(q) <=> \E i \in 1 .. Len(q) : q[i] = x
<1>1. Len(q) \in Nat /\ DOMAIN q = 1 .. Len(q) /\ \A i \in 1 .. Len(q) : q[i] \in S
  OBVIOUS
<1>2. \A x : x \in Range(q) <=> \E i \in 1 .. Len(q) : q[i] = x
  BY <1>1 DEF Range
<1>3. Range(q) \subseteq S
  BY <1>1, <1>2
<1>4. q = <<>> => Range(q) = {}
  <2>1. q = <<>> => 1 .. Len(q) = {}
    OBVIOUS
  <2> QED
    BY <2>1, <1>2
<1>5. q # <<>> => 1 \in 1 .. Len(q)
  BY <1>1
<1>6. q # <<>> => q[1] \in Range(q)
  BY <1>2, <1>5
<1> QED
  BY <1>2, <1>3, <1>4, <1>6

LEMMA AppendDistinct ==
  ASSUME NEW S, NEW q \in Seq(S), Distinct(q), NEW x \in S, x \notin Range(q)
  PROVE  Append(q, x) \in Seq(S) /\ Distinct(Append(q, x)) /\ Range(Append(q, x)) = Range(q) \cup {x}
<1> DEFINE r == Append(q, x)
<1>1. /\ r \in Seq(S) /\ Len(q) \in Nat /\ Len(r) = Len(q) + 1 /\ r[Len(q) + 1] = x
      /\ \A i \in 1 .. Len(q) : r[i] = q[i]
  OBVIOUS
<1> HIDE DEF r
<1>2. \A i \in 1 .. Len(r) : i \in 1 .. Len(q) \/ i = Len(q) + 1
  BY <1>1
<1>3. \A i \in 1 .. Len(q) : q[i] # x
  BY ElementsOf
<1>4. Distinct(r)
  BY <1>1, <1>2, <1>3 DEF Distinct
<1>5. ASSUME NEW y PROVE y \in Range(r) <=> y \in Range(q) \cup {x}
  <2>1. y \in Range(r) <=> \E i \in 1 .. Len(r) : r[i] = y
    BY <1>1, ElementsOf
  <2>2. y \in Range(q) <=> \E i \in 1 .. Len(q) : q[i] = y
    BY ElementsOf
  <2>3. 1 .. Len(q) \subseteq 1 .. Len(r) /\ Len(q) + 1 \in 1 .. Len(r)
    BY <1>1
  <2> QED
    BY <2>1, <2>2, <2>3, <1>1, <1>2
<1> QED
  BY <1>1, <1>4, <1>5 DEF r

LEMMA TailDistinct ==
  ASSUME NEW S, NEW q \in Seq(S), Distinct(q), q # <<>>
  PROVE  /\ Head(q) \in Range(q) /\ Head(q) \in S
         /\ Tail(q) \in Seq(S) /\ Distinct(Tail(q)) /\ Range(Tail(q)) = Range(q) \ {Head(q)}
<1> DEFINE r == Tail(q)
           h == Head(q)
<1>1. /\ r \in Seq(S) /\ Len(q) \in Nat \ {0} /\ Len(r) = Len(q) - 1 /\ h = q[1] /\ h \in S
      /\ \A i \in 1 .. Len(q) - 1 : r[i] = q[i + 1]
  OBVIOUS
<1> HIDE DEF r, h
<1>2. \A i \in 1 .. Len(r) : i + 1 \in 1 .. Len(q) /\ i \in 1 .. Len(q) - 1 /\ i + 1 # 1
  BY <1>1
<1>3. 1 \in 1 .. Len(q) /\ \A i \in 1 .. Len(q) : i = 1 \/ (i - 1 \in 1 .. Len(r) /\ (i - 1) + 1 = i)
  BY <1>1
<1>4. \A i \in 1 .. Len(r) : r[i] = q[i + 1]
  BY <1>1, <1>2
<1>5. Distinct(r)
  <2> SUFFICES ASSUME NEW i \in 1 .. Len(r), NEW j \in 1 .. Len(r), r[i] = r[j] PROVE i = j
    BY DEF Distinct
  <2>1. i + 1 = j + 1
    BY <1>2, <1>4 DEF Distinct
  <2> QED
    BY <2>1, <1>1
<1>6. h \in Range(q)
  BY <1>1, <1>3, ElementsOf
<1>7. ASSUME NEW y PROVE y \in Range(r) <=> y \in Range(q) \ {h}
  <2>1. y \in Range(r) <=> \E i \in 1 .. Len(r) : r[i] = y
    BY <1>1, ElementsOf
  <2>2. y \in Range(q) <=> \E i \in 1 .. Len(q) : q[i] = y
    BY ElementsOf
  <2>3. ASSUME NEW i \in 1 .. Len(r), r[i] = y PROVE y \in Range(q) /\ y # h
    BY <2>2, <2>3, <1>1, <1>2, <1>3, <1>4 DEF Distinct
  <2>4. ASSUME NEW i \in 1 .. Len(q), q[i] = y, y # h PROVE \E k \in 1 .. Len(r) : r[k] = y
    <3>1. i - 1 \in 1 .. Len(r) /\ (i - 1) + 1 = i
      BY <2>4, <1>1, <1>3
    <3> QED
      BY <3>1, <2>4, <1>4
  <2> QED
    BY <2>1, <2>2, <2>3, <2>4
<1> QED
  BY <1>1, <1>5, <1>6, <1>7 DEF r, h

-----------------------------------------------------------------------------
(* The list of pending interrupts *)

\* A set of natural numbers that is not empty has a least element.
LEMMA LeastElement ==
  ASSUME NEW T, T \subseteq Nat, T # {}
  PROVE  \E m \in T : \A n \in T : m <= n
<1>1. PICK m \in T : \A n \in T : <<n, m>> \notin OpToRel(<, Nat)
  BY WFMin, NatLessThanWellFounded
<1>2. \A n \in T : ~(n < m)
  BY <1>1 DEF OpToRel
<1> QED
  BY <1>2

LEMMA InterruptFields ==
  ASSUME NEW x \in Interrupt
  PROVE  /\ x.dev \in Device \cup {"timer"} /\ x.left \in Int
         /\ \A n \in Int : /\ [x EXCEPT !.left = n] \in Interrupt
                         /\ [x EXCEPT !.left = n].left = n
BY DEF Interrupt

\* SortedList::Insert: what is not later stays in front of the new interrupt.
LEMMA InsertPlace ==
  ASSUME NEW q \in Seq(Interrupt), Sorted(q), NEW x \in Interrupt
  PROVE  \E k \in 0 .. Len(q) :
           /\ Insert(q, x) = SubSeq(q, 1, k) \o <<x>> \o SubSeq(q, k + 1, Len(q))
           /\ \A i \in 1 .. Len(q) : q[i].left <= x.left <=> i <= k
<1> DEFINE before == {i \in DOMAIN q : PendingCompare(x, q[i]) >= 0}
           behind == {i \in 1 .. Len(q) : q[i].left > x.left}
<1>1. Len(q) \in Nat /\ DOMAIN q = 1 .. Len(q)
  OBVIOUS
<1>2. x.left \in Int /\ \A i \in 1 .. Len(q) : q[i].left \in Int
  <2>1. \A i \in 1 .. Len(q) : q[i] \in Interrupt
    OBVIOUS
  <2> QED
    BY <2>1, InterruptFields
<1>3. before = {i \in 1 .. Len(q) : q[i].left <= x.left}
  BY <1>1, <1>2 DEF PendingCompare
<1>4. \E k \in 0 .. Len(q) : \A i \in 1 .. Len(q) : q[i].left <= x.left <=> i <= k
  <2>1. CASE behind = {}
    <3>1. Len(q) \in 0 .. Len(q) /\ \A i \in 1 .. Len(q) : i <= Len(q)
      BY <1>1
    <3>2. \A i \in 1 .. Len(q) : q[i].left <= x.left
      BY <2>1, <1>2
    <3> QED
      BY <3>1, <3>2
  <2>2. CASE behind # {}
    <3>0. behind \subseteq Nat
      BY <1>1
    <3>1. PICK m \in behind : \A n \in behind : m <= n
      <4> HIDE DEF behind
      <4> QED
        BY <2>2, <3>0, LeastElement
    <3>2. m - 1 \in 0 .. Len(q)
      BY <1>1, <3>1
    <3>3. ASSUME NEW i \in 1 .. Len(q) PROVE q[i].left <= x.left <=> i <= m - 1
      <4>1. CASE i < m
        BY <4>1, <3>1, <1>1, <1>2
      <4>2. CASE i >= m
        BY <4>2, <3>1, <1>1, <1>2 DEF Sorted
      <4> QED
        BY <4>1, <4>2, <1>1
    <3> QED
      BY <3>2, <3>3
  <2> QED
    BY <2>1, <2>2
<1>5. PICK k \in 0 .. Len(q) : \A i \in 1 .. Len(q) : q[i].left <= x.left <=> i <= k
  BY <1>4
<1>6. before = 1 .. k
  BY <1>1, <1>3, <1>5
<1>7. Cardinality(before) = k
  <2>1. Cardinality(1 .. k) = IF 1 > k THEN 0 ELSE k - 1 + 1
    BY FS_Interval, <1>1
  <2> HIDE DEF before
  <2> QED
    BY <2>1, <1>6, <1>1
<1>8. Insert(q, x) = SubSeq(q, 1, k) \o <<x>> \o SubSeq(q, k + 1, Len(q))
  BY <1>7 DEF Insert
<1> QED
  BY <1>5, <1>8

LEMMA InsertSorted ==
  ASSUME NEW q \in Seq(Interrupt), Sorted(q), NEW x \in Interrupt
  PROVE  /\ Insert(q, x) \in Seq(Interrupt) /\ Sorted(Insert(q, x))
         /\ \A i \in 1 .. Len(Insert(q, x)) :
              Insert(q, x)[i] = x \/ \E j \in 1 .. Len(q) : Insert(q, x)[i] = q[j]
<1> DEFINE r == Insert(q, x)
<1>1. PICK k \in 0 .. Len(q) :
           /\ r = SubSeq(q, 1, k) \o <<x>> \o SubSeq(q, k + 1, Len(q))
           /\ \A i \in 1 .. Len(q) : q[i].left <= x.left <=> i <= k
  BY InsertPlace
<1>2. /\ r \in Seq(Interrupt) /\ Len(q) \in Nat /\ Len(r) = Len(q) + 1 /\ r[k + 1] = x
      /\ \A i \in 1 .. Len(r) : i <= k => r[i] = q[i]
      /\ \A i \in 1 .. Len(r) : i > k + 1 => r[i] = q[i - 1]
  <2> DEFINE a == SubSeq(q, 1, k)
             b == SubSeq(q, k + 1, Len(q))
             c == a \o <<x>>
  <2>1. k \in Nat /\ Len(q) \in Nat /\ k <= Len(q)
    OBVIOUS
  <2>2. a \in Seq(Interrupt) /\ Len(a) = k /\ \A i \in 1 .. k : a[i] = q[i]
    BY <2>1
  <2>3. /\ b \in Seq(Interrupt) /\ Len(b) = Len(q) - k
        /\ \A i \in 1 .. Len(q) - k : b[i] = q[k + i]
    BY <2>1
  <2>4. r = c \o b
    BY <1>1
  <2> HIDE DEF a, b
  <2>5. /\ c \in Seq(Interrupt) /\ Len(c) = k + 1 /\ c[k + 1] = x
        /\ \A i \in 1 .. k : c[i] = a[i]
    BY <2>1, <2>2
  <2> HIDE DEF c, r
  <2>6. /\ r \in Seq(Interrupt) /\ Len(r) = (k + 1) + (Len(q) - k)
        /\ \A i \in 1 .. k + 1 : r[i] = c[i]
        /\ \A i \in 1 .. Len(r) : i > k + 1 => r[i] = b[i - (k + 1)]
    <3>1. b \in Seq(Interrupt) /\ c \in Seq(Interrupt)
      BY <2>3, <2>5
    <3>2. /\ r \in Seq(Interrupt) /\ Len(r) = Len(c) + Len(b)
          /\ \A i \in 1 .. Len(c) : r[i] = c[i]
          /\ \A i \in 1 .. Len(r) : i > Len(c) => r[i] = b[i - Len(c)]
      BY <3>1, <2>4
    <3>3. Len(b) = Len(q) - k /\ Len(c) = k + 1
      BY <2>3, <2>5
    <3> QED
      BY <3>2, <3>3
  <2>7. Len(r) = Len(q) + 1 /\ r[k + 1] = x
    BY <2>1, <2>5, <2>6
  <2>8. ASSUME NEW i \in 1 .. Len(r), i <= k PROVE r[i] = q[i]
    BY <2>1, <2>2, <2>5, <2>6, <2>8
  <2>9. ASSUME NEW i \in 1 .. Len(r), i > k + 1 PROVE r[i] = q[i - 1]
    <3>1. i - (k + 1) \in 1 .. Len(q) - k /\ k + (i - (k + 1)) = i - 1
      BY <2>1, <2>7, <2>9
    <3> QED
      BY <3>1, <2>3, <2>6, <2>9
  <2> QED
    BY <2>1, <2>6, <2>7, <2>8, <2>9
<1> HIDE DEF r
<1>3. x.left \in Int /\ \A i \in 1 .. Len(q) : q[i].left \in Int
  <2>1. \A i \in 1 .. Len(q) : q[i] \in Interrupt
    OBVIOUS
  <2> QED
    BY <2>1, InterruptFields
<1>4. Sorted(r)
  <2> SUFFICES ASSUME NEW i \in 1 .. Len(r), NEW j \in 1 .. Len(r), i < j
               PROVE  r[i].left <= r[j].left
    BY DEF Sorted
  <2>1. CASE j <= k
    <3>1. i \in 1 .. Len(q) /\ j \in 1 .. Len(q) /\ i <= k
      BY <2>1, <1>2
    <3> QED
      BY <2>1, <3>1, <1>2 DEF Sorted
  <2>2. CASE j = k + 1
    BY <2>2, <1>1, <1>2, <1>3 DEF Sorted
  <2>3. CASE j > k + 1 /\ i <= k
    <3>1. i \in 1 .. Len(q) /\ j - 1 \in 1 .. Len(q) /\ i < j - 1
      BY <2>3, <1>2
    <3> QED
      BY <2>3, <3>1, <1>2 DEF Sorted
  <2>4. CASE i = k + 1
    <3>1. j - 1 \in 1 .. Len(q) /\ j > k + 1 /\ ~(j - 1 <= k)
      BY <2>4, <1>2
    <3>2. ~(q[j - 1].left <= x.left)
      BY <3>1, <1>1
    <3>3. x.left <= q[j - 1].left
      BY <3>1, <3>2, <1>3
    <3> QED
      BY <2>4, <3>1, <3>3, <1>2
  <2>5. CASE i > k + 1
    <3>1. i - 1 \in 1 .. Len(q) /\ j - 1 \in 1 .. Len(q) /\ i - 1 < j - 1 /\ j > k + 1
      BY <2>5, <1>2
    <3> QED
      BY <2>5, <3>1, <1>2 DEF Sorted
  <2> QED
    <3>1. i \in Int /\ j \in Int /\ k \in Int
      BY <1>2
    <3> QED
      BY <2>1, <2>2, <2>3, <2>4, <2>5, <3>1
<1>5. ASSUME NEW i \in 1 .. Len(r) PROVE r[i] = x \/ \E j \in 1 .. Len(q) : r[i] = q[j]
  <2>1. CASE i <= k
    <3>1. i \in 1 .. Len(q) /\ r[i] = q[i]
      BY <2>1, <1>2
    <3> QED
      BY <3>1
  <2>2. CASE i = k + 1
    BY <2>2, <1>2
  <2>3. CASE i > k + 1
    <3>1. i - 1 \in 1 .. Len(q) /\ r[i] = q[i - 1]
      BY <2>3, <1>2
    <3> QED
      BY <3>1
  <2> QED
    <3>1. i \in Int /\ k \in Int
      BY <1>2
    <3> QED
      BY <2>1, <2>2, <2>3, <3>1
<1> QED
  BY <1>2, <1>4, <1>5 DEF r

\* Time passes for all pending interrupts alike.
LEMMA ElapseSorted ==
  ASSUME NEW q \in Seq(Interrupt), Sorted(q), NEW n \in Int
  PROVE  Elapse(q, n) \in Seq(Interrupt) /\ Sorted(Elapse(q, n))
<1> DEFINE r == Elapse(q, n)
<1>1. /\ r = [i \in 1 .. Len(q) |-> [q[i] EXCEPT !.left = @ - n]]
      /\ Len(q) \in Nat /\ \A i \in 1 .. Len(q) : q[i] \in Interrupt
  BY DEF Elapse
<1>2. \A i \in 1 .. Len(q) : r[i] \in Interrupt /\ r[i].left = q[i].left - n /\ q[i].left \in Int
  <2> SUFFICES ASSUME NEW i \in 1 .. Len(q)
               PROVE  r[i] \in Interrupt /\ r[i].left = q[i].left - n /\ q[i].left \in Int
    OBVIOUS
  <2>1. q[i] \in Interrupt /\ r[i] = [q[i] EXCEPT !.left = q[i].left - n]
    BY <1>1
  <2>2. q[i].left \in Int /\ q[i].left - n \in Int
    BY <2>1, InterruptFields
  <2> QED
    BY <2>1, <2>2, InterruptFields
<1>3. r \in Seq(Interrupt) /\ Len(r) = Len(q)
  BY <1>1, <1>2
<1> HIDE DEF r
<1>4. Sorted(r)
  BY <1>2, <1>3 DEF Sorted
<1> QED
  BY <1>3, <1>4 DEF r

LEMMA TailSorted ==
  ASSUME NEW q \in Seq(Interrupt), Sorted(q), q # <<>>
  PROVE  Tail(q) \in Seq(Interrupt) /\ Sorted(Tail(q)) /\ Head(q) \in Interrupt
<1> DEFINE r == Tail(q)
<1>1. /\ r \in Seq(Interrupt) /\ Len(q) \in Nat \ {0} /\ Len(r) = Len(q) - 1
      /\ \A i \in 1 .. Len(q) - 1 : r[i] = q[i + 1]
  OBVIOUS
<1> HIDE DEF r
<1>2. \A i \in 1 .. Len(r) : i + 1 \in 1 .. Len(q) /\ r[i] = q[i + 1]
  BY <1>1
<1>3. Sorted(r)
  <2> SUFFICES ASSUME NEW i \in 1 .. Len(r), NEW j \in 1 .. Len(r), i < j
               PROVE  r[i].left <= r[j].left
    BY DEF Sorted
  <2>1. i + 1 < j + 1
    BY <1>1
  <2> QED
    BY <2>1, <1>2 DEF Sorted
<1>4. Head(q) \in Interrupt
  OBVIOUS
<1> QED
  BY <1>1, <1>3, <1>4 DEF r

-----------------------------------------------------------------------------
(* The steps *)

LEMMA InitIInv == Init => ThreadsIInv
<1> SUFFICES ASSUME Init PROVE ThreadsIInv
  OBVIOUS
<1> USE ThreadsConstants DEF ThreadsConstants, Init, NewScheduler, NewInterrupt, NewTimer, NewSemaphores
<1>1. PICK n \in TimerDelay : pending = <<[dev |-> "timer", left |-> n]>>
  OBVIOUS
<1>2. /\ pending \in Seq(Interrupt) /\ Len(pending) = 1 /\ pending[1].left > 0
  BY <1>1 DEF Interrupt
<1>3. TypeOK
  <2>1. <<>> \in Seq(Thread) /\ <<NoThread, 0>> \in (Thread \cup {NoThread}) \X (0 .. 2)
    OBVIOUS
  <2>2. readyList \in Seq(Thread) /\ queue \in [Sem -> Seq(Thread)]
    BY <2>1
  <2>3. /\ registers \in (Thread \cup {NoThread}) \X (0 .. 2)
        /\ userRegisters \in [Thread -> (Thread \cup {NoThread}) \X (0 .. 2)]
        /\ executed \in [Thread -> 0 .. 2]
    BY <2>1
  <2>4. /\ status \in [Thread -> {"NONE", "RUNNING", "READY", "BLOCKED"}]
        /\ doing \in [Thread -> {"code", "begin", "yield", "finish"} \cup Sem]
        /\ back \in [Thread -> {"System", "User"}]
    OBVIOUS
  <2> QED
    BY <1>2, <2>2, <2>3, <2>4 DEF TypeOK, Interrupt
<1>4. Timely
  BY <1>2 DEF Timely, Sorted
<1>5. Places
  <2>1. readyList \in Seq(Thread) /\ readyList = <<>> /\ Len(readyList) = 0
    OBVIOUS
  <2>2. \A s \in Sem : queue[s] \in Seq(Thread) /\ queue[s] = <<>> /\ Len(queue[s]) = 0
    OBVIOUS
  <2>3. Range(readyList) = {} /\ \A s \in Sem : Range(queue[s]) = {}
    BY <2>1, <2>2, ElementsOf
  <2> QED
    BY <2>1, <2>2, <2>3 DEF Places, Distinct, Asleep
<1>6. Routines /\ Processor /\ Carcass
  BY DEF Routines, Processor, Carcass
<1>7. Programs
  BY DEF Programs
<1> QED
  BY <1>3, <1>4, <1>5, <1>6, <1>7 DEF ThreadsIInv

LEMMA PendingList == ThreadsIInv => pending \in Seq(Interrupt) /\ Sorted(pending)
BY DEF ThreadsIInv, TypeOK, Timely, Interrupt

LEMMA TickList ==
  ASSUME ThreadsIInv, NEW n \in Nat, OneTick(n)
  PROVE  cpu' = "tick" /\ pending' \in Seq(Interrupt) /\ Sorted(pending')
BY PendingList, ElapseSorted DEF OneTick

\* Steps that leave threads and lists alone.
LEMMA SameThreads ==
  ASSUME ThreadsIInv, UNCHANGED <<current, status, readyList, doing, queue>>
  PROVE  Places' /\ Routines'
BY DEF ThreadsIInv, Places, Distinct, Asleep, Routines

\* Nothing is left to be destroyed but between the halves of Run.
LEMMA NoCarcass ==
  ASSUME ThreadsIInv, cpu # "resume", UNCHANGED toBeDestroyed
  PROVE  toBeDestroyed = NoThread /\ Carcass'
BY DEF ThreadsIInv, Carcass

LEMMA ExecuteIInv == ASSUME ThreadsIInv, Execute PROVE ThreadsIInv'
<1> USE DEF Execute, InKernel, sched, clock, sems
<1>1. TypeOK'
  BY DEF ThreadsIInv, TypeOK
<1>2. Places' /\ Routines' /\ Carcass'
  BY SameThreads, NoCarcass
<1>3. Processor' /\ Timely'
  BY DEF ThreadsIInv, Processor, Timely, Sorted
<1>4. Programs'
  BY DEF ThreadsIInv, TypeOK, Processor, Programs
<1> QED
  BY <1>1, <1>2, <1>3, <1>4 DEF ThreadsIInv

LEMMA InstructionIInv == ASSUME ThreadsIInv, Instruction PROVE ThreadsIInv'
<1> USE DEF Instruction, sched, sems
<1>1. cpu' = "tick" /\ pending' \in Seq(Interrupt) /\ Sorted(pending')
  BY TickList, ThreadsConstants DEF ThreadsConstants
<1>2. /\ current \in Thread /\ executed[current] \in {1, 2}
      /\ registers = <<current, executed[current]>> /\ pageTable = current
  BY DEF ThreadsIInv, TypeOK, Programs
<1>3. /\ registers' = <<current, executed'[current]>> /\ executed'[current] \in {1, 2}
      /\ \A t \in Thread \ {current} : executed'[t] = executed[t]
      /\ executed' \in [Thread -> 0 .. 2]
  BY <1>2 DEF ThreadsIInv, TypeOK
<1>4. TypeOK'
  BY <1>1, <1>2, <1>3 DEF ThreadsIInv, TypeOK, Interrupt
<1>5. Places' /\ Routines' /\ Carcass'
  BY SameThreads, NoCarcass
<1>6. Processor' /\ Timely'
  BY <1>1 DEF ThreadsIInv, Processor, Timely
<1>7. Programs'
  BY <1>1, <1>2, <1>3 DEF ThreadsIInv, TypeOK, Processor, Programs
<1> QED
  BY <1>4, <1>5, <1>6, <1>7 DEF ThreadsIInv

LEMMA TrapIInv == ASSUME ThreadsIInv, Trap PROVE ThreadsIInv'
<1> USE DEF Trap, sched, clock, sems, user
<1>1. TypeOK'
  BY DEF ThreadsIInv, TypeOK
<1>2. Places' /\ Routines' /\ Carcass'
  BY SameThreads, NoCarcass
<1>3. Processor' /\ Timely' /\ Programs'
  BY DEF ThreadsIInv, Processor, Timely, Sorted, Programs
<1> QED
  BY <1>1, <1>2, <1>3 DEF ThreadsIInv

LEMMA ReturnIInv == ASSUME ThreadsIInv, Return PROVE ThreadsIInv'
<1> USE DEF Return, InKernel, sched, sems, user
<1>1. cpu' = "tick" /\ pending' \in Seq(Interrupt) /\ Sorted(pending')
  BY TickList, ThreadsConstants DEF ThreadsConstants
<1>2. TypeOK'
  BY <1>1 DEF ThreadsIInv, TypeOK, Interrupt
<1>3. Places' /\ Routines' /\ Carcass'
  BY SameThreads, NoCarcass
<1>4. Processor' /\ Timely'
  BY <1>1 DEF ThreadsIInv, Processor, Timely
<1>5. Programs'
  BY <1>1 DEF ThreadsIInv, TypeOK, Processor, Programs
<1> QED
  BY <1>2, <1>3, <1>4, <1>5 DEF ThreadsIInv

LEMMA RequestIInv == ASSUME ThreadsIInv, NEW d \in Device, Request(d) PROVE ThreadsIInv'
<1> USE DEF Request, InKernel, sched, sems, user
<1>1. PICK n \in Latency : pending' = Insert(pending, [dev |-> d, left |-> n])
  OBVIOUS
<1>2. [dev |-> d, left |-> n] \in Interrupt /\ n > 0
  BY ThreadsConstants DEF ThreadsConstants, Interrupt
<1>3. pending' \in Seq(Interrupt) /\ Sorted(pending')
  BY <1>1, <1>2, PendingList, InsertSorted
<1>4. \A i \in 1 .. Len(pending') : pending'[i].left > 0
  <2> SUFFICES ASSUME NEW i \in 1 .. Len(pending') PROVE pending'[i].left > 0
    OBVIOUS
  <2>1. \/ pending'[i] = [dev |-> d, left |-> n]
        \/ \E j \in 1 .. Len(pending) : pending'[i] = pending[j]
    BY <1>1, <1>2, PendingList, InsertSorted
  <2>2. \A j \in 1 .. Len(pending) : pending[j].left > 0
    BY DEF ThreadsIInv, Timely
  <2> QED
    BY <1>2, <2>1, <2>2
<1>5. TypeOK'
  BY <1>3 DEF ThreadsIInv, TypeOK, Interrupt
<1>6. Places' /\ Routines' /\ Carcass'
  BY SameThreads, NoCarcass
<1>7. Processor' /\ Timely' /\ Programs'
  BY <1>3, <1>4 DEF ThreadsIInv, Processor, Timely, Programs
<1> QED
  BY <1>5, <1>6, <1>7 DEF ThreadsIInv

LEMMA NoneReadyIsEmpty == ThreadsIInv => (NoneReady <=> readyList = <<>>)
<1> SUFFICES ASSUME ThreadsIInv, readyList # <<>> PROVE Head(readyList) # NoThread
  BY DEF NoneReady, FindNextToRun
<1>1. Head(readyList) \in Thread
  BY DEF ThreadsIInv, TypeOK
<1> QED
  BY <1>1, ThreadsConstants DEF ThreadsConstants

LEMMA IdleIInv == ASSUME ThreadsIInv, Idle PROVE ThreadsIInv'
<1> USE DEF Idle, sched, sems, user
<1>1. pending' \in Seq(Interrupt) /\ Sorted(pending')
  <2>1. CASE pending # <<>>
    <3>1. Head(pending).left \in Int
      BY <2>1, PendingList, TailSorted, InterruptFields
    <3> QED
      BY <2>1, <3>1, PendingList, ElapseSorted
  <2>2. CASE pending = <<>>
    BY <2>2, PendingList
  <2> QED
    BY <2>1, <2>2
<1>2. cpu' \in {"halt", "idle"} /\ mode' \in {mode, "Idle"} /\ timerDisabled' = TRUE
  BY DEF Halt, PrepareToEnd
<1>3. TypeOK'
  BY <1>1, <1>2 DEF ThreadsIInv, TypeOK, Interrupt
<1>4. Places' /\ Routines' /\ Carcass'
  BY SameThreads, NoCarcass
<1>5. Processor' /\ Timely'
  BY <1>1, <1>2 DEF ThreadsIInv, Processor, Timely
<1>6. Programs'
  BY <1>2 DEF ThreadsIInv, Programs
<1> QED
  BY <1>3, <1>4, <1>5, <1>6 DEF ThreadsIInv

LEMMA IdleDoneIInv == ASSUME ThreadsIInv, IdleDone PROVE ThreadsIInv'
<1> USE DEF IdleDone, sched, clock, sems, user
<1>1. TypeOK'
  BY DEF ThreadsIInv, TypeOK
<1>2. Places' /\ Routines' /\ Carcass'
  BY SameThreads, NoCarcass
<1>3. Processor' /\ Timely' /\ Programs'
  BY DEF ThreadsIInv, Processor, Timely, Sorted, Programs
<1> QED
  BY <1>1, <1>2, <1>3 DEF ThreadsIInv

LEMMA PCallIInv == ASSUME ThreadsIInv, NEW s \in Sem, PCall(s) PROVE ThreadsIInv'
<1> USE DEF PCall, InKernel, sched, clock, sems, user
<1>1. current \in Thread /\ status[current] = "RUNNING" /\ doing[current] = "code"
  BY DEF ThreadsIInv, TypeOK, Processor
<1>2. \A t \in Thread : /\ doing'[t] = IF t = current THEN s ELSE doing[t]
                        /\ back'[t] = IF t = current THEN "System" ELSE back[t]
  BY DEF ThreadsIInv, TypeOK
<1>3. TypeOK'
  BY DEF ThreadsIInv, TypeOK
<1>4. Places'
  <2>1. \A q \in Sem : Asleep(q)' = Asleep(q)
    BY <1>1, <1>2 DEF Asleep
  <2> QED
    BY <2>1 DEF ThreadsIInv, Places, Distinct
<1>5. Routines' /\ Processor'
  BY <1>1, <1>2 DEF ThreadsIInv, Routines, Processor
<1>6. Carcass' /\ Timely'
  BY NoCarcass DEF ThreadsIInv, Timely, Sorted
<1>7. Programs'
  <2>1. s \notin {"begin", "finish"}
    BY ThreadsConstants DEF ThreadsConstants
  <2> QED
    BY <1>1, <1>2, <2>1 DEF ThreadsIInv, Programs
<1> QED
  BY <1>3, <1>4, <1>5, <1>6, <1>7 DEF ThreadsIInv

LEMMA FinishIInv == ASSUME ThreadsIInv, Finish PROVE ThreadsIInv'
<1> USE DEF Finish, InKernel, sched, clock, sems
<1>1. current \in Thread /\ status[current] = "RUNNING" /\ doing[current] = "code"
  BY DEF ThreadsIInv, TypeOK, Processor
<1>2. \A t \in Thread : /\ doing'[t] = IF t = current THEN "finish" ELSE doing[t]
                        /\ status'[t] = IF t = current THEN "BLOCKED" ELSE status[t]
                        /\ executed'[t] = IF t = current THEN 0 ELSE executed[t]
  BY DEF ThreadsIInv, TypeOK
<1>3. TypeOK'
  BY DEF ThreadsIInv, TypeOK
<1>4. Places'
  <2>1. \A q \in Sem : Asleep(q)' = Asleep(q)
    BY <1>1, <1>2, ThreadsConstants DEF Asleep, ThreadsConstants
  <2>2. {t \in Thread : status[t] = "READY"}' = {t \in Thread : status[t] = "READY"}
    BY <1>1, <1>2
  <2> QED
    BY <2>1, <2>2 DEF ThreadsIInv, Places, Distinct
<1>5. Routines' /\ Processor'
  BY <1>1, <1>2 DEF ThreadsIInv, Routines, Processor
<1>6. Carcass' /\ Timely'
  BY NoCarcass DEF ThreadsIInv, Timely, Sorted
<1>7. Programs'
  BY <1>1, <1>2 DEF ThreadsIInv, Programs
<1> QED
  BY <1>3, <1>4, <1>5, <1>6, <1>7 DEF ThreadsIInv

\* Steps of the kernel that neither switch threads nor touch what belongs to a
\* user program.
LEMMA ProgramsKept ==
  ASSUME ThreadsIInv, UNCHANGED <<current, user>>, cpu # "resume", cpu' # "resume",
         \A t \in Thread : /\ status[t] # "NONE" => status'[t] # "NONE"
                           /\ executed[t] # 0 => doing'[t] = doing[t]
                           /\ back'[t] = "User" => back[t] = "User" /\ doing'[t] = doing[t],
         mode' = "User" => mode = "User" /\ cpu' \in {"run", "tick"}
  PROVE  Programs'
<1>1. UNCHANGED <<current, registers, pageTable, userRegisters, executed>>
  BY DEF user
<1>2. ASSUME NEW t \in Thread, executed'[t] # 0
      PROVE  /\ t \in UserThread /\ status'[t] # "NONE" /\ doing'[t] \notin {"begin", "finish"}
             /\ t # current' \/ cpu' = "resume" => userRegisters'[t] = <<t, executed'[t]>>
             /\ t = current' /\ cpu' # "resume" =>
                  registers' = <<current', executed'[current']>> /\ pageTable' = current'
  BY <1>1, <1>2 DEF ThreadsIInv, Programs
<1>3. ASSUME NEW t \in Thread, back'[t] = "User", doing'[t] # "finish" PROVE executed'[t] # 0
  BY <1>1, <1>3 DEF ThreadsIInv, Programs
<1>4. mode' = "User" => cpu' \in {"run", "tick"} /\ executed'[current'] # 0
  BY <1>1 DEF ThreadsIInv, Programs
<1> QED
  BY <1>2, <1>3, <1>4 DEF Programs

LEMMA ForkIInv == ASSUME ThreadsIInv, NEW u \in Thread, Fork(u) PROVE ThreadsIInv'
<1> USE DEF Fork, InKernel, ReadyToRun, StackAllocate, sems, user
<1>1. /\ current \in Thread /\ status[current] = "RUNNING" /\ doing[current] = "code"
      /\ u # current
  BY DEF ThreadsIInv, TypeOK, Processor
<1>2. \A t \in Thread :
        /\ doing'[t] = IF t = u THEN "begin" ELSE doing[t]
        /\ status'[t] = IF t = u THEN "READY" ELSE status[t]
        /\ back'[t] = IF t = current \/ t = u THEN "System" ELSE back[t]
  BY <1>1 DEF ThreadsIInv, TypeOK
<1>3. cpu' = "tick" /\ pending' \in Seq(Interrupt) /\ Sorted(pending')
  BY TickList, ThreadsConstants DEF ThreadsConstants
<1>4. /\ readyList' \in Seq(Thread) /\ Distinct(readyList')
      /\ Range(readyList') = Range(readyList) \cup {u}
  BY AppendDistinct DEF ThreadsIInv, TypeOK, Places
<1>5. TypeOK'
  BY <1>3, <1>4 DEF ThreadsIInv, TypeOK, Interrupt
<1>6. Places'
  <2>1. \A q \in Sem : Asleep(q)' = Asleep(q)
    BY <1>2 DEF Asleep
  <2>2. {t \in Thread : status[t] = "READY"}' = {t \in Thread : status[t] = "READY"} \cup {u}
    BY <1>2
  <2>3. \A q \in Sem : Distinct(queue[q])' /\ Range(queue[q])' = Asleep(q)'
    BY <2>1 DEF ThreadsIInv, Places, Distinct
  <2> QED
    BY <2>2, <2>3, <1>4 DEF ThreadsIInv, Places
<1>7. Routines' /\ Processor'
  BY <1>1, <1>2, <1>3 DEF ThreadsIInv, Routines, Processor
<1>8. Carcass' /\ Timely'
  BY <1>3, NoCarcass DEF ThreadsIInv, Timely
<1>9. Programs'
  <2>1. executed[u] = 0
    BY DEF ThreadsIInv, Programs
  <2>2. \A t \in Thread : /\ status[t] # "NONE" => status'[t] # "NONE"
                          /\ executed[t] # 0 => doing'[t] = doing[t]
                          /\ back'[t] = "User" => back[t] = "User" /\ doing'[t] = doing[t]
    <3> HIDE DEF Fork, ReadyToRun, StackAllocate
    <3> QED
      BY <1>2, <2>1
  <2> QED
    BY <1>3, <2>2, ProgramsKept
<1> QED
  BY <1>5, <1>6, <1>7, <1>8, <1>9 DEF ThreadsIInv

\* The first thread of a semaphore's queue becomes ready; nobody else moves.
LEMMA VBodyThreads ==
  ASSUME ThreadsIInv, NEW s \in Sem, VBody(s), UNCHANGED <<current, doing>>
  PROVE  /\ readyList' \in Seq(Thread) /\ queue' \in [Sem -> Seq(Thread)]
         /\ status' \in [Thread -> {"NONE", "RUNNING", "READY", "BLOCKED"}]
         /\ value' \in [Sem -> Nat]
         /\ Places' /\ Routines'
         /\ \A t \in Thread : \/ status'[t] = status[t]
                              \/ status[t] = "BLOCKED" /\ status'[t] = "READY"
<1>0. value' \in [Sem -> Nat]
  BY DEF ThreadsIInv, TypeOK, VBody
<1>1. /\ readyList \in Seq(Thread) /\ queue \in [Sem -> Seq(Thread)]
      /\ status \in [Thread -> {"NONE", "RUNNING", "READY", "BLOCKED"}]
  BY DEF ThreadsIInv, TypeOK
<1>2. CASE queue[s] = <<>>
  <2>1. /\ queue' = [queue EXCEPT ![s] = queue[s]] /\ readyList' = readyList \o <<>>
        /\ status' = [t \in Thread |-> IF t \in Range(<<>>) THEN "READY" ELSE status[t]]
    BY <1>2 DEF VBody
  <2>2. Range(<<>>) = {}
    BY DEF Range
  <2>3. queue' = queue /\ readyList' = readyList /\ status' = status
    BY <2>1, <2>2, <1>1
  <2>4. Places' /\ Routines'
    BY <2>3, SameThreads
  <2> QED
    BY <1>0, <1>1, <2>3, <2>4
<1>3. CASE queue[s] # <<>>
  <2> DEFINE h == Head(queue[s])
  <2>1. /\ queue' = [queue EXCEPT ![s] = Tail(queue[s])] /\ readyList' = readyList \o <<h>>
        /\ status' = [t \in Thread |-> IF t \in Range(<<h>>) THEN "READY" ELSE status[t]]
    BY <1>3 DEF VBody
  <2>2. /\ h \in Thread /\ h \in Range(queue[s])
        /\ Tail(queue[s]) \in Seq(Thread) /\ Distinct(Tail(queue[s]))
        /\ Range(Tail(queue[s])) = Range(queue[s]) \ {h}
    BY <1>1, <1>3, TailDistinct DEF ThreadsIInv, Places
  <2> HIDE DEF h
  <2>3. status[h] = "BLOCKED" /\ doing[h] = s
    BY <2>2 DEF ThreadsIInv, Places, Asleep
  <2>4. Range(<<h>>) = {h}
    BY <2>2 DEF Range
  <2>5. \A t \in Thread : status'[t] = IF t = h THEN "READY" ELSE status[t]
    BY <2>1, <2>4
  <2>6. status' \in [Thread -> {"NONE", "RUNNING", "READY", "BLOCKED"}]
    BY <2>1, <2>4, <1>1
  <2>7. readyList' = Append(readyList, h)
    BY <2>1, <2>2, <1>1
  <2>8. h \notin Range(readyList) /\ Distinct(readyList)
    BY <2>3 DEF ThreadsIInv, Places
  <2>9. /\ readyList' \in Seq(Thread) /\ Distinct(readyList')
        /\ Range(readyList') = Range(readyList) \cup {h}
    BY <2>2, <2>7, <2>8, <1>1, AppendDistinct
  <2>10. /\ queue' \in [Sem -> Seq(Thread)]
         /\ \A q \in Sem : queue'[q] = IF q = s THEN Tail(queue[s]) ELSE queue[q]
    BY <2>1, <2>2, <1>1
  <2>11. Places'
    <3>1. \A q \in Sem : Asleep(q)' = Asleep(q) \ {h}
      BY <2>5 DEF Asleep
    <3>2. ASSUME NEW q \in Sem PROVE Distinct(queue'[q]) /\ Range(queue'[q]) = Asleep(q) \ {h}
      <4>1. CASE q = s
        BY <4>1, <2>2, <2>10 DEF ThreadsIInv, Places
      <4>2. CASE q # s
        <5>1. h \notin Asleep(q)
          BY <4>2, <2>3 DEF Asleep
        <5> QED
          BY <4>2, <5>1, <2>10 DEF ThreadsIInv, Places
      <4> QED
        BY <4>1, <4>2
    <3>3. {t \in Thread : status[t] = "READY"}' = {t \in Thread : status[t] = "READY"} \cup {h}
      BY <2>2, <2>5
    <3> QED
      BY <2>9, <3>1, <3>2, <3>3 DEF ThreadsIInv, Places
  <2>12. Routines'
    BY <2>3, <2>5 DEF ThreadsIInv, Routines
  <2> QED
    BY <1>0, <2>3, <2>5, <2>6, <2>9, <2>10, <2>11, <2>12
<1> QED
  BY <1>2, <1>3

LEMMA VIInv == ASSUME ThreadsIInv, NEW s \in Sem, V(s) PROVE ThreadsIInv'
<1> USE DEF V, InKernel, user
<1>1. /\ readyList' \in Seq(Thread) /\ queue' \in [Sem -> Seq(Thread)]
      /\ status' \in [Thread -> {"NONE", "RUNNING", "READY", "BLOCKED"}]
      /\ value' \in [Sem -> Nat]
      /\ Places' /\ Routines'
      /\ \A t \in Thread : \/ status'[t] = status[t]
                           \/ status[t] = "BLOCKED" /\ status'[t] = "READY"
  BY VBodyThreads
<1>2. cpu' = "tick" /\ pending' \in Seq(Interrupt) /\ Sorted(pending')
  BY TickList, ThreadsConstants DEF ThreadsConstants
<1>3. current \in Thread /\ status[current] = "RUNNING" /\ doing[current] = "code"
  BY DEF ThreadsIInv, TypeOK, Processor
<1>4. TypeOK'
  BY <1>1, <1>2 DEF ThreadsIInv, TypeOK, Interrupt
<1>5. Processor' /\ Carcass' /\ Timely'
  BY <1>1, <1>2, <1>3, NoCarcass DEF Processor, Timely
<1>6. \A t \in Thread : back'[t] = IF t = current THEN "System" ELSE back[t]
  BY DEF ThreadsIInv, TypeOK
<1>7. \A t \in Thread : status[t] # "NONE" => status'[t] # "NONE"
  BY <1>1
<1>8. Programs'
  BY <1>2, <1>6, <1>7, ProgramsKept, SMTT(30)
<1> QED
  BY <1>1, <1>4, <1>5, <1>8 DEF ThreadsIInv

LEMMA CheckIfDueIInv == ASSUME ThreadsIInv, CheckIfDue PROVE ThreadsIInv'
<1> USE DEF CheckIfDue, user
<1>0. pending # <<>>
  BY DEF Due
<1>1. /\ Tail(pending) \in Seq(Interrupt) /\ Sorted(Tail(pending)) /\ Head(pending) \in Interrupt
  BY <1>0, PendingList, TailSorted
<1>2. CASE TimerCallBack
  <2>1. yieldOnReturn' \in BOOLEAN /\ UNCHANGED <<readyList, status, sems>>
    BY <1>2 DEF TimerCallBack, AlarmCallBack, YieldOnReturn, ThreadsIInv, TypeOK
  <2>2. pending' \in Seq(Interrupt) /\ Sorted(pending')
    <3>1. CASE timerDisabled
      BY <3>1, <1>1, <1>2 DEF TimerCallBack, ScheduleTimer
    <3>2. CASE ~timerDisabled
      <4>1. PICK n \in TimerDelay : pending' = Insert(Tail(pending), [dev |-> "timer", left |-> n])
        BY <3>2, <1>2 DEF TimerCallBack, ScheduleTimer
      <4>2. [dev |-> "timer", left |-> n] \in Interrupt
        BY ThreadsConstants DEF ThreadsConstants, Interrupt
      <4> QED
        BY <4>1, <4>2, <1>1, InsertSorted
    <3> QED
      BY <3>1, <3>2
  <2>3. TypeOK'
    BY <2>1, <2>2 DEF ThreadsIInv, TypeOK, Interrupt, sems
  <2>4. Places' /\ Routines' /\ Carcass'
    BY <2>1, SameThreads, NoCarcass DEF sems
  <2>5. Processor' /\ Timely' /\ Programs'
    BY <2>1, <2>2 DEF ThreadsIInv, Processor, Timely, Programs
  <2> QED
    BY <2>3, <2>4, <2>5 DEF ThreadsIInv
<1>3. CASE DeviceCallBack
  <2>1. PICK s \in Sem : VBody(s)
    BY <1>3, ThreadsConstants DEF DeviceCallBack, ThreadsConstants
  <2>2. /\ readyList' \in Seq(Thread) /\ queue' \in [Sem -> Seq(Thread)]
        /\ status' \in [Thread -> {"NONE", "RUNNING", "READY", "BLOCKED"}]
        /\ value' \in [Sem -> Nat]
        /\ Places' /\ Routines'
        /\ \A t \in Thread : \/ status'[t] = status[t]
                             \/ status[t] = "BLOCKED" /\ status'[t] = "READY"
    BY <2>1, VBodyThreads
  <2>3. pending' \in Seq(Interrupt) /\ Sorted(pending') /\ UNCHANGED yieldOnReturn
    BY <1>1, <1>3 DEF DeviceCallBack
  <2>4. TypeOK'
    BY <2>2, <2>3 DEF ThreadsIInv, TypeOK, Interrupt
  <2>5. Processor' /\ Carcass' /\ Timely'
    BY <2>2, <2>3, NoCarcass DEF ThreadsIInv, TypeOK, Processor, Timely
  <2>6. Programs'
    BY <2>2 DEF ThreadsIInv, Programs
  <2> QED
    BY <2>2, <2>4, <2>5, <2>6 DEF ThreadsIInv
<1> QED
  BY <1>2, <1>3

\* The loop of P: the thread goes to sleep on the queue it was not on, or takes
\* a unit and is done.
LEMMA PIInv == ASSUME ThreadsIInv, P PROVE ThreadsIInv'
<1> USE DEF P, sched, user
<1> DEFINE s == doing[current]
<1>1. /\ current \in Thread /\ status[current] = "RUNNING" /\ s \in Sem /\ value[s] \in Nat
      /\ UNCHANGED <<current, readyList, toBeDestroyed, mode, back, yieldOnReturn, timerDisabled>>
  BY DEF ThreadsIInv, TypeOK, Processor
<1>2. CASE /\ value[s] = 0
           /\ queue' = [queue EXCEPT ![s] = Append(@, current)]
           /\ status' = [status EXCEPT ![current] = "BLOCKED"] /\ cpu' = "sleep"
           /\ UNCHANGED <<value, doing, pending>>
  <2> HIDE DEF P
  <2>1. queue[s] \in Seq(Thread) /\ Distinct(queue[s]) /\ current \notin Range(queue[s])
    BY <1>1 DEF ThreadsIInv, TypeOK, Places, Asleep
  <2>2. /\ Append(queue[s], current) \in Seq(Thread) /\ Distinct(Append(queue[s], current))
        /\ Range(Append(queue[s], current)) = Range(queue[s]) \cup {current}
    BY <1>1, <2>1, AppendDistinct, SMTT(30)
  <2>3. /\ queue' \in [Sem -> Seq(Thread)]
        /\ \A q \in Sem : queue'[q] = IF q = s THEN Append(queue[s], current) ELSE queue[q]
    BY <1>1, <1>2, <2>2 DEF ThreadsIInv, TypeOK
  <2>4. /\ status' \in [Thread -> {"NONE", "RUNNING", "READY", "BLOCKED"}]
        /\ \A t \in Thread : status'[t] = IF t = current THEN "BLOCKED" ELSE status[t]
    BY <1>1, <1>2 DEF ThreadsIInv, TypeOK
  <2>5. TypeOK'
    BY <1>1, <1>2, <2>3, <2>4, P, SMTT(30) DEF ThreadsIInv, TypeOK, P
  <2>6. Places'
    <3>1. \A q \in Sem : Asleep(q)' = IF q = s THEN Asleep(q) \cup {current} ELSE Asleep(q)
      BY <1>1, <1>2, <2>4 DEF Asleep
    <3>2. \A q \in Sem : Distinct(queue'[q]) /\ Range(queue'[q]) = Asleep(q)'
      BY <1>1, <2>2, <2>3, <3>1 DEF ThreadsIInv, Places
    <3>3. {t \in Thread : status[t] = "READY"}' = {t \in Thread : status[t] = "READY"}
      BY <1>1, <2>4
    <3> QED
      BY <1>1, <3>2, <3>3 DEF ThreadsIInv, Places, Distinct
  <2>7. Routines' /\ Processor'
    BY <1>1, <1>2, <2>4 DEF ThreadsIInv, Routines, Processor
  <2>8. Carcass' /\ Timely'
    BY <1>1, <1>2, P, NoCarcass DEF ThreadsIInv, Timely, Sorted, P
  <2>9. Programs'
    <3>1. mode # "User" /\ cpu = "P" /\ UNCHANGED user
      BY P DEF ThreadsIInv, Programs, P
    <3>2. \A t \in Thread : status[t] # "NONE" => status'[t] # "NONE"
      BY <2>4
    <3> QED
      BY <1>1, <1>2, <3>1, <3>2, ProgramsKept
  <2> QED
    BY <2>5, <2>6, <2>7, <2>8, <2>9 DEF ThreadsIInv
<1>3. CASE /\ value[s] > 0
           /\ value' = [value EXCEPT ![s] = @ - 1]
           /\ doing' = [doing EXCEPT ![current] = "code"]
           /\ OneTick(SystemTick)
           /\ UNCHANGED <<queue, status>>
  <2> HIDE DEF P
  <2>1. cpu' = "tick" /\ pending' \in Seq(Interrupt) /\ Sorted(pending')
    BY <1>3, TickList, ThreadsConstants DEF ThreadsConstants
  <2>2. value' \in [Sem -> Nat]
    BY <1>1, <1>3 DEF ThreadsIInv, TypeOK
  <2>3. \A t \in Thread : doing'[t] = IF t = current THEN "code" ELSE doing[t]
    BY <1>1, <1>3 DEF ThreadsIInv, TypeOK
  <2>4. doing' \in [Thread -> {"code", "begin", "yield", "finish"} \cup Sem]
    BY <1>1, <1>3 DEF ThreadsIInv, TypeOK
  <2>5. TypeOK'
    BY <1>1, <1>3, <2>1, <2>2, <2>4, P DEF ThreadsIInv, TypeOK, Interrupt, P
  <2>6. Places'
    <3>1. \A q \in Sem : Asleep(q)' = Asleep(q)
      BY <1>1, <1>3, <2>3 DEF Asleep
    <3> QED
      BY <1>1, <1>3, <3>1 DEF ThreadsIInv, Places, Distinct
  <2>7. Routines' /\ Processor'
    BY <1>1, <1>3, <2>1, <2>3 DEF ThreadsIInv, Routines, Processor
  <2>8. Carcass' /\ Timely'
    BY <1>1, <2>1, P, NoCarcass DEF ThreadsIInv, Timely, P
  <2>9. Programs'
    <3>1. mode # "User" /\ cpu = "P" /\ UNCHANGED <<registers, pageTable, userRegisters, executed>>
      BY P DEF ThreadsIInv, Programs, P
    <3>2. s \notin {"begin", "finish"}
      BY <1>1, ThreadsConstants DEF ThreadsConstants
    <3>3. ASSUME NEW t \in Thread, executed'[t] # 0
          PROVE  /\ t \in UserThread /\ status'[t] # "NONE" /\ doing'[t] \notin {"begin", "finish"}
                 /\ t # current' \/ cpu' = "resume" => userRegisters'[t] = <<t, executed'[t]>>
                 /\ t = current' /\ cpu' # "resume" =>
                      registers' = <<current', executed'[current']>> /\ pageTable' = current'
      BY <1>1, <1>3, <2>1, <2>3, <3>1, <3>3 DEF ThreadsIInv, Programs
    <3>4. ASSUME NEW t \in Thread, back'[t] = "User", doing'[t] # "finish" PROVE executed'[t] # 0
      BY <1>1, <2>3, <3>1, <3>2, <3>4 DEF ThreadsIInv, Programs
    <3> QED
      BY <1>1, <3>1, <3>3, <3>4 DEF Programs
  <2> QED
    BY <2>5, <2>6, <2>7, <2>8, <2>9 DEF ThreadsIInv
<1> QED
  BY <1>2, <1>3

\* Scheduler::Run up to SWITCH: the registers of every user program are saved.
LEMMA RunPrograms ==
  ASSUME ThreadsIInv, NEW next \in Thread, NEW finishing, NEW st, Run(next, finishing, st),
         cpu # "resume", mode' # "User",
         \A t \in Thread : /\ status[t] # "NONE" => status'[t] # "NONE"
                           /\ doing'[t] = "finish" <=> doing[t] = "finish"
                           /\ doing'[t] = "begin" <=> doing[t] = "begin"
                           /\ back'[t] = "User" => back[t] = "User",
         UNCHANGED executed
  PROVE  /\ userRegisters' \in [Thread -> (Thread \cup {NoThread}) \X (0 .. 2)] /\ Programs'
<1>1. current \in Thread /\ cpu' = "resume"
  BY DEF ThreadsIInv, TypeOK, Run
<1>2. userRegisters' = IF current \in UserThread
                         THEN [userRegisters EXCEPT ![current] = registers] ELSE userRegisters
  BY DEF Run, SaveUserState
<1>3. /\ userRegisters' \in [Thread -> (Thread \cup {NoThread}) \X (0 .. 2)]
      /\ \A t \in Thread : userRegisters'[t] = IF t = current /\ t \in UserThread
                                                 THEN registers ELSE userRegisters[t]
  BY <1>1, <1>2 DEF ThreadsIInv, TypeOK
<1>4. ASSUME NEW t \in Thread, executed[t] # 0 PROVE userRegisters'[t] = <<t, executed[t]>>
  <2>1. CASE t = current
    BY <1>1, <1>3, <1>4, <2>1 DEF ThreadsIInv, Programs
  <2>2. CASE t # current
    BY <1>3, <1>4, <2>2 DEF ThreadsIInv, Programs
  <2> QED
    BY <2>1, <2>2
<1>5. ASSUME NEW t \in Thread, executed[t] # 0
      PROVE  t \in UserThread /\ status'[t] # "NONE" /\ doing'[t] \notin {"begin", "finish"}
  BY <1>5 DEF ThreadsIInv, Programs
<1>6. ASSUME NEW t \in Thread, back'[t] = "User", doing'[t] # "finish" PROVE executed[t] # 0
  BY <1>6 DEF ThreadsIInv, Programs
<1> QED
  BY <1>1, <1>3, <1>4, <1>5, <1>6 DEF Programs

LEMMA ReadyHead ==
  ASSUME ThreadsIInv, ~NoneReady
  PROVE  LET next == FindNextToRun IN
         /\ next \in Thread /\ status[next] = "READY"
         /\ doing[next] \in Sem \cup {"begin", "yield"}
         /\ Tail(readyList) \in Seq(Thread) /\ Distinct(Tail(readyList))
         /\ Range(Tail(readyList)) = {t \in Thread : status[t] = "READY"} \ {next}
<1>1. readyList \in Seq(Thread) /\ readyList # <<>> /\ FindNextToRun = Head(readyList)
  BY NoneReadyIsEmpty DEF ThreadsIInv, TypeOK, FindNextToRun
<1>2. /\ Distinct(readyList) /\ Range(readyList) = {t \in Thread : status[t] = "READY"}
  BY DEF ThreadsIInv, Places
<1>3. /\ Head(readyList) \in Range(readyList) /\ Head(readyList) \in Thread
      /\ Tail(readyList) \in Seq(Thread) /\ Distinct(Tail(readyList))
      /\ Range(Tail(readyList)) = Range(readyList) \ {Head(readyList)}
  BY <1>1, <1>2, TailDistinct
<1> QED
  BY <1>1, <1>2, <1>3 DEF ThreadsIInv, Routines

LEMMA DispatchIInv == ASSUME ThreadsIInv, Dispatch PROVE ThreadsIInv'
<1> DEFINE next == FindNextToRun
<1>1. /\ next \in Thread /\ status[next] = "READY"
      /\ doing[next] \in Sem \cup {"begin", "yield"}
      /\ readyList' \in Seq(Thread) /\ Distinct(readyList')
      /\ Range(readyList') = {t \in Thread : status[t] = "READY"} \ {next}
  BY ReadyHead DEF Dispatch
<1>2. /\ current \in Thread /\ cpu = "sleep" /\ status[current] \in {"READY", "BLOCKED"}
      /\ toBeDestroyed = NoThread
  BY DEF ThreadsIInv, TypeOK, Processor, Carcass, Dispatch
<1>3. /\ toBeDestroyed' = (IF doing[current] = "finish" THEN current ELSE toBeDestroyed)
      /\ current' = next /\ status' = [status EXCEPT ![next] = "RUNNING"] /\ cpu' = "resume"
      /\ UNCHANGED <<doing, mode, back, pending, yieldOnReturn, timerDisabled, value, queue,
                     registers, pageTable, executed>>
  BY DEF Dispatch, Run, clock, sems
<1> HIDE DEF next
<1>4. /\ status' \in [Thread -> {"NONE", "RUNNING", "READY", "BLOCKED"}]
      /\ \A t \in Thread : status'[t] = IF t = next THEN "RUNNING" ELSE status[t]
  BY <1>1, <1>3 DEF ThreadsIInv, TypeOK
<1>5. userRegisters' \in [Thread -> (Thread \cup {NoThread}) \X (0 .. 2)] /\ Programs'
  <2>1. mode' # "User"
    BY <1>2, <1>3 DEF ThreadsIInv, Programs
  <2> QED
    BY <1>1, <1>2, <1>3, <1>4, <2>1, RunPrograms DEF Dispatch, next
<1>6. TypeOK'
  BY <1>1, <1>2, <1>3, <1>4, <1>5 DEF ThreadsIInv, TypeOK
<1>7. Places'
  <2>1. \A q \in Sem : Asleep(q)' = Asleep(q)
    BY <1>1, <1>3, <1>4 DEF Asleep
  <2>2. {t \in Thread : status[t] = "READY"}' = {t \in Thread : status[t] = "READY"} \ {next}
    BY <1>4
  <2>3. \A q \in Sem : Distinct(queue'[q]) /\ Range(queue'[q]) = Asleep(q)'
    BY <1>3, <2>1 DEF ThreadsIInv, Places
  <2> QED
    BY <1>1, <2>2, <2>3 DEF Places
<1>8. Routines' /\ Processor'
  BY <1>1, <1>2, <1>3, <1>4 DEF ThreadsIInv, Routines, Processor
<1>9. Carcass'
  <2>1. CASE doing[current] = "finish"
    <3>1. current # next /\ status[current] = "BLOCKED"
      BY <1>1, <1>2, <2>1, ThreadsConstants DEF ThreadsIInv, Routines, ThreadsConstants
    <3> QED
      BY <1>2, <1>3, <1>4, <2>1, <3>1 DEF Carcass
  <2>2. CASE doing[current] # "finish"
    BY <1>2, <1>3, <2>2 DEF Carcass
  <2> QED
    BY <2>1, <2>2
<1>10. Timely'
  BY <1>3 DEF ThreadsIInv, Timely, Sorted
<1> QED
  BY <1>5, <1>6, <1>7, <1>8, <1>9, <1>10 DEF ThreadsIInv

LEMMA YieldBodyIInv ==
  ASSUME ThreadsIInv, cpu \in {"run", "tick"}, YieldBody, mode' = "System",
         UNCHANGED <<timerDisabled, sems, registers, pageTable, executed>>,
         yieldOnReturn' \in BOOLEAN, back' \in [Thread -> {"System", "User"}],
         \A t \in Thread : back'[t] = "User" => back[t] = "User"
  PROVE  ThreadsIInv'
<1>0. /\ current \in Thread /\ status[current] = "RUNNING" /\ doing[current] = "code"
      /\ toBeDestroyed = NoThread /\ UNCHANGED <<value, queue>>
  BY DEF ThreadsIInv, TypeOK, Processor, Carcass, sems
<1>1. CASE NoneReady /\ OneTick(SystemTick) /\ UNCHANGED <<sched, status, doing, userRegisters>>
  <2>1. cpu' = "tick" /\ pending' \in Seq(Interrupt) /\ Sorted(pending')
    BY <1>1, TickList, ThreadsConstants DEF ThreadsConstants
  <2>2. TypeOK'
    BY <1>0, <1>1, <2>1 DEF ThreadsIInv, TypeOK, Interrupt, sched
  <2>3. Places' /\ Routines' /\ Carcass'
    BY <1>0, <1>1, SameThreads, NoCarcass DEF sched
  <2>4. Processor' /\ Timely'
    BY <1>0, <1>1, <2>1 DEF Processor, Timely, sched
  <2>5. Programs'
    BY <1>1, <2>1, ProgramsKept DEF sched, user
  <2> QED
    BY <2>2, <2>3, <2>4, <2>5 DEF ThreadsIInv
<1>2. CASE ~NoneReady
  <2> DEFINE next == FindNextToRun
  <2>1. /\ next \in Thread /\ status[next] = "READY"
        /\ doing[next] \in Sem \cup {"begin", "yield"}
        /\ Tail(readyList) \in Seq(Thread) /\ Distinct(Tail(readyList))
        /\ Range(Tail(readyList)) = {t \in Thread : status[t] = "READY"} \ {next}
    BY <1>2, ReadyHead
  <2>2. /\ readyList' = Append(Tail(readyList), current)
        /\ doing' = [doing EXCEPT ![current] = "yield"]
        /\ toBeDestroyed' = toBeDestroyed /\ current' = next
        /\ status' = [[status EXCEPT ![current] = "READY"] EXCEPT ![next] = "RUNNING"]
        /\ cpu' = "resume" /\ UNCHANGED pending
        /\ Run(next, FALSE, [status EXCEPT ![current] = "READY"])
    BY <1>2 DEF YieldBody, Run
  <2> HIDE DEF next
  <2>3. /\ readyList' \in Seq(Thread) /\ Distinct(readyList')
        /\ Range(readyList') = ({t \in Thread : status[t] = "READY"} \ {next}) \cup {current}
    <3> DEFINE rest == Tail(readyList)
    <3>1. rest \in Seq(Thread) /\ Distinct(rest) /\ current \notin Range(rest)
      BY <1>0, <2>1
    <3> HIDE DEF rest
    <3>2. /\ Append(rest, current) \in Seq(Thread) /\ Distinct(Append(rest, current))
          /\ Range(Append(rest, current)) = Range(rest) \cup {current}
      BY <1>0, <3>1, AppendDistinct
    <3> QED
      BY <2>1, <2>2, <3>2 DEF rest
  <2>4. current # next
    BY <1>0, <2>1
  <2>5. /\ status' \in [Thread -> {"NONE", "RUNNING", "READY", "BLOCKED"}]
        /\ \A t \in Thread : status'[t] = IF t = next THEN "RUNNING"
                                          ELSE IF t = current THEN "READY" ELSE status[t]
    BY <1>0, <2>1, <2>2 DEF ThreadsIInv, TypeOK
  <2>6. /\ doing' \in [Thread -> {"code", "begin", "yield", "finish"} \cup Sem]
        /\ \A t \in Thread : doing'[t] = IF t = current THEN "yield" ELSE doing[t]
    BY <1>0, <2>2 DEF ThreadsIInv, TypeOK
  <2>7. userRegisters' \in [Thread -> (Thread \cup {NoThread}) \X (0 .. 2)] /\ Programs'
    BY <1>0, <2>1, <2>2, <2>5, <2>6, RunPrograms
  <2>8. TypeOK'
    BY <1>0, <2>1, <2>2, <2>3, <2>5, <2>6, <2>7 DEF ThreadsIInv, TypeOK
  <2>9. Places'
    <3>1. \A q \in Sem : Asleep(q)' = Asleep(q)
      BY <1>0, <2>1, <2>5, <2>6, ThreadsConstants DEF Asleep, ThreadsConstants
    <3>2. {t \in Thread : status[t] = "READY"}'
            = ({t \in Thread : status[t] = "READY"} \ {next}) \cup {current}
      BY <1>0, <2>4, <2>5
    <3>3. \A q \in Sem : Distinct(queue'[q]) /\ Range(queue'[q]) = Asleep(q)'
      BY <1>0, <3>1 DEF ThreadsIInv, Places
    <3> QED
      BY <2>3, <3>2, <3>3 DEF Places
  <2>10. Routines' /\ Processor'
    BY <1>0, <2>1, <2>2, <2>4, <2>5, <2>6 DEF ThreadsIInv, Routines, Processor
  <2>11. Carcass' /\ Timely'
    BY <1>0, <2>2 DEF ThreadsIInv, Carcass, Timely, Sorted
  <2> QED
    BY <2>7, <2>8, <2>9, <2>10, <2>11 DEF ThreadsIInv
<1> QED
  BY <1>1, <1>2 DEF YieldBody

LEMMA YieldIInv == ASSUME ThreadsIInv, Yield PROVE ThreadsIInv'
<1>1. /\ back' \in [Thread -> {"System", "User"}]
      /\ \A t \in Thread : back'[t] = IF t = current THEN "System" ELSE back[t]
  BY DEF Yield, ThreadsIInv, TypeOK
<1>2. yieldOnReturn' \in BOOLEAN
  BY DEF Yield, ThreadsIInv, TypeOK
<1> QED
  BY <1>1, <1>2, YieldBodyIInv DEF Yield, InKernel

\* OneTick is over: back to what ran, or a yield on its behalf.
LEMMA TickDoneIInv == ASSUME ThreadsIInv, TickDone PROVE ThreadsIInv'
<1>1. CASE /\ cpu' = "run" /\ mode' = back[current]
           /\ UNCHANGED <<sched, status, doing, pending, yieldOnReturn, userRegisters>>
  <2>1. /\ cpu = "tick" /\ ~Due /\ current \in Thread
        /\ status[current] = "RUNNING" /\ doing[current] = "code"
        /\ UNCHANGED <<current, readyList, toBeDestroyed, back, timerDisabled, value, queue,
                       registers, pageTable, executed>>
    BY <1>1 DEF TickDone, ThreadsIInv, TypeOK, Processor, sched, sems
  <2>2. \A i \in 1 .. Len(pending) : pending[i].left > 0
    <3> SUFFICES ASSUME NEW i \in 1 .. Len(pending) PROVE pending[i].left > 0
      OBVIOUS
    <3>1. pending \in Seq(Interrupt) /\ Sorted(pending)
      BY PendingList
    <3>2. /\ Len(pending) \in Nat /\ 1 \in 1 .. Len(pending) /\ Head(pending) = pending[1]
          /\ pending # <<>> /\ pending[1] \in Interrupt /\ pending[i] \in Interrupt
      BY <3>1
    <3>3. pending[1].left \in Int /\ pending[i].left \in Int
      BY <3>2, InterruptFields
    <3>4. pending[1].left > 0
      BY <2>1, <3>2, <3>3 DEF Due
    <3>5. i = 1 \/ pending[1].left <= pending[i].left
      BY <3>1, <3>2 DEF Sorted
    <3> QED
      BY <3>3, <3>4, <3>5
  <2>3. TypeOK'
    BY <1>1, <2>1 DEF ThreadsIInv, TypeOK
  <2>4. Places' /\ Routines' /\ Carcass'
    BY <1>1, <2>1, SameThreads, NoCarcass
  <2>5. Processor'
    BY <1>1, <2>1 DEF Processor
  <2>6. Timely'
    BY <1>1, <2>2 DEF ThreadsIInv, Timely, Sorted
  <2>7. Programs'
    BY <1>1, <2>1 DEF ThreadsIInv, Programs
  <2> QED
    BY <2>3, <2>4, <2>5, <2>6, <2>7 DEF ThreadsIInv
<1>2. CASE yieldOnReturn' = FALSE /\ mode' = "System" /\ YieldBody
  BY <1>2, YieldBodyIInv DEF TickDone, ThreadsIInv, TypeOK
<1> QED
  BY <1>1, <1>2 DEF TickDone

\* Run after SWITCH: the carcass is gone, and the registers are back.
LEMMA ResumeIInv == ASSUME ThreadsIInv, Resume PROVE ThreadsIInv'
<1>1. /\ current \in Thread /\ status[current] = "RUNNING" /\ cpu = "resume"
      /\ doing[current] \in Sem \cup {"begin", "yield"}
      /\ UNCHANGED <<current, readyList, mode, back, yieldOnReturn, timerDisabled, value, queue,
                     executed>>
  BY DEF Resume, ThreadsIInv, TypeOK, Processor, sems
<1>2. /\ toBeDestroyed' = NoThread
      /\ \A t \in Thread :
           /\ status'[t] = IF t = toBeDestroyed THEN "NONE" ELSE status[t]
           /\ userRegisters'[t] = IF t = toBeDestroyed THEN <<NoThread, 0>> ELSE userRegisters[t]
      /\ status' \in [Thread -> {"NONE", "RUNNING", "READY", "BLOCKED"}]
      /\ userRegisters' \in [Thread -> (Thread \cup {NoThread}) \X (0 .. 2)]
  <2>1. /\ status' = [t \in Thread |-> IF t = toBeDestroyed THEN "NONE" ELSE status[t]]
        /\ userRegisters' = [t \in Thread |->
             IF t = toBeDestroyed THEN <<NoThread, 0>> ELSE userRegisters[t]]
        /\ toBeDestroyed' = NoThread
    BY DEF Resume, CheckToBeDestroyed
  <2>2. /\ \A t \in Thread : userRegisters[t] \in (Thread \cup {NoThread}) \X (0 .. 2)
        /\ <<NoThread, 0>> \in (Thread \cup {NoThread}) \X (0 .. 2)
        /\ \A t \in Thread : status[t] \in {"NONE", "RUNNING", "READY", "BLOCKED"}
    BY DEF ThreadsIInv, TypeOK
  <2> QED
    BY <2>1, <2>2
<1>3. ASSUME toBeDestroyed \in Thread
      PROVE  /\ toBeDestroyed # current /\ status[toBeDestroyed] = "BLOCKED"
             /\ doing[toBeDestroyed] = "finish" /\ executed[toBeDestroyed] = 0
  <2>1. toBeDestroyed # NoThread
    BY <1>3, ThreadsConstants DEF ThreadsConstants
  <2> QED
    BY <2>1, <1>3 DEF ThreadsIInv, Carcass, Programs
<1>4. /\ doing' \in [Thread -> {"code", "begin", "yield", "finish"} \cup Sem]
      /\ pending' \in Seq(Interrupt) /\ Sorted(pending')
      /\ \A t \in Thread : t # current => doing'[t] = doing[t]
      /\ \/ doing[current] \in Sem /\ doing'[current] = doing[current] /\ cpu' = "P"
         \/ doing[current] \notin Sem /\ doing'[current] = "code" /\ cpu' = "tick"
  <2>1. CASE doing[current] \in Sem /\ cpu' = "P" /\ UNCHANGED <<doing, pending>>
    BY <2>1, PendingList DEF ThreadsIInv, TypeOK
  <2>2. CASE /\ doing[current] \in {"begin", "yield"}
             /\ doing' = [doing EXCEPT ![current] = "code"] /\ OneTick(SystemTick)
    <3>1. cpu' = "tick" /\ pending' \in Seq(Interrupt) /\ Sorted(pending')
      BY <2>2, TickList, ThreadsConstants DEF ThreadsConstants
    <3>2. doing[current] \notin Sem
      BY <2>2, ThreadsConstants DEF ThreadsConstants
    <3> QED
      BY <1>1, <2>2, <3>1, <3>2 DEF ThreadsIInv, TypeOK
  <2> QED
    BY <2>1, <2>2 DEF Resume, Begin
<1>5. /\ registers' \in (Thread \cup {NoThread}) \X (0 .. 2)
      /\ pageTable' \in Thread \cup {NoThread}
      /\ current \in UserThread /\ doing[current] # "begin" =>
           registers' = userRegisters[current] /\ pageTable' = current
  <2>1. CASE current \in UserThread /\ doing[current] # "begin"
    <3>1. registers' = userRegisters[current] /\ pageTable' = current
      BY <2>1 DEF Resume, RestoreUserState
    <3> QED
      BY <1>1, <3>1 DEF ThreadsIInv, TypeOK
  <2>2. CASE ~(current \in UserThread /\ doing[current] # "begin")
    <3>1. UNCHANGED <<registers, pageTable>>
      BY <2>2 DEF Resume
    <3> QED
      BY <2>2, <3>1 DEF ThreadsIInv, TypeOK
  <2> QED
    BY <2>1, <2>2
<1>6. TypeOK'
  BY <1>1, <1>2, <1>4, <1>5 DEF ThreadsIInv, TypeOK, Interrupt
<1>7. Places'
  <2>1. \A q \in Sem : Asleep(q)' = Asleep(q)
    <3> SUFFICES ASSUME NEW q \in Sem, NEW t \in Thread
                 PROVE  (status'[t] = "BLOCKED" /\ doing'[t] = q)
                          <=> (status[t] = "BLOCKED" /\ doing[t] = q)
      BY DEF Asleep
    <3>1. CASE t = toBeDestroyed
      BY <3>1, <1>2, <1>3, ThreadsConstants DEF ThreadsConstants
    <3>2. CASE t # toBeDestroyed /\ t = current
      BY <3>2, <1>1, <1>2
    <3>3. CASE t # toBeDestroyed /\ t # current
      BY <3>3, <1>2, <1>4
    <3> QED
      BY <3>1, <3>2, <3>3
  <2>2. {t \in Thread : status[t] = "READY"}' = {t \in Thread : status[t] = "READY"}
    BY <1>2, <1>3
  <2> QED
    BY <1>1, <2>1, <2>2 DEF ThreadsIInv, Places, Distinct
<1>8. Routines'
  <2> SUFFICES ASSUME NEW t \in Thread
               PROVE  /\ status'[t] = "NONE" => doing'[t] \in {"code", "finish"}
                      /\ status'[t] = "READY" => doing'[t] \in Sem \cup {"begin", "yield"}
                      /\ status'[t] = "BLOCKED" => doing'[t] \in Sem \cup {"finish"}
                      /\ status'[t] = "RUNNING" => t = current'
    BY DEF Routines
  <2>1. CASE t = toBeDestroyed
    BY <2>1, <1>2, <1>3, <1>4
  <2>2. CASE t = current
    BY <2>2, <1>1, <1>2, <1>3
  <2>3. CASE t # toBeDestroyed /\ t # current
    BY <2>3, <1>1, <1>2, <1>4 DEF ThreadsIInv, Routines
  <2> QED
    BY <2>1, <2>2, <2>3
<1>9. Processor' /\ Carcass' /\ Timely'
  BY <1>1, <1>2, <1>3, <1>4 DEF Processor, Carcass, Timely
<1>10. Programs'
  <2>1. ASSUME NEW t \in Thread, executed'[t] # 0
        PROVE  /\ t \in UserThread /\ status'[t] # "NONE" /\ doing'[t] \notin {"begin", "finish"}
               /\ t # current' \/ cpu' = "resume" => userRegisters'[t] = <<t, executed'[t]>>
               /\ t = current' /\ cpu' # "resume" =>
                    registers' = <<current', executed'[current']>> /\ pageTable' = current'
    <3>1. t # toBeDestroyed /\ executed[t] # 0
      BY <2>1, <1>1, <1>3
    <3>2. /\ t \in UserThread /\ status[t] # "NONE" /\ doing[t] \notin {"begin", "finish"}
          /\ userRegisters[t] = <<t, executed[t]>>
      BY <3>1, <1>1 DEF ThreadsIInv, Programs
    <3>3. CASE t = current
      BY <3>1, <3>2, <3>3, <1>1, <1>2, <1>4, <1>5
    <3>4. CASE t # current
      BY <3>1, <3>2, <3>4, <1>1, <1>2, <1>4
    <3> QED
      BY <3>3, <3>4
  <2>2. ASSUME NEW t \in Thread, back'[t] = "User", doing'[t] # "finish" PROVE executed'[t] # 0
    <3>1. doing[t] # "finish"
      BY <2>2, <1>1, <1>4, ThreadsConstants DEF ThreadsConstants
    <3> QED
      BY <2>2, <3>1, <1>1 DEF ThreadsIInv, Programs
  <2>3. mode' # "User"
    BY <1>1 DEF ThreadsIInv, Programs
  <2> QED
    BY <2>1, <2>2, <2>3 DEF Programs
<1> QED
  BY <1>6, <1>7, <1>8, <1>9, <1>10 DEF ThreadsIInv

-----------------------------------------------------------------------------
(* The theorems *)

LEMMA NextIInv == ASSUME ThreadsIInv, [Next]_vars PROVE ThreadsIInv'
<1>1. CASE UNCHANGED vars
  <2>1. UNCHANGED <<current, readyList, toBeDestroyed, status, cpu, doing, mode, back, pending,
                    yieldOnReturn, timerDisabled, value, queue, registers, pageTable,
                    userRegisters, executed>>
    BY <1>1 DEF vars, sched, clock, sems, user
  <2>2. TypeOK' /\ Carcass' /\ Processor' /\ Timely'
    BY <2>1 DEF ThreadsIInv, TypeOK, Carcass, Processor, Timely, Sorted
  <2>3. Programs'
    BY <2>1 DEF ThreadsIInv, Programs
  <2> QED
    BY <2>1, <2>2, <2>3, SameThreads DEF ThreadsIInv
<1> QED
  BY <1>1, ResumeIInv, CheckIfDueIInv, TickDoneIInv, IdleIInv, IdleDoneIInv, DispatchIInv, PIInv,
     PCallIInv, VIInv, RequestIInv, ForkIInv, YieldIInv, FinishIInv, ExecuteIInv,
     InstructionIInv, TrapIInv, ReturnIInv DEF Next

\* What holds the threads, the processor and the user programs together.
THEOREM ThreadsInvariant == Spec => []ThreadsIInv
BY InitIInv, NextIInv, PTL DEF Spec

\* Whatever calls, switches and interrupts come in between, a user program runs
\* on its own registers and page table (Thread::SaveUserState, RestoreUserState).
THEOREM ProgramsOwnTheirState == Spec => []ProgramStateOwn
<1>1. ThreadsIInv => ProgramStateOwn
  BY DEF ThreadsIInv, Programs, TypeOK, ProgramStateOwn
<1> QED
  BY <1>1, ThreadsInvariant, PTL

\* Threads are where their status says: on the ready list, on one semaphore's
\* queue, or running; and a finished thread is deleted by the next one to run.
THEOREM ThreadsInPlace == Spec => []ThreadsInv
<1>1. ThreadsIInv => ThreadsInv
  <2> SUFFICES ASSUME ThreadsIInv PROVE OnePlace /\ CarcassDisposed
    BY DEF ThreadsInv, ThreadsIInv
  <2>1. CarcassDisposed
    BY DEF ThreadsIInv, Carcass, CarcassDisposed
  <2>2. ASSUME NEW t \in Thread
        PROVE  Cardinality(Waits(t, readyList)) = IF status[t] = "READY" THEN 1 ELSE 0
    <3>1. /\ readyList \in Seq(Thread) /\ Distinct(readyList) /\ DOMAIN readyList = 1 .. Len(readyList)
          /\ t \in Range(readyList) <=> status[t] = "READY"
      BY DEF ThreadsIInv, TypeOK, Places
    <3>2. t \in Range(readyList) <=> \E i \in 1 .. Len(readyList) : readyList[i] = t
      BY <3>1, ElementsOf
    <3>3. CASE status[t] = "READY"
      <4>1. PICK i \in 1 .. Len(readyList) : readyList[i] = t
        BY <3>1, <3>2, <3>3
      <4>2. Waits(t, readyList) = {i}
        BY <3>1, <4>1 DEF Waits, Distinct
      <4> QED
        BY <3>3, <4>2, FS_Singleton
    <3>4. CASE status[t] # "READY"
      <4>1. Waits(t, readyList) = {}
        BY <3>1, <3>2, <3>4 DEF Waits
      <4> QED
        BY <3>4, <4>1, FS_EmptySet
    <3> QED
      BY <3>3, <3>4
  <2>3. ASSUME NEW t \in Thread
        PROVE  LET onQueues == UNION {{s} \X Waits(t, queue[s]) : s \in Sem}
               IN  /\ Cardinality(onQueues) =
                        IF status[t] = "BLOCKED" /\ doing[t] # "finish" THEN 1 ELSE 0
                   /\ \A x \in onQueues : doing[t] = x[1]
    <3> DEFINE onQueues == UNION {{s} \X Waits(t, queue[s]) : s \in Sem}
    <3>1. ASSUME NEW s \in Sem
          PROVE  /\ \A i \in Waits(t, queue[s]) : status[t] = "BLOCKED" /\ doing[t] = s
                 /\ status[t] = "BLOCKED" /\ doing[t] = s => \E i : Waits(t, queue[s]) = {i}
      <4>1. /\ queue[s] \in Seq(Thread) /\ Distinct(queue[s]) /\ DOMAIN queue[s] = 1 .. Len(queue[s])
            /\ t \in Range(queue[s]) <=> status[t] = "BLOCKED" /\ doing[t] = s
        BY DEF ThreadsIInv, TypeOK, Places, Asleep
      <4>2. t \in Range(queue[s]) <=> \E i \in 1 .. Len(queue[s]) : queue[s][i] = t
        BY <4>1, ElementsOf, SMTT(30)
      <4>3. ASSUME NEW i \in Waits(t, queue[s]) PROVE status[t] = "BLOCKED" /\ doing[t] = s
        BY <4>1, <4>2 DEF Waits
      <4>4. ASSUME status[t] = "BLOCKED", doing[t] = s PROVE \E i : Waits(t, queue[s]) = {i}
        <5>1. PICK i \in 1 .. Len(queue[s]) : queue[s][i] = t
          BY <4>1, <4>2, <4>4
        <5>2. \A j \in DOMAIN queue[s] : queue[s][j] = t <=> j = i
          BY <4>1, <5>1 DEF Distinct
        <5>3. Waits(t, queue[s]) = {i}
          BY <4>1, <5>2 DEF Waits
        <5> QED
          BY <5>3
      <4> QED
        BY <4>3, <4>4
    <3>2. \A x \in onQueues : \E s \in Sem : x \in {s} \X Waits(t, queue[s])
      OBVIOUS
    <3>3. ASSUME NEW x \in onQueues PROVE doing[t] = x[1] /\ status[t] = "BLOCKED"
      BY <3>1, <3>2
    <3>4. CASE status[t] = "BLOCKED" /\ doing[t] # "finish"
      <4>1. doing[t] \in Sem
        BY <3>4 DEF ThreadsIInv, Routines
      <4>2. PICK i : Waits(t, queue[doing[t]]) = {i}
        BY <3>1, <3>4, <4>1
      <4>3. <<doing[t], i>> \in onQueues
        BY <4>1, <4>2
      <4>4. ASSUME NEW x \in onQueues PROVE x = <<doing[t], i>>
        <5>1. PICK s \in Sem : x \in {s} \X Waits(t, queue[s])
          BY <3>2
        <5>2. s = doing[t]
          BY <3>1, <5>1
        <5> QED
          BY <4>2, <5>1, <5>2
      <4>5. onQueues = {<<doing[t], i>>}
        BY <4>3, <4>4
      <4> HIDE DEF onQueues
      <4>6. Cardinality(onQueues) = 1
        BY <4>5, FS_Singleton
      <4> QED
        BY <3>3, <3>4, <4>6 DEF onQueues
    <3>5. CASE ~(status[t] = "BLOCKED" /\ doing[t] # "finish")
      <4>1. onQueues = {}
        <5> SUFFICES ASSUME NEW x \in onQueues PROVE FALSE
          OBVIOUS
        <5>1. PICK s \in Sem : x \in {s} \X Waits(t, queue[s])
          BY <3>2
        <5> QED
          BY <3>1, <3>5, <5>1, ThreadsConstants DEF ThreadsConstants
      <4> HIDE DEF onQueues
      <4>2. Cardinality(onQueues) = 0
        BY <4>1, FS_EmptySet
      <4> QED
        BY <3>3, <3>5, <4>2 DEF onQueues
    <3> QED
      BY <3>4, <3>5
  <2>4. \A t \in Thread : status[t] = "RUNNING" => t = current
    BY DEF ThreadsIInv, Routines
  <2> QED
    BY <2>1, <2>2, <2>3, <2>4 DEF OnePlace
<1> QED
  BY <1>1, ThreadsInvariant, PTL

LEMMA HaltedStep == ASSUME ThreadsIInv, Halted, [Next]_vars PROVE Halted'
<1> SUFFICES ASSUME cpu' = "halt" PROVE pending' = <<>> /\ readyList' = <<>>
  BY DEF Halted
<1>1. CASE UNCHANGED vars
  BY <1>1 DEF Halted, vars, sched, clock
<1>2. CASE Idle
  BY <1>2, NoneReadyIsEmpty DEF Idle, sched
<1>3. CASE Resume \/ CheckIfDue \/ IdleDone \/ Dispatch \/ P
  BY <1>3 DEF Resume, Begin, OneTick, CheckIfDue, IdleDone, Dispatch, Run, P
<1>4. CASE TickDone \/ Yield
  BY <1>4 DEF TickDone, Yield, YieldBody, OneTick, Run
<1>5. CASE \E s \in Sem : PCall(s) \/ V(s)
  BY <1>5 DEF PCall, V, OneTick
<1>6. CASE (\E d \in Device : Request(d)) \/ (\E u \in Thread : Fork(u))
  BY <1>6 DEF Request, InKernel, Fork, OneTick
<1>7. CASE Finish \/ Execute \/ Instruction \/ Trap \/ Return
  BY <1>7 DEF Finish, Execute, InKernel, Instruction, Trap, Return, OneTick
<1> QED
  BY <1>1, <1>2, <1>3, <1>4, <1>5, <1>6, <1>7 DEF Next

\* Interrupts are handled in their order and on time, and the machine halts only
\* when no thread is ready and no interrupt is pending.
THEOREM InterruptsAreTimely == Spec => []InterruptsInv
<1>1. Init => Halted
  BY DEF Init, NewInterrupt, Halted
<1>2. ThreadsIInv /\ Halted => InterruptsInv
  <2> SUFFICES ASSUME ThreadsIInv, Halted PROVE InterruptsTimely /\ HaltsOnlyWhenDone
    BY DEF InterruptsInv
  <2>1. InterruptsTimely
    <3>1. DOMAIN pending = 1 .. Len(pending)
      BY PendingList
    <3> QED
      BY <3>1 DEF ThreadsIInv, Timely, Sorted, InterruptsTimely
  <2>2. ASSUME cpu = "halt", NEW t \in Thread PROVE status[t] \in {"NONE", "BLOCKED"}
    <3>1. readyList \in Seq(Thread) /\ readyList = <<>>
      BY <2>2 DEF Halted, ThreadsIInv, TypeOK
    <3>2. Range(readyList) = {}
      BY <3>1, ElementsOf
    <3>3. status[t] # "READY"
      BY <3>2 DEF ThreadsIInv, Places
    <3>4. status[t] # "RUNNING"
      BY <2>2 DEF ThreadsIInv, Routines, Processor
    <3> QED
      BY <3>3, <3>4 DEF ThreadsIInv, TypeOK
  <2> QED
    BY <2>1, <2>2 DEF Halted, HaltsOnlyWhenDone
<1> QED
  BY <1>1, <1>2, ThreadsInvariant, HaltedStep, PTL DEF Spec

-----------------------------------------------------------------------------
(* Semaphores *)

\* A step that neither P() nor V() takes part in.
Elsewhere ==
  /\ UNCHANGED <<value, queue>>
  /\ \A t \in Thread :
       /\ doing'[t] = doing[t] \/ (doing[t] \notin Sem /\ doing'[t] \notin Sem)
       /\ doing[t] \in Sem /\ status[t] \in {"READY", "RUNNING"} =>
            status'[t] \in {"READY", "RUNNING"}

\* What a step of the kernel is to the semaphores.
LEMMA SemaphoreStep ==
  ASSUME ThreadsIInv, [Next]_vars
  PROVE  \/ Elsewhere
         \/ \E s \in Sem : PCall(s)
         \/ P
         \/ \E s \in Sem : VBody(s) /\ UNCHANGED <<current, doing>>
<1>0. /\ current \in Thread /\ \A t \in Thread : status[t] = "RUNNING" => t = current
      /\ \A s \in Sem : s \notin {"code", "begin", "yield", "finish"}
      /\ status \in [Thread -> {"NONE", "RUNNING", "READY", "BLOCKED"}]
      /\ doing \in [Thread -> {"code", "begin", "yield", "finish"} \cup Sem]
  BY ThreadsConstants DEF ThreadsIInv, TypeOK, Routines, ThreadsConstants
<1>1. CASE UNCHANGED <<status, doing, value, queue>>
  BY <1>1 DEF Elsewhere
<1>2. CASE UNCHANGED vars \/ Idle \/ IdleDone \/ Execute \/ Instruction \/ Trap \/ Return
  BY <1>1, <1>2 DEF vars, Idle, IdleDone, Execute, Instruction, Trap, Return, sems
<1>3. CASE Resume
  <2>1. /\ status' = [t \in Thread |-> IF t = toBeDestroyed THEN "NONE" ELSE status[t]]
        /\ UNCHANGED <<value, queue>>
    BY <1>3 DEF Resume, CheckToBeDestroyed, sems
  <2>2. \/ UNCHANGED doing
        \/ doing[current] \in {"begin", "yield"} /\ doing' = [doing EXCEPT ![current] = "code"]
    BY <1>3 DEF Resume, Begin
  <2>3. \A t \in Thread : t = toBeDestroyed => doing[t] = "finish"
    BY ThreadsConstants DEF ThreadsConstants, ThreadsIInv, Carcass
  <2>4. ASSUME NEW t \in Thread, doing[t] \in Sem PROVE status'[t] = status[t]
    BY <1>0, <2>1, <2>3, <2>4
  <2>5. ASSUME NEW t \in Thread
        PROVE  doing'[t] = doing[t] \/ (doing[t] \notin Sem /\ doing'[t] \notin Sem)
    BY <1>0, <2>2
  <2> QED
    BY <2>1, <2>4, <2>5 DEF Elsewhere
<1>4. CASE CheckIfDue
  <2>1. CASE TimerCallBack
    BY <1>1, <1>4, <2>1 DEF CheckIfDue, TimerCallBack, sems
  <2>2. CASE DeviceCallBack
    BY <1>4, <2>2, ThreadsConstants DEF CheckIfDue, DeviceCallBack, ThreadsConstants
  <2> QED
    BY <1>4, <2>1, <2>2 DEF CheckIfDue
<1>5. CASE Dispatch
  <2>1. /\ UNCHANGED <<value, queue, doing>>
        /\ status' = [status EXCEPT ![FindNextToRun] = "RUNNING"]
    BY <1>5 DEF Dispatch, Run, sems
  <2> QED
    BY <1>0, <2>1 DEF Elsewhere
<1>6. ASSUME YieldBody, cpu \in {"run", "tick"}, UNCHANGED sems PROVE Elsewhere
  <2>1. CASE UNCHANGED <<status, doing>>
    BY <1>6, <2>1 DEF Elsewhere, sems
  <2>2. CASE /\ doing' = [doing EXCEPT ![current] = "yield"]
             /\ status' = [[status EXCEPT ![current] = "READY"] EXCEPT ![FindNextToRun] = "RUNNING"]
    <3>1. doing[current] = "code"
      BY <1>6 DEF ThreadsIInv, Processor
    <3> QED
      BY <1>0, <1>6, <2>2, <3>1 DEF Elsewhere, sems
  <2> QED
    BY <1>6, <2>1, <2>2 DEF YieldBody, Run
<1>7. CASE TickDone
  BY <1>1, <1>6, <1>7 DEF TickDone, sems
<1>8. CASE Yield
  BY <1>6, <1>8 DEF Yield, InKernel
<1>9. CASE Finish
  <2>1. /\ UNCHANGED <<value, queue>> /\ doing[current] = "code"
        /\ doing' = [doing EXCEPT ![current] = "finish"]
        /\ status' = [status EXCEPT ![current] = "BLOCKED"]
    BY <1>9 DEF Finish, InKernel, sems, ThreadsIInv, Processor
  <2> QED
    BY <1>0, <2>1 DEF Elsewhere
<1>10. ASSUME NEW u \in Thread, Fork(u) PROVE Elsewhere
  <2>1. /\ UNCHANGED <<value, queue>> /\ doing[u] \in {"code", "finish"}
        /\ doing' = [doing EXCEPT ![u] = "begin"]
        /\ status' = [status EXCEPT ![u] = "READY"]
    BY <1>10 DEF Fork, ReadyToRun, StackAllocate, sems, ThreadsIInv, Routines
  <2> QED
    BY <1>0, <2>1 DEF Elsewhere
<1>11. ASSUME NEW d \in Device, Request(d) PROVE Elsewhere
  BY <1>11 DEF Request, sems, Elsewhere
<1>12. ASSUME NEW s \in Sem, V(s) PROVE VBody(s) /\ UNCHANGED <<current, doing>>
  BY <1>12 DEF V
<1> QED
  BY <1>2, <1>3, <1>4, <1>5, <1>7, <1>8, <1>9, <1>10, <1>11, <1>12 DEF Next

\* The threads that are in P() of s and not asleep: they will test its value.
Awake(s) == {t \in Thread : status[t] \in {"READY", "RUNNING"} /\ doing[t] = s}

LEMMA WokenIsAwake == ASSUME ThreadsIInv, NEW s \in Sem PROVE Woken(s) = Awake(s)
<1>1. /\ status \in [Thread -> {"NONE", "RUNNING", "READY", "BLOCKED"}]
      /\ queue[s] \in Seq(Thread)
  BY DEF ThreadsIInv, TypeOK
<1>2. ASSUME NEW t \in Thread PROVE Waits(t, queue[s]) = {} <=> t \notin Range(queue[s])
  BY DEF Waits, Range
<1>3. \A t \in Thread : t \in Range(queue[s]) <=> status[t] = "BLOCKED" /\ doing[t] = s
  BY DEF ThreadsIInv, Places, Asleep
<1> QED
  BY <1>1, <1>2, <1>3 DEF Woken, Awake, Live

LEMMA AwakeFinite ==
  ASSUME NEW s
  PROVE  /\ IsFiniteSet(Awake(s)) /\ Cardinality(Awake(s)) \in Nat
         /\ IsFiniteSet(Awake(s)') /\ Cardinality(Awake(s)') \in Nat
  BY ThreadsConstants, FS_Subset, FS_CardinalityType DEF ThreadsConstants, Awake

\* NoLostWakeup, in terms of the states of threads.
Tested == \A s \in Sem : queue[s] # <<>> => Cardinality(Awake(s)) >= value[s]

LEMMA AwakeGrows ==
  ASSUME NEW s, Awake(s) \subseteq Awake(s)'
  PROVE  Cardinality(Awake(s)) <= Cardinality(Awake(s)')
  BY AwakeFinite, FS_Subset

LEMMA TestedStep == ASSUME ThreadsIInv, Tested, [Next]_vars PROVE Tested'
<1>0. /\ current \in Thread
      /\ status \in [Thread -> {"NONE", "RUNNING", "READY", "BLOCKED"}]
      /\ doing \in [Thread -> {"code", "begin", "yield", "finish"} \cup Sem]
      /\ value \in [Sem -> Nat] /\ queue \in [Sem -> Seq(Thread)]
      /\ \A s \in Sem : s \notin {"code", "begin", "yield", "finish"}
  BY ThreadsConstants DEF ThreadsIInv, TypeOK, ThreadsConstants
<1>1. ASSUME NEW s \in Sem, Awake(s) \subseteq Awake(s)', value'[s] = value[s],
             queue[s] # <<>>
      PROVE  Cardinality(Awake(s)') >= value'[s]
  <2>1. Cardinality(Awake(s)) >= value[s]
    BY <1>1 DEF Tested
  <2> QED
    BY <1>0, <1>1, <2>1, AwakeGrows, AwakeFinite
<1>2. CASE Elsewhere
  BY <1>0, <1>1, <1>2 DEF Elsewhere, Awake, Tested
<1>3. CASE \E s \in Sem : PCall(s)
  <2>1. /\ UNCHANGED <<value, queue, status>> /\ doing[current] = "code"
        /\ \E s \in Sem : doing' = [doing EXCEPT ![current] = s]
    BY <1>3 DEF PCall, InKernel, sems, ThreadsIInv, Processor
  <2> QED
    BY <1>0, <1>1, <2>1 DEF Awake, Tested
<1>4. CASE P
  <2> DEFINE s == doing[current]
  <2>0. s \in Sem /\ status[current] = "RUNNING"
    BY <1>4 DEF P, ThreadsIInv, Routines, Processor
  <2>1. CASE /\ value[s] = 0 /\ queue' = [queue EXCEPT ![s] = Append(@, current)]
             /\ status' = [status EXCEPT ![current] = "BLOCKED"]
             /\ UNCHANGED <<value, doing>>
    <3>1. ASSUME NEW z \in Sem, queue'[z] # <<>> PROVE Cardinality(Awake(z)') >= value'[z]
      <4>1. CASE z = s
        BY <1>0, <2>1, <4>1, AwakeFinite
      <4>2. CASE z # s
        <5>1. Awake(z) \subseteq Awake(z)'
          BY <1>0, <2>1, <4>2 DEF Awake
        <5> QED
          BY <1>0, <1>1, <2>1, <3>1, <4>2, <5>1
      <4> QED
        BY <4>1, <4>2
    <3> QED
      BY <3>1 DEF Tested
  <2>2. CASE /\ value[s] > 0 /\ value' = [value EXCEPT ![s] = @ - 1]
             /\ doing' = [doing EXCEPT ![current] = "code"]
             /\ UNCHANGED <<queue, status>>
    <3>1. ASSUME NEW z \in Sem, queue'[z] # <<>> PROVE Cardinality(Awake(z)') >= value'[z]
      <4>0. Cardinality(Awake(z)) >= value[z]
        BY <2>2, <3>1 DEF Tested
      <4>1. CASE z = s
        <5>1. current \in Awake(z) /\ Awake(z)' = Awake(z) \ {current}
          BY <1>0, <2>0, <2>2, <4>1 DEF Awake
        <5>2. Cardinality(Awake(z)') = Cardinality(Awake(z)) - 1
          BY <5>1, AwakeFinite, FS_RemoveElement
        <5>3. value'[z] = value[z] - 1
          BY <1>0, <2>2, <4>1
        <5> QED
          BY <1>0, <4>0, <5>2, <5>3, AwakeFinite
      <4>2. CASE z # s
        <5>1. Awake(z) \subseteq Awake(z)'
          BY <1>0, <2>2, <4>2 DEF Awake
        <5> QED
          BY <1>0, <1>1, <2>2, <3>1, <4>2, <5>1
      <4> QED
        BY <4>1, <4>2
    <3> QED
      BY <3>1 DEF Tested
  <2> QED
    BY <1>4, <2>1, <2>2 DEF P
<1>5. ASSUME NEW s \in Sem, VBody(s), UNCHANGED <<current, doing>> PROVE Tested'
  <2>0. value' = [value EXCEPT ![s] = value[s] + 1]
    BY <1>5 DEF VBody
  <2>1. CASE queue[s] = <<>>
    <3>1. queue' = [queue EXCEPT ![s] = <<>>] /\ status' = status
      <4>1. status' = [t \in Thread |-> IF t \in Range(<<>>) THEN "READY" ELSE status[t]]
        BY <1>5, <2>1 DEF VBody
      <4>2. Range(<<>>) = {}
        BY DEF Range
      <4> QED
        BY <1>0, <1>5, <2>1, <4>1, <4>2 DEF VBody
    <3>2. ASSUME NEW z \in Sem, queue'[z] # <<>>
          PROVE  z # s /\ queue[z] # <<>> /\ value'[z] = value[z] /\ Awake(z) \subseteq Awake(z)'
      BY <1>0, <1>5, <2>0, <3>1, <3>2 DEF Awake
    <3> QED
      BY <1>1, <3>2 DEF Tested
  <2>2. CASE queue[s] # <<>>
    <3> DEFINE h == Head(queue[s])
    <3>1. h \in Thread /\ h \in Range(queue[s])
      BY <1>0, <2>2, ElementsOf
    <3>2. status[h] = "BLOCKED" /\ doing[h] = s
      BY <3>1 DEF ThreadsIInv, Places, Asleep
    <3>3. queue' = [queue EXCEPT ![s] = Tail(queue[s])]
      BY <1>5, <2>2 DEF VBody
    <3>4. status' = [t \in Thread |-> IF t = h THEN "READY" ELSE status[t]]
      <4>1. status' = [t \in Thread |-> IF t \in Range(<<h>>) THEN "READY" ELSE status[t]]
        BY <1>5, <2>2 DEF VBody
      <4>2. Range(<<h>>) = {h}
        BY DEF Range
      <4> QED
        BY <4>1, <4>2
    <3> HIDE DEF h
    <3>5. ASSUME NEW z \in Sem, queue'[z] # <<>> PROVE Cardinality(Awake(z)') >= value'[z]
      <4>1. CASE z = s
        <5>1. h \notin Awake(z) /\ Awake(z)' = Awake(z) \cup {h}
          BY <1>0, <1>5, <3>1, <3>2, <3>4, <4>1 DEF Awake
        <5>2. Cardinality(Awake(z)') = Cardinality(Awake(z)) + 1
          BY <5>1, AwakeFinite, FS_AddElement
        <5>3. value'[z] = value[z] + 1
          BY <1>0, <2>0, <4>1
        <5>4. Cardinality(Awake(z)) >= value[z]
          BY <2>2, <4>1 DEF Tested
        <5> QED
          BY <1>0, <5>2, <5>3, <5>4, AwakeFinite
      <4>2. CASE z # s
        <5>1. Awake(z) \subseteq Awake(z)'
          BY <1>0, <1>5, <3>4 DEF Awake
        <5>2. value'[z] = value[z] /\ queue'[z] = queue[z]
          BY <1>0, <2>0, <3>3, <4>2
        <5> QED
          BY <1>1, <3>5, <5>1, <5>2
      <4> QED
        BY <4>1, <4>2
    <3> QED
      BY <3>5 DEF Tested
  <2> QED
    BY <2>1, <2>2
<1> QED
  BY <1>2, <1>3, <1>4, <1>5, SemaphoreStep

\* No wake-up is lost: while threads sleep on a semaphore, at least as many
\* woken threads are on their way to test it in Semaphore::P as V() has left units.
THEOREM NoWakeupIsLost == Spec => []NoLostWakeup
<1>1. Init => Tested
  BY DEF Init, NewSemaphores, Tested
<1>2. ThreadsIInv /\ Tested => NoLostWakeup
  BY WokenIsAwake DEF Tested, NoLostWakeup
<1> QED
  BY <1>1, <1>2, ThreadsInvariant, TestedStep, PTL DEF Spec

\* Semaphore::P and V, with their queues, sleeping threads, interrupts and time
\* slices, implement the atomic P and V that synch.h promises.
THEOREM SemaphoresAtomic == Spec => ImplementsSemaphore
<1> DEFINE wants == [t \in Thread |-> IF doing[t] \in Sem THEN doing[t] ELSE "code"]
<1>1. Init => Promise!Init
  <2> SUFFICES ASSUME Init PROVE Promise!Init
    OBVIOUS
  <2>1. \A t \in Thread : doing[t] \notin Sem
    BY ThreadsConstants DEF Init, ThreadsConstants
  <2> QED
    BY <2>1 DEF Init, NewSemaphores, Promise!Init
<1>2. ASSUME ThreadsIInv, [Next]_vars PROVE [Promise!Next]_<<value, wants>>
  <2>0. /\ current \in Thread
        /\ doing \in [Thread -> {"code", "begin", "yield", "finish"} \cup Sem]
        /\ value \in [Sem -> Nat]
        /\ \A s \in Sem : s \notin {"code", "begin", "yield", "finish"}
    BY <1>2, ThreadsConstants DEF ThreadsIInv, TypeOK, ThreadsConstants
  <2>1. CASE Elsewhere
    <3>1. \A t \in Thread : wants'[t] = wants[t]
      BY <2>1 DEF Elsewhere
    <3> QED
      BY <2>1, <3>1 DEF Elsewhere
  <2>2. ASSUME NEW s \in Sem, PCall(s) PROVE Promise!Next
    <3>1. UNCHANGED value /\ doing[current] = "code" /\ doing' = [doing EXCEPT ![current] = s]
      BY <1>2, <2>2 DEF PCall, InKernel, sems, ThreadsIInv, Processor
    <3>2. wants[current] = "code" /\ wants' = [wants EXCEPT ![current] = s]
      BY <2>0, <3>1
    <3>3. Promise!Wait(current, s)
      BY <3>1, <3>2 DEF Promise!Wait
    <3> QED
      BY <2>0, <3>2, <3>3 DEF Promise!Next
  <2>3. CASE P
    <3> DEFINE s == doing[current]
    <3>0. s \in Sem /\ wants[current] = s /\ s # "code"
      BY <1>2, <2>0, <2>3 DEF P, ThreadsIInv, Processor
    <3>1. CASE UNCHANGED <<value, doing>>
      BY <3>1
    <3>2. CASE /\ value[s] > 0 /\ value' = [value EXCEPT ![s] = @ - 1]
               /\ doing' = [doing EXCEPT ![current] = "code"]
      <4>1. wants' = [wants EXCEPT ![current] = "code"]
        BY <2>0, <3>2
      <4>2. \E t \in Thread : wants[t] # "code" /\ Promise!P(t, wants[t])
        BY <2>0, <3>0, <3>2, <4>1 DEF Promise!P
      <4>3. Promise!Next
        BY <4>2 DEF Promise!Next, Promise!P
      <4> QED
        BY <4>3
    <3> QED
      BY <2>3, <3>1, <3>2 DEF P
  <2>4. ASSUME NEW s \in Sem, VBody(s), UNCHANGED <<current, doing>> PROVE Promise!Next
    <3>1. Promise!V(s)
      BY <2>4 DEF VBody, Promise!V
    <3> QED
      BY <3>1 DEF Promise!Next
  <2> QED
    BY <1>2, <2>1, <2>2, <2>3, <2>4, SemaphoreStep
<1> QED
  BY <1>1, <1>2, ThreadsInvariant, PTL DEF Spec, ImplementsSemaphore, Promise!Spec
=============================================================================
