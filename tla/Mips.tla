-------------------------------- MODULE Mips --------------------------------
(***************************************************************************)
(* The instruction set simulator (src/machine/mipssim.cc): one action per  *)
(* group of cases of Machine::OneInstruction.  The words of a program are  *)
(* not kept in memory: a fetch may find any word of Raw, given as its      *)
(* fields, and Decode makes an instruction of it.  Exceptions other than a *)
(* system call end the kernel (ExceptionHandler).                          *)
(***************************************************************************)
EXTENDS Memory, FiniteSets

CONSTANTS
  Raw,           \* the instruction words: [op, funct, rs, rt, rd, shamt, imm, target]
  GPR,           \* the general registers they name
  RegionBits,    \* the bits of the PC that a jump keeps (4)
  Result,        \* what a system call, or a logic or shift instruction, may result in
  InitRegisters, \* the contents of the registers to start from
  InitMemory,
  MaxSteps       \* bound: how many instructions are executed

VARIABLES registers, trap, done, start
\* trap: the exception of the last instruction, or "none"; "assert" and "crash"
\* are a failed ASSERT and a trap of the host.  done: the instructions so far.
\* start: the registers and the memory at the start.
vars == <<memory, use, dirty, registers, trap, done, start>>

R31 == 31
HiReg == 32
LoReg == 33
PCReg == 34
NextPCReg == 35
PrevPCReg == 36
LoadReg == 37
LoadValueReg == 38
BadVAddrReg == 39
Reg == GPR \cup HiReg .. BadVAddrReg

-----------------------------------------------------------------------------
(* Instruction::Decode *)

Four(x) == <<x, x, x, x>>

opTable ==
  <<"SPECIAL", "BCOND", "J", "JAL", "BEQ", "BNE", "BLEZ", "BGTZ",
    "ADDI", "ADDIU", "SLTI", "SLTIU", "ANDI", "ORI", "XORI", "LUI">>
  \o Four("UNIMP") \o Four("RES") \o Four("RES") \o Four("RES")
  \o <<"LB", "LH", "LWL", "LW", "LBU", "LHU", "LWR", "RES",
       "SB", "SH", "SWL", "SW", "RES", "RES", "SWR", "RES">>
  \o Four("UNIMP") \o Four("RES") \o Four("UNIMP") \o Four("RES")

specialTable ==
  <<"SLL", "RES", "SRL", "SRA", "SLLV", "RES", "SRLV", "SRAV",
    "JR", "JALR", "RES", "RES", "SYSCALL", "UNIMP", "RES", "RES",
    "MFHI", "MTHI", "MFLO", "MTLO">> \o Four("RES")
  \o <<"MULT", "MULTU", "DIV", "DIVU">> \o Four("RES")
  \o <<"ADD", "ADDU", "SUB", "SUBU", "AND", "OR", "XOR", "NOR",
       "RES", "RES", "SLT", "SLTU">> \o Four("RES")
  \o Four("RES") \o Four("RES") \o Four("RES") \o Four("RES")

\* J and JAL have format JFMT, SPECIAL has RFMT, all others have IFMT.
Decode(w) ==
  LET op == opTable[w.op + 1]
  IN [op |-> CASE op = "SPECIAL" -> specialTable[w.funct + 1]
               [] op = "BCOND" -> (CASE w.rt = 0 -> "BLTZ" [] w.rt = 1 -> "BGEZ"
                                     [] w.rt = 16 -> "BLTZAL" [] w.rt = 17 -> "BGEZAL"
                                     [] OTHER -> "UNIMP")
               [] OTHER -> op,
      rs |-> w.rs, rt |-> w.rt, rd |-> w.rd,
      extra |-> CASE op = "SPECIAL" -> w.shamt
                  [] op \in {"J", "JAL"} -> w.target
                  [] OTHER -> SignExtend(w.imm, 2)]

-----------------------------------------------------------------------------
(* How an instruction ends *)

DelayedLoad(r, reg, value) ==
  [[r EXCEPT ![r[LoadReg]] = r[LoadValueReg]]
     EXCEPT ![LoadReg] = reg, ![LoadValueReg] = value, ![0] = 0]

\* The end of OneInstruction: r is the register file so far.
Complete(r, pcAfter, reg, value) ==
  /\ registers' = [DelayedLoad(r, reg, value) EXCEPT
       ![PrevPCReg] = r[PCReg], ![PCReg] = r[NextPCReg], ![NextPCReg] = pcAfter]
  /\ trap' = "none"

Following == Wrap(registers[NextPCReg] + 4)
KeepMemory == UNCHANGED <<memory, dirty>> /\ use' = use \cup {Page(registers[PCReg])}

\* The instruction wrote value to register reg and goes on.
Set(reg, value) ==
  Complete([registers EXCEPT ![reg] = value], Following, 0, 0) /\ KeepMemory
SetHiLo(hi, lo) ==
  Complete([registers EXCEPT ![HiReg] = hi, ![LoReg] = lo], Following, 0, 0) /\ KeepMemory

RaiseUnfinished(which, badVAddr) ==
  registers' = [registers EXCEPT ![BadVAddrReg] = badVAddr] /\ trap' = which

\* Machine::RaiseException, for all but system calls.
RaiseException(which, badVAddr) ==
  /\ registers' = DelayedLoad([registers EXCEPT ![BadVAddrReg] = badVAddr], 0, 0)
  /\ trap' = which

Raise(which, badVAddr) == RaiseException(which, badVAddr) /\ KeepMemory

-----------------------------------------------------------------------------
(* The cases of OneInstruction *)

A(i) == registers[i.rs]
B(i) == registers[i.rt]
Address(i) == Wrap(A(i) + i.extra)
Bool(b) == IF b THEN 1 ELSE 0
Sar(x, n) == Wrap(Signed(x) \div 2 ^ n)       \* >> of a signed int
Shl(x, n) == Wrap(x * 2 ^ n)

Add(i) ==
  /\ i.op \in {"ADD", "ADDI", "ADDIU", "ADDU"}
  /\ LET y == IF i.op \in {"ADD", "ADDU"} THEN B(i) ELSE i.extra
         sum == Wrap(A(i) + y)
     IN  IF i.op \in {"ADD", "ADDI"} /\ Negative(A(i)) = Negative(y) /\ Negative(y) # Negative(sum)
         THEN Raise("Overflow", 0)
         ELSE Set(IF i.op \in {"ADD", "ADDU"} THEN i.rd ELSE i.rt, sum)

\* BGEZAL and BLTZAL write the link first, and then test the register.
Branch(i) ==
  /\ i.op \in {"BEQ", "BNE", "BGEZ", "BGEZAL", "BLTZ", "BLTZAL", "BGTZ", "BLEZ"}
  /\ LET r == IF i.op \in {"BGEZAL", "BLTZAL"}
                THEN [registers EXCEPT ![R31] = Following] ELSE registers
         a == Signed(r[i.rs])
         taken == CASE i.op = "BEQ" -> r[i.rs] = r[i.rt]
                    [] i.op = "BNE" -> r[i.rs] # r[i.rt]
                    [] i.op \in {"BGEZ", "BGEZAL"} -> a >= 0
                    [] i.op \in {"BLTZ", "BLTZAL"} -> a < 0
                    [] i.op = "BGTZ" -> a > 0
                    [] i.op = "BLEZ" -> a <= 0
     IN  Complete(r, IF taken THEN Wrap(registers[NextPCReg] + Shl(i.extra, 2)) ELSE Following, 0, 0)
  /\ KeepMemory

Sign(n) == IF n < 0 THEN -1 ELSE 1
Abs(n) == Sign(n) * n

\* C divides towards zero; the lowest number by -1 makes the host trap.
Div(i) ==
  /\ i.op \in {"DIV", "DIVU"}
  /\ LET a == IF i.op = "DIV" THEN Signed(A(i)) ELSE A(i)
         b == IF i.op = "DIV" THEN Signed(B(i)) ELSE B(i)
         q == Sign(a) * Sign(b) * (Abs(a) \div Abs(b))
     IN  IF b = 0 THEN SetHiLo(0, 0)
         ELSE IF q = Bits(4) \div 2 /\ i.op = "DIV"
           THEN trap' = "crash" /\ UNCHANGED registers /\ KeepMemory
         ELSE SetHiLo(Wrap(a - q * b), Wrap(q))

\* JAL and JALR write the link first, which may be the register jumped to.
Jump(i) ==
  /\ i.op \in {"J", "JAL", "JR", "JALR"}
  /\ LET link == IF i.op = "JAL" THEN R31 ELSE i.rd
         r == IF i.op \in {"JAL", "JALR"} THEN [registers EXCEPT ![link] = Following] ELSE registers
         region == 2 ^ (WordBits - RegionBits)
     IN  Complete(r, IF i.op \in {"J", "JAL"}
                       THEN (Following - (Following % region)) + Shl(i.extra, 2)
                       ELSE r[i.rs], 0, 0)
  /\ KeepMemory

\* A load of size bytes from addr: value, made of what is read, goes to rt after
\* the next instruction.
Load(i, addr, size, value) ==
  LET exc == Translate(addr, size, FALSE) IN
  IF exc # "none" THEN Raise(exc, addr)
  ELSE /\ Complete(registers, Following, i.rt, value)
       /\ UNCHANGED <<memory, dirty>>
       /\ use' = use \cup {Page(registers[PCReg])} \cup UseBits(addr, size, FALSE)

LoadShort(i) ==
  /\ i.op \in {"LB", "LBU", "LH", "LHU"}
  /\ LET size == IF i.op \in {"LB", "LBU"} THEN 1 ELSE 2
         v == ReadMem(Address(i), size) % Bits(size)
     IN  Load(i, Address(i), size, IF i.op \in {"LB", "LH"} THEN SignExtend(v, size) ELSE v)

LoadUpper(i) == i.op = "LUI" /\ Set(i.rt, Shl(i.extra, 2 * ByteBits))

LoadWord(i) == i.op = "LW" /\ Load(i, Address(i), 4, ReadMem(Address(i), 4))

\* What LWL and LWR merge with: a load of rt on its way counts as done.
OldValue(i) == IF registers[LoadReg] = i.rt THEN registers[LoadValueReg] ELSE B(i)
OffsetInWord(i) == Address(i) % 4
Aligned(i) == Address(i) - OffsetInWord(i)
AlignedWord(i) == ReadMem(Aligned(i), 4)

LoadLeftStale(i) ==
  /\ i.op = "LWL"
  /\ LET n == 3 - OffsetInWord(i)
     IN  Load(i, Aligned(i), 4, (B(i) % Bits(n)) + Wrap(AlignedWord(i) * Bits(n)))

LoadLeft(i) ==
  /\ i.op = "LWL"
  /\ LET n == 3 - OffsetInWord(i)
     IN  Load(i, Aligned(i), 4, (OldValue(i) % Bits(n)) + Wrap(AlignedWord(i) * Bits(n)))

LoadRight(i) ==
  /\ i.op = "LWR"
  /\ LET n == OffsetInWord(i)
         kept == OldValue(i) - (OldValue(i) % Bits(4 - n))
     IN  Load(i, Aligned(i), 4, kept + (AlignedWord(i) \div Bits(n)))

MoveHiLo(i) ==
  \/ i.op = "MFHI" /\ Set(i.rd, registers[HiReg])
  \/ i.op = "MFLO" /\ Set(i.rd, registers[LoReg])
  \/ i.op = "MTHI" /\ SetHiLo(A(i), registers[LoReg])
  \/ i.op = "MTLO" /\ SetHiLo(registers[HiReg], A(i))

MultNoCarry(a, b, signedArith) == <<0, Wrap(a * b)>>

\* <<hi, lo>>: a's bits are checked one at a time, and a shifted b is added in.
Mult(a, b, signedArith) ==
  LET negative == signedArith /\ Negative(a) # Negative(b)
      Magnitude(x) == IF signedArith /\ Negative(x) THEN Wrap(-x) ELSE x
      Round(s) ==
        LET odd == s.a % 2 = 1
            lo == IF odd THEN Wrap(s.lo + s.bLo) ELSE s.lo
            hi == IF odd THEN Wrap(s.hi + Bool(lo < s.bLo) + s.bHi) ELSE s.hi
        IN  IF s.stop THEN s
            ELSE IF s.a = 1 THEN [s EXCEPT !.lo = lo, !.hi = hi, !.stop = TRUE]
            ELSE [a |-> Sar(s.a, 1), bLo |-> Shl(s.bLo, 1),
                  bHi |-> Shl(s.bHi, 1) + Bool(Negative(s.bLo)),
                  lo |-> lo, hi |-> hi, stop |-> FALSE]
      rounds[n \in 0 .. WordBits] ==
        IF n = 0 THEN [a |-> Magnitude(a), bLo |-> Magnitude(b), bHi |-> 0,
                       lo |-> 0, hi |-> 0, stop |-> FALSE]
        ELSE Round(rounds[n - 1])
      r == rounds[WordBits]
      lo == Wrap(-r.lo)
  IN  IF a = 0 \/ b = 0 THEN <<0, 0>>
      ELSE IF negative THEN <<Wrap((Bits(4) - 1 - r.hi) + Bool(lo = 0)), lo>>
      ELSE <<r.hi, r.lo>>

Multiply(i) ==
  /\ i.op \in {"MULT", "MULTU"}
  /\ LET m == Mult(A(i), B(i), i.op = "MULT") IN SetHiLo(m[1], m[2])

\* The logic and shift instructions, by the operands they decode: a word goes
\* to the destination.
Logic(i) ==
  /\ i.op \in {"AND", "ANDI", "NOR", "OR", "ORI", "XOR", "XORI",
               "SLL", "SLLV", "SRA", "SRAV", "SRL", "SRLV"}
  /\ \E w \in Result : Set(IF i.op \in {"ANDI", "ORI", "XORI"} THEN i.rt ELSE i.rd, w)

\* A store of size bytes of value to addr; reads are the pages read before it.
StoreAt(addr, size, value, reads) ==
  LET exc == Translate(addr, size, TRUE)
      used == use \cup {Page(registers[PCReg])} \cup reads
  IN  IF exc # "none"
      THEN RaiseException(exc, addr) /\ use' = used /\ UNCHANGED <<memory, dirty>>
      ELSE /\ Complete(registers, Following, 0, 0)
           /\ memory' = WriteMem(addr, size, value)
           /\ use' = used \cup UseBits(addr, size, TRUE)
           /\ dirty' = dirty \cup DirtyBits(addr, size, TRUE)

\* SB and SH, and SW further down.
Store(i) ==
  /\ i.op \in {"SB", "SH", "SW"}
  /\ StoreAt(Address(i), CASE i.op = "SB" -> 1 [] i.op = "SH" -> 2 [] i.op = "SW" -> 4, B(i), {})

Compare(i) ==
  \/ i.op = "SLT" /\ Set(i.rd, Bool(Signed(A(i)) < Signed(B(i))))
  \/ i.op = "SLTI" /\ Set(i.rt, Bool(Signed(A(i)) < Signed(i.extra)))
  \/ i.op = "SLTIU" /\ Set(i.rt, Bool(A(i) < i.extra))
  \/ i.op = "SLTU" /\ Set(i.rd, Bool(A(i) < B(i)))

Subtract(i) ==
  /\ i.op \in {"SUB", "SUBU"}
  /\ LET diff == Wrap(A(i) - B(i))
     IN  IF i.op = "SUB" /\ Negative(A(i)) # Negative(B(i)) /\ Negative(A(i)) # Negative(diff)
         THEN Raise("Overflow", 0) ELSE Set(i.rd, diff)

\* SWL and SWR write back the aligned word with some bytes of rt in it.
StorePart(i, merged) ==
  LET exc == Translate(Aligned(i), 4, FALSE) IN
  IF exc # "none" THEN Raise(exc, Aligned(i))
  ELSE StoreAt(Aligned(i), 4, merged, {Page(Aligned(i))})

StoreLeft(i) ==
  /\ i.op = "SWL"
  /\ LET n == OffsetInWord(i) + 1
         v == AlignedWord(i)
     IN  StorePart(i, (v - (v % Bits(n))) + B(i) \div Bits(4 - n))

StoreRight(i) ==
  /\ i.op = "SWR"
  /\ LET n == OffsetInWord(i)
     IN  StorePart(i, (AlignedWord(i) % Bits(n)) + Wrap(B(i) * Bits(n)))

\* SC_Read: n bytes of a file (one value stands for them) go to a buffer, whose
\* address, in a register that is not among GPR, is taken for a physical one.
ReadFile(n) ==
  \E buffer \in 0 .. MemorySize - n, byte \in 0 .. Bits(1) - 1 :
    memory' = [q \in DOMAIN memory |-> IF q \in buffer .. buffer + n - 1 THEN byte ELSE memory[q]]

\* ExceptionHandler: most calls put a result in register 2 and the PC behind the
\* call; Exit, Halt and MSG end the program; of a number that is no call's it
\* says so and fails ASSERTNOTREACHED.
SystemCall(i) ==
  /\ i.op = "SYSCALL" /\ UNCHANGED dirty /\ use' = use \cup {Page(registers[PCReg])}
  /\ LET r == DelayedLoad([registers EXCEPT ![BadVAddrReg] = 0], 0, 0)
         pc == Wrap(r[PCReg] + 4)
     IN \/ \E v \in Result :
             /\ registers' = [r EXCEPT ![2] = v, ![PrevPCReg] = r[PCReg],
                                       ![PCReg] = pc, ![NextPCReg] = Wrap(pc + 4)]
             /\ trap' = "none"
             /\ UNCHANGED memory \/ ReadFile(v)
        \/ registers' = r /\ trap' \in {"exit", "unexpected"} /\ UNCHANGED memory

\* The cases above.
Cases ==
  {"ADD", "ADDI", "ADDIU", "ADDU", "AND", "ANDI", "BEQ", "BNE", "BGEZ", "BGEZAL", "BLTZ",
   "BLTZAL", "BGTZ", "BLEZ", "DIV", "DIVU", "J", "JAL", "JR", "JALR", "LB", "LBU", "LH",
   "LHU", "LUI", "LW", "LWL", "LWR", "MFHI", "MFLO", "MTHI", "MTLO", "MULT", "MULTU", "NOR",
   "OR", "ORI", "SB", "SH", "SLL", "SLLV", "SLT", "SLTI", "SLTIU", "SLTU", "SRA", "SRAV",
   "SRL", "SRLV", "SUB", "SUBU", "SW", "SWL", "SWR", "SYSCALL", "XOR", "XORI"}

\* RES and UNIMP; anything else would be default: ASSERT(FALSE).
Illegal(i) ==
  /\ i.op \notin Cases
  /\ IF i.op \in {"RES", "UNIMP"} THEN Raise("IllegalInstr", 0)
     ELSE trap' = "assert" /\ UNCHANGED registers /\ KeepMemory

Execute(i) ==
  \/ Add(i) \/ Branch(i) \/ Div(i) \/ Jump(i) \/ LoadShort(i) \/ LoadUpper(i)
  \/ LoadWord(i) \/ LoadLeft(i) \/ LoadRight(i) \/ MoveHiLo(i) \/ Multiply(i) \/ Logic(i)
  \/ Store(i) \/ Compare(i) \/ Subtract(i) \/ StoreLeft(i) \/ StoreRight(i) \/ SystemCall(i)
  \/ Illegal(i)

OneInstruction(w) ==
  /\ trap = "none" /\ Len(done) < MaxSteps
  /\ UNCHANGED start /\ done' = Append(done, Decode(w))
  /\ LET exc == Translate(registers[PCReg], 4, FALSE)
     IN  IF exc # "none"
         THEN RaiseException(exc, registers[PCReg]) /\ UNCHANGED <<memory, use, dirty>>
         ELSE Execute(Decode(w))

\* CheckIfDue, before it calls the handler of an interrupt that comes between
\* two instructions: a load on its way is finished early.
Interrupted ==
  /\ trap = "none" /\ Len(done) < MaxSteps /\ registers[LoadReg] # 0
  /\ registers' = DelayedLoad(registers, 0, 0)
  /\ UNCHANGED <<memory, use, dirty, trap, done, start>>

Init ==
  /\ registers \in InitRegisters /\ memory \in InitMemory
  /\ use = {} /\ dirty = {} /\ trap = "none" /\ done = <<>>
  /\ start = <<registers, memory>>

Next == Interrupted \/ \E w \in Raw : OneInstruction(w)

Spec == Init /\ [][Next]_vars

-----------------------------------------------------------------------------
(* What is true of every state, and of every step *)

\* The type of the state; the register that a load is on its way to exists.
TypeOK ==
  /\ registers \in [Reg -> Word] /\ registers[LoadReg] \in GPR
  /\ memory \in [0 .. MemorySize - 1 -> 0 .. Bits(1) - 1]
  /\ use \subseteq 0 .. Len(PageTable) - 1 /\ dirty \subseteq use

\* Register 0 is zero between instructions, whatever was written to it and
\* however the last instruction ended.
ZeroRegister == registers[0] = 0

\* No word decodes to an operation that OneInstruction has no case for.
AllDecoded == trap # "assert"

Stepped == Len(done') > Len(done)
Last == done'[Len(done')]
NotLoading(r) == r # 0 /\ r # registers[LoadReg]

\* ADD, ADDI and SUB raise an overflow exactly if the sum of the signed numbers
\* is not a signed word, and else compute it.
SumExact ==
  Stepped /\ Last.op \in {"ADD", "ADDI", "SUB"} =>
    LET a == Signed(A(Last))
        exact == CASE Last.op = "ADD" -> a + Signed(B(Last))
                   [] Last.op = "ADDI" -> a + Signed(Last.extra)
                   [] Last.op = "SUB" -> a - Signed(B(Last))
        dest == IF Last.op = "ADDI" THEN Last.rt ELSE Last.rd
        fits == exact \in -(Bits(4) \div 2) .. Bits(4) \div 2 - 1
    IN  /\ trap' = IF fits THEN "none" ELSE "Overflow"
        /\ fits /\ NotLoading(dest) => Signed(registers'[dest]) = exact

\* MULT and MULTU: HI and LO together hold the product of double length.
ProductIsExact ==
  Stepped /\ Last.op \in {"MULT", "MULTU"} =>
    LET a == A(Last)
        b == B(Last)
        product == IF Last.op = "MULT" THEN Signed(a) * Signed(b) ELSE a * b
    IN  registers'[HiReg] * Bits(4) + registers'[LoReg] = product % (Bits(4) * Bits(4))

\* DIV: quotient and remainder belong together, and the remainder has the sign
\* of the dividend; the one quotient that is no signed word is left out.
DivisionIsExact ==
  Stepped /\ Last.op = "DIV" /\ B(Last) # 0 /\ trap' = "none" =>
    LET a == Signed(A(Last))
        b == Signed(B(Last))
        r == Signed(registers'[HiReg])
    IN  /\ a = Signed(registers'[LoReg]) * b + r
        /\ Abs(r) < Abs(b) /\ r * a >= 0

\* "This allows us to re-start the instruction execution from the beginning"
\* (mipssim.cc:103): an instruction that raises an exception has done nothing
\* but finish the load that was on its way.
IsRestartable ==
  Stepped /\ trap' \notin {"none", "exit", "crash"} =>
    /\ UNCHANGED <<memory, dirty>>
    /\ registers'[LoadReg] = 0
    /\ \A r \in GPR \cup {HiReg, LoReg, PCReg, NextPCReg, PrevPCReg} :
         registers'[r] = IF r = registers[LoadReg] /\ r # 0 THEN registers[LoadValueReg]
                         ELSE registers[r]

\* A store changes memory only in the frame of a page that may be written, and
\* the page is dirty afterwards.
IsProtected ==
  \A p \in DOMAIN memory : memory'[p] # memory[p] =>
    \E v \in dirty' : /\ PageTable[v + 1].valid /\ ~PageTable[v + 1].readOnly
                      /\ PageTable[v + 1].physicalPage = p \div PageSize

\* Instructions one and two were left and right, of the four bytes from x on.
Pair(left, right, x) ==
  /\ Len(done) = 2 /\ trap = "none"
  /\ {done[1].op, done[2].op} = {left, right}
  /\ done[1].rt = done[2].rt /\ done[1].rt \notin {0, done[1].rs} /\ done[1].rs = done[2].rs
  /\ \A k \in 1 .. 2 :
       x = Wrap(start[1][done[k].rs] + done[k].extra - (IF done[k].op = left THEN 3 ELSE 0))
FourBytes(x) == [k \in 0 .. 3 |-> Physical(Wrap(x + k))]

\* LWL and LWR, one after the other in either order and with or without an
\* interrupt between them, load the four bytes at an address that need not be
\* aligned.
UnalignedLoad ==
  \A x \in Word : Pair("LWL", "LWR", x) =>
    /\ registers[LoadReg] = done[1].rt
    /\ \A k \in 0 .. 3 :
         (registers[LoadValueReg] \div Bits(k)) % Bits(1) = start[2][FourBytes(x)[k]]

\* SWL and SWR together store the four bytes and change no other byte, unless a
\* load changes the register between them.
UnalignedStore ==
  \A x \in Word : Pair("SWL", "SWR", x) /\ start[1][LoadReg] # done[1].rt =>
    \A p \in DOMAIN memory :
      memory[p] = IF \E k \in 0 .. 3 : FourBytes(x)[k] = p
                  THEN LET k == CHOOSE n \in 0 .. 3 : FourBytes(x)[n] = p
                       IN  (start[1][done[1].rt] \div Bits(k)) % Bits(1)
                  ELSE start[2][p]
=============================================================================
