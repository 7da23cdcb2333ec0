------------------------------- MODULE Memory -------------------------------
(***************************************************************************)
(* Main memory and its translation: Machine::Translate, ReadMem and        *)
(* WriteMem (src/machine/translate.cc), with a page table and no TLB, the  *)
(* configuration that is built.  A byte has ByteBits bits and a word four  *)
(* bytes, so that the arithmetic of 32 bits can be checked on a small      *)
(* scale; a word is a number from 0 to 2^WordBits - 1.                     *)
(***************************************************************************)
EXTENDS Integers, Sequences

CONSTANTS
  ByteBits,
  PageSize, NumPhysPages,
  PageTable    \* the entries: [valid, readOnly, physicalPage]

VARIABLES
  memory,      \* Machine::mainMemory
  use, dirty   \* the pages whose use and dirty bits are set

MemoryConstants ==
  ByteBits \in Nat \ {0} /\ PageSize % 4 = 0 /\ NumPhysPages \in Nat \ {0}

WordBits == 4 * ByteBits
Bits(n) == 2 ^ (n * ByteBits)        \* what n bytes can hold
Word == 0 .. Bits(4) - 1
Wrap(n) == n % Bits(4)
Negative(x) == x >= Bits(4) \div 2
Signed(x) == IF Negative(x) THEN x - Bits(4) ELSE x
SignExtend(x, n) == IF x >= Bits(n) \div 2 THEN Wrap(x - Bits(n)) ELSE x

MemorySize == NumPhysPages * PageSize
Page(addr) == addr \div PageSize
Entry(addr) == PageTable[Page(addr) + 1]

\* The exception that an access raises, or "none".
Translate(addr, size, writing) ==
  IF addr % size # 0 THEN "AddressError"
  ELSE IF Page(addr) >= Len(PageTable) THEN "AddressError"
  ELSE IF ~Entry(addr).valid THEN "PageFault"
  ELSE IF Entry(addr).readOnly /\ writing THEN "ReadOnly"
  ELSE IF Entry(addr).physicalPage >= NumPhysPages THEN "BusError"
  ELSE "none"

\* The pages whose use and dirty bits the access sets.
UseBits(addr, size, writing) ==
  IF Translate(addr, size, writing) = "none" THEN {Page(addr)} ELSE {}
DirtyBits(addr, size, writing) == IF writing THEN UseBits(addr, size, writing) ELSE {}

Physical(addr) == Entry(addr).physicalPage * PageSize + (addr % PageSize)

\* What ReadMem stores in *value: a single byte is a signed char.
ReadMem(addr, size) ==
  LET p == Physical(addr) IN
  CASE size = 1 -> SignExtend(memory[p], 1)
    [] size = 2 -> memory[p] + memory[p + 1] * Bits(1)
    [] size = 4 -> memory[p] + memory[p + 1] * Bits(1) + memory[p + 2] * Bits(2)
                   + memory[p + 3] * Bits(3)

\* The memory after WriteMem.
WriteMem(addr, size, value) ==
  LET p == Physical(addr)
  IN  [q \in DOMAIN memory |-> IF q \in p .. p + size - 1
                                 THEN (value \div Bits(q - p)) % Bits(1) ELSE memory[q]]
=============================================================================
