------------------------------ MODULE MCParts -------------------------------
(***************************************************************************)
(* The parts of the system that do one thing at a time, each on its own:   *)
(* "part" says which.  The instruction simulator runs twice, once with     *)
(* words of four bits, where all operands can be tried, and once with      *)
(* words of eight bits, for loads and stores at all addresses.             *)
(***************************************************************************)
EXTENDS AddrSpaces, DiskHead

CONSTANTS None, Closed   \* the model values of LinkedList and HashTable

VARIABLES
  part,
  memory, use, dirty, registers, trap, done, start,
  heap, first, last, numInList, call,
  buckets, numBuckets, numItems, iter, seen,
  map, file, bitCall

mipsVars == <<memory, use, dirty, registers, trap, done, start>>
listVars == <<heap, first, last, numInList, call>>
hashVars == <<buckets, numBuckets, numItems, iter, seen>>
bitVars == <<map, file, bitCall>>
vars == <<part, mipsVars, spaceVars, listVars, hashVars, bitVars, headVars>>

-----------------------------------------------------------------------------
(* The instruction simulator *)

RawWord(op, funct, rs, rt, rd, shamt, imm, target) ==
  [op |-> op, funct |-> funct, rs |-> rs, rt |-> rt, rd |-> rd, shamt |-> shamt,
   imm |-> imm, target |-> target]

General == {0, 1, 2, 3, 31}

File(r1, r2, reg, value) ==
  [r \in General \cup 32 .. 39 |->
     CASE r = 1 -> r1 [] r = 2 -> r2 [] r = 35 -> 4 [] r = 37 -> reg [] r = 38 -> value
       [] OTHER -> 0]

Entry(valid, readOnly, frame) == [valid |-> valid, readOnly |-> readOnly, physicalPage |-> frame]

\* Every opcode, every function of SPECIAL and every condition of BCOND.
AllWords ==
  {RawWord(0, f, 1, 2, d, 1, 0, 0) : f \in 0 .. 63, d \in {0, 3}}
  \cup {RawWord(1, 0, 1, c, 0, 0, m, 0) : c \in 0 .. 31, m \in {1, 3}}
  \cup {RawWord(op, 0, 1, 2, 0, 0, m, 1) : op \in 2 .. 63, m \in {1, 2, 3}}
AllPairs ==
  {File(a, b, 0, 0) : a \in 0 .. 15, b \in 0 .. 15} \cup {File(a, 5, 3, 9) : a \in 0 .. 15}
Bits01 == {[p \in 0 .. 7 |-> (p \div 2) % 2]}
Identity == <<Entry(TRUE, FALSE, 0), Entry(TRUE, FALSE, 1)>>

Narrow == INSTANCE Mips WITH
  ByteBits <- 1, RegionBits <- 1, PageSize <- 4, NumPhysPages <- 2, PageTable <- Identity,
  Raw <- AllWords, GPR <- General, Result <- {0, 7}, InitRegisters <- AllPairs,
  InitMemory <- Bits01, MaxSteps <- 1

\* Loads and stores, at all addresses of a small memory.
MemoryWords == {RawWord(op, 0, 1, 2, 0, 0, m, 0) : op \in 32 .. 46, m \in {0, 3}}
Addresses ==
  {File(a, v, 0, 0) : a \in 0 .. 14, v \in {27, 177}} \cup {File(a, 27, 2, 114) : a \in 0 .. 14}
Patterns == {[p \in 0 .. 11 |-> p % 4], [p \in 0 .. 11 |-> (p \div 3 + 1) % 4]}
Protected == <<Entry(TRUE, FALSE, 0), Entry(TRUE, FALSE, 1), Entry(TRUE, TRUE, 2),
               Entry(FALSE, FALSE, 2)>>

Wide == INSTANCE Mips WITH
  ByteBits <- 2, RegionBits <- 4, PageSize <- 4, NumPhysPages <- 3, PageTable <- Protected,
  Raw <- MemoryWords, GPR <- General, Result <- {0}, InitRegisters <- Addresses,
  InitMemory <- Patterns, MaxSteps <- 2

MipsOff == memory = <<>> /\ use = {} /\ dirty = {} /\ registers = <<>> /\ trap = "none"
           /\ done = <<>> /\ start = <<>>

-----------------------------------------------------------------------------
(* Address spaces: the sizes fill pages exactly, leave one byte over, leave *)
(* segments out, and ask for more than there is.  A program may have no     *)
(* file, or one that is no executable.                                      *)

MCFiles ==
  [kind : {"noff"}, code : {1, 4}, ro : {0, 2}, data : {0, 3}, bss : {0, 2}]
  \cup [kind : {"none", "other"}, code : {0}, ro : {0}, data : {0}, bss : {0}]

\* One choice of files is enough where the programs do not run.
AnyFiles == noffH = [p \in Program |-> CHOOSE s \in Files : TRUE]

-----------------------------------------------------------------------------
(* List and SortedList: items a and b compare equal, so do c and d *)

MCRank == [i \in {"a", "b", "c", "d"} |-> IF i \in {"a", "b"} THEN 1 ELSE 2]
List == INSTANCE LinkedList WITH
  Item <- {"a", "b", "c", "d"}, Rank <- MCRank, Cell <- 1 .. 5, NULL <- 0

-----------------------------------------------------------------------------
(* HashTable: items 1 and 2 share a key, the keys collide modulo 1 and 2    *)
(* and come apart modulo 4, and the table grows twice, at the second and    *)
(* the fourth insertion.                                                    *)

Hash == INSTANCE HashTable WITH
  Item <- 1 .. 6, getKey <- <<1, 1, 2, 3, 4, 5>>, hash <- <<5, 2, 0, 1, 4>>,
  InitialBuckets <- 1, ResizeRatio <- 1, IncreaseSizeBy <- 2

\* A bitmap whose last word is not full.
Bits == INSTANCE Bitmap WITH numBits <- 5, BitsInWord <- 2, call <- bitCall

ASSUME
  /\ Narrow!MemoryConstants /\ Wide!MemoryConstants
  /\ List!ListConstants /\ Hash!HashConstants /\ Bits!BitmapConstants

-----------------------------------------------------------------------------

Init ==
  /\ part \in {"narrow", "wide", "space", "list", "sorted", "hash", "bitmap", "head"}
  /\ CASE part = "narrow" -> Narrow!Init [] part = "wide" -> Wide!Init [] OTHER -> MipsOff
  /\ part # "space" => AnyFiles
  /\ SpaceInit /\ List!Init /\ Hash!Init /\ Bits!Init /\ HeadInit

Next ==
  /\ UNCHANGED part
  /\ \/ /\ \/ part = "narrow" /\ Narrow!Next
           \/ part = "wide" /\ Wide!Next
        /\ UNCHANGED <<spaceVars, listVars, hashVars, bitVars, headVars>>
     \/ /\ part = "space" /\ SpaceNext
        /\ UNCHANGED <<mipsVars, listVars, hashVars, bitVars, headVars>>
     \/ /\ \/ part = "list" /\ List!PlainNext
           \/ part = "sorted" /\ List!SortedNext
        /\ UNCHANGED <<mipsVars, spaceVars, hashVars, bitVars, headVars>>
     \/ /\ part = "hash" /\ Hash!Next
        /\ UNCHANGED <<mipsVars, spaceVars, listVars, bitVars, headVars>>
     \/ /\ part = "bitmap" /\ Bits!Next
        /\ UNCHANGED <<mipsVars, spaceVars, listVars, hashVars, headVars>>
     \/ /\ part = "head" /\ HeadNext
        /\ UNCHANGED <<mipsVars, spaceVars, listVars, hashVars, bitVars>>

Spec == Init /\ [][Next]_vars

-----------------------------------------------------------------------------
(* The properties of the parts, where they run *)

\* The instruction simulator: words keep their width, register 0 is zero
\* between instructions, every word decodes to a case of OneInstruction, and
\* LWL with LWR, or SWL with SWR, move four bytes from and to any address,
\* interrupted or not.
MachineInv ==
  /\ part = "narrow" => Narrow!TypeOK /\ Narrow!ZeroRegister /\ Narrow!AllDecoded
  /\ part = "wide" =>
       Wide!TypeOK /\ Wide!ZeroRegister /\ Wide!UnalignedLoad /\ Wide!UnalignedStore

\* ADD, ADDI and SUB raise an overflow exactly if the result is no signed word,
\* MULT and MULTU leave the whole product in HI and LO, and quotient and
\* remainder of DIV belong together (mipssim.cc).
ArithmeticExact ==
  [][part = "narrow" =>
       Narrow!SumExact /\ Narrow!ProductIsExact /\ Narrow!DivisionIsExact]_vars

\* An instruction that raises an exception, be it for an address or for an
\* overflow, can be executed again from the start (mipssim.cc:103), and a store
\* changes memory only in a page that may be written (Machine::Translate).
FaultsContained ==
  [][/\ part = "wide" => Wide!IsRestartable /\ Wide!IsProtected
     /\ part = "narrow" => Narrow!IsRestartable]_vars

\* List<T>::SanityCheck and SortedList<T>::SanityCheck hold after any sequence
\* of calls, no pointer dangles, and a removal deletes the cell it unlinks.
ListInv ==
  /\ part \in {"list", "sorted"} => List!TypeOK /\ List!SanityCheck /\ List!NoLeak
  /\ part = "sorted" => List!Sorted

SeqOf(p) == IF part = p THEN List!Contents ELSE <<>>
CallOf(p) == IF part = p THEN call ELSE None
ListSeqs == INSTANCE ListSeq WITH
  Item <- {"a", "b", "c", "d"}, Rank <- MCRank, seq <- SeqOf("list"), call <- CallOf("list")
SortedSeqs == INSTANCE ListSeq WITH
  Item <- {"a", "b", "c", "d"}, Rank <- MCRank, seq <- SeqOf("sorted"), call <- CallOf("sorted")

\* The cells implement the sequence of list.h: Append and Prepend add at their
\* end, the removals take what they return and keep the order, and Insert of a
\* SortedList is stable: items that compare equal (interrupts due at the same
\* tick) leave in the order they came.
ImplementsList == ListSeqs!PlainSpec /\ SortedSeqs!SortedSpec

\* HashTable<Key,T>: SanityCheck holds after any sequence of calls, no two items
\* have one key, the table is never fuller than ResizeRatio allows, and an
\* iterator that reaches its end has shown every item once.
TableInv ==
  part = "hash" => /\ Hash!TypeOK /\ Hash!SanityCheck /\ Hash!KeysUnique
                   /\ Hash!LoadBounded /\ Hash!IteratesAll

\* Insert and Remove change the contents by one item, growth or no growth.
ChangesOne == Hash!ChangesOne

\* The packed words implement the set of bits that bitmap.h promises, and the
\* bits of the last word that stand for nothing stay clear.
ImplementsSet == Bits!ImplementsSet /\ [](part = "bitmap" => Bits!TypeOK)
=============================================================================
