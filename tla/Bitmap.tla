------------------------------- MODULE Bitmap -------------------------------
(***************************************************************************)
(* Bitmap (lib/bitmap.cc) and PersistentBitmap (filesys/pbitmap.cc): bits  *)
(* packed into an array of unsigned words, the words copied to and from a  *)
(* file that has room for all of them.                                     *)
(***************************************************************************)
EXTENDS Integers, FiniteSets

CONSTANTS numBits, BitsInWord

BitmapConstants == numBits \in Nat \ {0} /\ BitsInWord \in Nat \ {0}

VARIABLES map,   \* the words
          file,  \* the words in the bitmap's file
          call   \* the last call, with what it was given or returned

vars == <<map, file, call>>

Bit == 0 .. numBits - 1
numWords == (numBits + BitsInWord - 1) \div BitsInWord

Word(which) == which \div BitsInWord
Mask(which) == 2 ^ (which % BitsInWord)

Test(which) == (map[Word(which)] \div Mask(which)) % 2 = 1

\* map[...] |= 1 << ...
Set(which) == map' = [map EXCEPT ![Word(which)] = @ + IF Test(which) THEN 0 ELSE Mask(which)]

Mark(which) == Set(which) /\ call' = <<"Mark", which>> /\ UNCHANGED file

\* "^=" for "&= ~": a clear bit is set.
ClearFlips(which) ==
  /\ map' = [map EXCEPT ![Word(which)] = @ + IF Test(which) THEN -Mask(which) ELSE Mask(which)]
  /\ call' = <<"Clear", which>> /\ UNCHANGED file

\* map[...] &= ~(1 << ...)
Clear(which) ==
  /\ map' = [map EXCEPT ![Word(which)] = @ - IF Test(which) THEN Mask(which) ELSE 0]
  /\ call' = <<"Clear", which>> /\ UNCHANGED file

FindAndSet ==
  LET From[i \in 0 .. numBits] == IF i = numBits THEN -1 ELSE IF Test(i) THEN From[i + 1] ELSE i
  IN  /\ call' = <<"FindAndSet", From[0]>>
      /\ IF From[0] = -1 THEN UNCHANGED map ELSE Set(From[0])
      /\ UNCHANGED file

NumClear ==
  LET Count[i \in 0 .. numBits] ==
        IF i = 0 THEN 0 ELSE Count[i - 1] + IF Test(i - 1) THEN 0 ELSE 1
  IN  call' = <<"NumClear", Count[numBits]>> /\ UNCHANGED <<map, file>>

FetchFrom == map' = file /\ call' = <<"FetchFrom", 0>> /\ UNCHANGED file
WriteBack == file' = map /\ call' = <<"WriteBack", 0>> /\ UNCHANGED map

Init == map = [w \in 0 .. numWords - 1 |-> 0] /\ file = map /\ call = <<"Bitmap", numBits>>

Next == \/ FindAndSet \/ NumClear \/ FetchFrom \/ WriteBack
        \/ \E i \in Bit : Mark(i) \/ Clear(i)

Spec == Init /\ [][Next]_vars

-----------------------------------------------------------------------------
(* Properties *)

\* A word never overflows, and the bits of the last word that stand for no
\* sector are never set, whatever is marked or cleared twice.
TypeOK ==
  /\ {map, file} \subseteq [0 .. numWords - 1 -> 0 .. 2 ^ BitsInWord - 1]
  /\ map[numWords - 1] < 2 ^ (numBits - (numWords - 1) * BitsInWord)
  /\ call[2] \in -1 .. numBits

Marked(words) == {i \in Bit : (words[Word(i)] \div Mask(i)) % 2 = 1}
Sets == INSTANCE BitSet WITH set <- Marked(map), saved <- Marked(file)

\* The packed words behave as the set of bits that bitmap.h promises: an
\* operation changes its own bit only, and the loops of FindAndSet and
\* NumClear return the lowest clear bit and the number of them.
ImplementsSet == Sets!Spec
=============================================================================
