------------------------------- MODULE BitSet -------------------------------
(***************************************************************************)
(* What bitmap.h promises of a Bitmap: a set of numbers below numBits, a   *)
(* search for the lowest one that is not in it, and their count.  The free *)
(* map of module FileSystem is such a set.                                 *)
(***************************************************************************)
EXTENDS Integers, FiniteSets, FiniteSetsExt

CONSTANT numBits

VARIABLES set,    \* the marked bits
          saved,  \* the marked bits of the copy in the file
          call    \* the last call, with what it was given or returned

Bit == 0 .. numBits - 1
Free == Bit \ set

Init == set = {} /\ saved = {} /\ call = <<"Bitmap", numBits>>

Mark(i) == set' = set \cup {i} /\ call' = <<"Mark", i>> /\ UNCHANGED saved
Clear(i) == set' = set \ {i} /\ call' = <<"Clear", i>> /\ UNCHANGED saved

FindAndSet ==
  /\ call' = <<"FindAndSet", IF Free = {} THEN -1 ELSE Min(Free)>>
  /\ set' = set \cup (Bit \cap {call'[2]})
  /\ UNCHANGED saved

NumClear == call' = <<"NumClear", Cardinality(Free)>> /\ UNCHANGED <<set, saved>>

FetchFrom == set' = saved /\ call' = <<"FetchFrom", 0>> /\ UNCHANGED saved
WriteBack == saved' = set /\ call' = <<"WriteBack", 0>> /\ UNCHANGED set

Next == \/ FindAndSet \/ NumClear \/ FetchFrom \/ WriteBack
        \/ \E i \in Bit : Mark(i) \/ Clear(i)

Spec == Init /\ [][Next]_<<set, saved, call>>
=============================================================================
