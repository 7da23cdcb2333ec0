------------------------------ MODULE ListSeq ------------------------------
(***************************************************************************)
(* What lib/list.h promises of List<T> and SortedList<T>: the list is a    *)
(* sequence of distinct items, and a sorted list hands its items out in    *)
(* the order of "compare", first come first out among equals.  The linked  *)
(* cells of LinkedList implement this.                                     *)
(***************************************************************************)
EXTENDS Naturals, Sequences, SequencesExt

CONSTANTS Item,     \* the things put on the list
          Rank,     \* Rank[i] orders the items, as "compare" does
          None      \* nothing called yet

VARIABLES seq,      \* the items, first to last
          call      \* the last call, with the item it was given or returned

lvars == <<seq, call>>

Append1(i) == /\ i \notin ToSet(seq)
              /\ seq' = Append(seq, i)
              /\ call' = <<"Append", i>>

Prepend1(i) == /\ i \notin ToSet(seq)
               /\ seq' = <<i>> \o seq
               /\ call' = <<"Prepend", i>>

RemoveFront1 == /\ seq # <<>>
                /\ call' = <<"RemoveFront", Head(seq)>>
                /\ seq' = Tail(seq)

Remove1(i) == /\ i \in ToSet(seq)
              /\ call' = <<"Remove", i>>
              /\ seq' = SelectSeq(seq, LAMBDA x : x # i)

NoLater(x, i) == Rank[x] <= Rank[i]
Later(x, i) == Rank[x] > Rank[i]

\* The item goes behind every item that does not come after it.
Insert1(i) == /\ i \notin ToSet(seq)
              /\ seq' = SelectSeq(seq, LAMBDA x : NoLater(x, i)) \o <<i>>
                          \o SelectSeq(seq, LAMBDA x : Later(x, i))
              /\ call' = <<"Insert", i>>

Empty == seq = <<>> /\ call = None

PlainSpec == Empty /\ [][\/ RemoveFront1
                         \/ \E i \in Item : Append1(i) \/ Prepend1(i) \/ Remove1(i)]_lvars

SortedSpec == Empty /\ [][\/ RemoveFront1
                          \/ \E i \in Item : Insert1(i) \/ Remove1(i)]_lvars
=============================================================================
