----------------------------- MODULE LinkedList -----------------------------
(***************************************************************************)
(* List<T> and SortedList<T> of lib/list.cc, at the level of their cells:  *)
(* ListElements taken from and returned to the heap, linked by "next",     *)
(* with "first", "last" and "numInList" kept beside them.  The ready list, *)
(* the queues of the semaphores and condition variables, the mailboxes and *)
(* the hash buckets are Lists; the pending interrupts are a SortedList.    *)
(*                                                                         *)
(* Callers keep the ASSERTs at the head of each operation: an item is put  *)
(* on a list it is not on, and removed from one it is on.  That the cells  *)
(* implement the sequence of ListSeq is stated in MCParts.                 *)
(***************************************************************************)
EXTENDS Naturals, Sequences, FiniteSets

CONSTANTS Item,     \* the things put on the list
          Rank,     \* Rank[i] orders the items, as "compare" does
          Cell,     \* addresses the allocator hands out
          NULL,     \* the null pointer
          None      \* nothing called yet

ListConstants ==
  /\ Rank \in [Item -> Nat]
  /\ NULL \notin Cell
  /\ None \notin Item
  /\ Cardinality(Cell) > Cardinality(Item)

VARIABLES heap,       \* the allocated cells: address -> [item, next]
          first,      \* head of the list, NULL if empty
          last,       \* last element of the list
          numInList,  \* number of elements in the list
          call        \* the last call, with the item it was given or returned

vars == <<heap, first, last, numInList, call>>

(***************************************************************************)
(* Reading the list.                                                       *)
(***************************************************************************)
\* The pointer k steps of "ptr = ptr->next" away from "first".
Pointer[k \in Nat] ==
  IF k = 0 THEN first
           ELSE LET p == Pointer[k - 1] IN IF p \in DOMAIN heap THEN heap[p].next ELSE NULL

\* The cells a walk from "first" visits, in order.  No walk over a legal
\* list visits more cells than there are.
Steps == {k \in 1..Cardinality(Cell) : Pointer[k - 1] \in DOMAIN heap}
Chain == [k \in Steps |-> Pointer[k - 1]]

Contents == [k \in Steps |-> heap[Pointer[k - 1]].item]

IsEmpty == numInList = 0

IsInList(i) == \E k \in Steps : heap[Pointer[k - 1]].item = i

(***************************************************************************)
(* Writing it.  "new" takes any free address, "delete" gives it back.      *)
(***************************************************************************)
ListElement(c, i, n) == /\ c \in Cell \ DOMAIN heap
                        /\ heap' = [x \in DOMAIN heap \union {c} |->
                                     IF x = c THEN [item |-> i, next |-> n] ELSE heap[x]]

\* A new element linked behind the cell p.
LinkAfter(p, c, i) ==
  /\ c \in Cell \ DOMAIN heap
  /\ heap' = [x \in DOMAIN heap \union {c} |->
               IF x = c THEN [item |-> i, next |-> heap[p].next]
               ELSE IF x = p THEN [heap[p] EXCEPT !.next = c] ELSE heap[x]]

Delete(c) == heap' = [x \in DOMAIN heap \ {c} |-> heap[x]]

OnlyElement(c, i) == /\ ListElement(c, i, NULL)
                     /\ first' = c
                     /\ last' = c

AtFront(c, i) == /\ ListElement(c, i, first)
                 /\ first' = c
                 /\ UNCHANGED last

AtEnd(c, i) == /\ LinkAfter(last, c, i)
               /\ last' = c
               /\ UNCHANGED first

ListAppend(i) ==
  \E c \in Cell : /\ ~ IsInList(i)
                  /\ IF IsEmpty THEN OnlyElement(c, i) ELSE AtEnd(c, i)
                  /\ numInList' = numInList + 1
                  /\ call' = <<"Append", i>>

ListPrepend(i) ==
  \E c \in Cell : /\ ~ IsInList(i)
                  /\ IF IsEmpty THEN OnlyElement(c, i) ELSE AtFront(c, i)
                  /\ numInList' = numInList + 1
                  /\ call' = <<"Prepend", i>>

TakeFront ==
  /\ IF first = last
     THEN first' = NULL /\ last' = NULL
     ELSE first' = heap[first].next /\ UNCHANGED last
  /\ numInList' = numInList - 1
  /\ Delete(first)

RemoveFront == /\ ~ IsEmpty
               /\ TakeFront
               /\ call' = <<"RemoveFront", heap[first].item>>

\* "last" keeps pointing at the element deleted.
UnlinkKeepsLast(prev, ptr) ==
  /\ heap' = [x \in DOMAIN heap \ {ptr} |->
               IF x = prev THEN [heap[prev] EXCEPT !.next = heap[ptr].next] ELSE heap[x]]
  /\ UNCHANGED <<first, last>>

\* The element behind prev is unlinked and deleted; "last" moves back when
\* there is nothing behind it.
Unlink(prev, ptr) ==
  /\ heap' = [x \in DOMAIN heap \ {ptr} |->
               IF x = prev THEN [heap[prev] EXCEPT !.next = heap[ptr].next] ELSE heap[x]]
  /\ last' = IF heap[ptr].next = NULL THEN prev ELSE last
  /\ UNCHANGED first

Remove(i) ==
  /\ IsInList(i)
  /\ IF i = heap[first].item
     THEN TakeFront
     ELSE \E k \in Steps : /\ Contents[k] = i
                           /\ Unlink(Chain[k - 1], Chain[k])
                           /\ numInList' = numInList - 1
  /\ call' = <<"Remove", i>>

(***************************************************************************)
(* SortedList: the walk stops in front of the first element behind the     *)
(* first that the item comes before.                                       *)
(***************************************************************************)
Before(i, k) == Rank[i] < Rank[Contents[k]]

\* "behind": the positions whose items the new one comes before.
InsertWhere(i, behind) ==
  \E c \in Cell :
    /\ ~ IsInList(i)
    /\ CASE IsEmpty -> OnlyElement(c, i)
         [] 1 \in behind -> AtFront(c, i)
         [] behind # {} /\ 1 \notin behind ->
              LET k == CHOOSE n \in behind : \A m \in behind : n <= m
              IN  LinkAfter(Chain[k - 1], c, i) /\ UNCHANGED <<first, last>>
         [] OTHER -> AtEnd(c, i)
    /\ numInList' = numInList + 1
    /\ call' = <<"Insert", i>>

\* compare <= 0: an equal item overtakes those already there.
InsertOvertakes(i) == InsertWhere(i, {k \in Steps : Rank[i] <= Rank[Contents[k]]})

Insert(i) == InsertWhere(i, {k \in Steps : Before(i, k)})

Init == /\ heap = <<>>
        /\ first = NULL
        /\ last = NULL
        /\ numInList = 0
        /\ call = None

PlainNext == \/ RemoveFront
             \/ \E i \in Item : ListAppend(i) \/ ListPrepend(i) \/ Remove(i)

SortedNext == RemoveFront \/ \E i \in Item : Insert(i) \/ Remove(i)

PlainSpec == Init /\ [][PlainNext]_vars
SortedSpec == Init /\ [][SortedNext]_vars

(***************************************************************************)
(* Properties.                                                             *)
(***************************************************************************)
\* Pointers are null or of allocated cells, items are items: no operation
\* leaves a dangling pointer behind.
TypeOK == /\ DOMAIN heap \subseteq Cell
          /\ \A c \in DOMAIN heap : /\ heap[c].item \in Item
                                    /\ heap[c].next \in DOMAIN heap \union {NULL}
          /\ first \in DOMAIN heap \union {NULL}
          /\ last \in DOMAIN heap \union {NULL}
          /\ numInList \in 0..Cardinality(Item)
          /\ call = None \/ call[2] \in Item

\* List<T>::SanityCheck (list.cc:270-289): from "first" one gets to "last"
\* in numInList elements, and nothing follows "last"; an empty list has
\* neither a first nor a last.
SanityCheck == /\ Cardinality(Steps) = numInList
               /\ IF numInList = 0 THEN first = NULL /\ last = NULL
                                   ELSE /\ Chain[numInList] = last
                                        /\ heap[last].next = NULL

\* Every removal deletes the element it unlinks (list.cc:140,170) and no
\* other: the allocated cells are those on the list.
NoLeak == {Chain[k] : k \in Steps} = DOMAIN heap

\* SortedList<T>::SanityCheck (list.cc:334-347): no element comes before its
\* predecessor, whatever was removed in between.
Sorted == \A k \in Steps : k > 1 => ~ Before(Contents[k], k - 1)
=============================================================================
