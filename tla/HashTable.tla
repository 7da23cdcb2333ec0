----------------------------- MODULE HashTable ------------------------------
(***************************************************************************)
(* HashTable<Key,T> and HashIterator<Key,T> of lib/hash.cc: an array of    *)
(* Lists, grown by ReHash when the items per bucket reach ResizeRatio.  A  *)
(* bucket is the sequence that ListSeq specifies and LinkedList            *)
(* implements.  The iterator lives between two changes of the table, as    *)
(* in SelfTest (hash.cc:307); "seen" collects what its user was shown.     *)
(***************************************************************************)
EXTENDS Naturals, Sequences, FiniteSets, SequencesExt

CONSTANTS Item,            \* the things put in the table
          getKey,          \* getKey[i]: the key of an item
          hash,            \* hash[k]: the hash function
          InitialBuckets,  \* how big a hash table do we start with
          ResizeRatio,     \* when do we grow the hash table
          IncreaseSizeBy,  \* how much do we grow the table when needed
          Closed           \* no iterator is open

HashConstants ==
  /\ DOMAIN getKey = Item
  /\ \A i \in Item : getKey[i] \in DOMAIN hash
  /\ \A k \in DOMAIN hash : hash[k] \in Nat
  /\ InitialBuckets \in Nat \ {0}
  /\ ResizeRatio \in Nat \ {0}
  /\ IncreaseSizeBy \in Nat \ {0, 1}

VARIABLES buckets,     \* the array of hash buckets
          numBuckets,  \* the number of buckets
          numItems,    \* the number of items in the table
          iter,        \* the iterator: [bucket, pos] or Closed
          seen         \* the items the iterator has been on, in order

vars == <<buckets, numBuckets, numItems, iter, seen>>

Key == DOMAIN hash

(***************************************************************************)
(* Lookup.                                                                 *)
(***************************************************************************)
InitBuckets(sz) == [b \in 0..(sz - 1) |-> <<>>]

\* The table was already resized when the item is placed: numBuckets is the
\* size of the array the item goes to.
HashValue(key, sz) == hash[key] % sz

FindInBucket(b, key) == SelectSeq(buckets[b], LAMBDA i : getKey[i] = key)

Find(key) == FindInBucket(HashValue(key, numBuckets), key)

IsInTable(key) == Find(key) # <<>>

Contents == UNION {ToSet(buckets[b]) : b \in DOMAIN buckets}

(***************************************************************************)
(* Insert, with the growth it may cause, and Remove.                       *)
(***************************************************************************)
\* The items leave the old buckets from their fronts, bucket by bucket, and
\* are appended to the new ones.
Moved == FoldLeft(LAMBDA all, b : all \o buckets[b - 1], <<>>,
                  [b \in 1..numBuckets |-> b])

Place(table, sz, i) ==
  [table EXCEPT ![HashValue(getKey[i], sz)] = Append(@, i)]

\* The moved items are placed by the old size.
ReHashOldSize(sz) ==
  FoldLeft(LAMBDA table, i : Place(table, numBuckets, i), InitBuckets(sz), Moved)

\* One item of each old bucket is moved: "if" for "while".
ReHashOnce(sz) ==
  FoldLeft(LAMBDA table, b : IF buckets[b - 1] = <<>> THEN table
                             ELSE Place(table, sz, buckets[b - 1][1]),
           InitBuckets(sz), [b \in 1..numBuckets |-> b])

ReHash(sz) == FoldLeft(LAMBDA table, i : Place(table, sz, i), InitBuckets(sz), Moved)

TooFull == numItems \div numBuckets >= ResizeRatio

Insert(i) ==
  LET sz == IF TooFull THEN numBuckets * IncreaseSizeBy ELSE numBuckets
      table == IF TooFull THEN ReHash(sz) ELSE buckets
  IN  /\ ~ IsInTable(getKey[i])
      /\ buckets' = Place(table, sz, i)
      /\ numBuckets' = sz
      /\ numItems' = numItems + 1
      /\ iter' = Closed
      /\ seen' = <<>>

RemoveKey(key) ==
  LET b == HashValue(key, numBuckets)
      item == Find(key)[1]
  IN  /\ IsInTable(key)
      /\ buckets' = [buckets EXCEPT ![b] = SelectSeq(@, LAMBDA i : i # item)]
      /\ numItems' = numItems - 1
      /\ UNCHANGED numBuckets
      /\ iter' = Closed
      /\ seen' = <<>>

(***************************************************************************)
(* The iterator.                                                           *)
(***************************************************************************)
\* The first bucket from b on that has an item, or numBuckets.
FindNextFullBucket(b) ==
  CHOOSE f \in b..numBuckets :
    /\ f < numBuckets => buckets[f] # <<>>
    /\ \A e \in b..(f - 1) : buckets[e] = <<>>

IsDone == iter.bucket = numBuckets

IterItem(it) == buckets[it.bucket][it.pos]

\* The iterator at the first item of the bucket f, or past the end.
AtBucket(f) == /\ iter' = [bucket |-> f, pos |-> 1]
               /\ seen' = IF f < numBuckets
                          THEN Append(seen, buckets[f][1]) ELSE seen

HashIterator == /\ iter = Closed
                /\ AtBucket(FindNextFullBucket(0))
                /\ UNCHANGED <<buckets, numBuckets, numItems>>

IterNext ==
  /\ iter # Closed
  /\ ~ IsDone
  /\ IF iter.pos < Len(buckets[iter.bucket])
     THEN /\ iter' = [iter EXCEPT !.pos = @ + 1]
          /\ seen' = Append(seen, IterItem(iter'))
     ELSE AtBucket(FindNextFullBucket(iter.bucket + 1))
  /\ UNCHANGED <<buckets, numBuckets, numItems>>

Init == /\ buckets = InitBuckets(InitialBuckets)
        /\ numBuckets = InitialBuckets
        /\ numItems = 0
        /\ iter = Closed
        /\ seen = <<>>

Next == \/ \E i \in Item : Insert(i)
        \/ \E k \in Key : RemoveKey(k)
        \/ HashIterator
        \/ IterNext

Spec == Init /\ [][Next]_vars

(***************************************************************************)
(* Properties.                                                             *)
(***************************************************************************)
\* The array has numBuckets buckets of items, and the iterator stands on one
\* of them or past the last.
TypeOK == /\ buckets \in [0..(numBuckets - 1) -> Seq(Item)]
          /\ numBuckets \in Nat
          /\ numItems \in 0..Cardinality(Item)
          /\ \/ iter = Closed
             \/ /\ iter.bucket \in 0..numBuckets
                /\ iter.bucket < numBuckets => iter.pos \in 1..Len(buckets[iter.bucket])
          /\ seen \in Seq(Item)

\* HashTable<Key,T>::SanityCheck (hash.cc:270-288), which ReHash asserts on
\* both sides of the move: every item is in the bucket its key hashes to at
\* the present size, and numItems counts them all.
SanityCheck == /\ \A b \in DOMAIN buckets : \A i \in ToSet(buckets[b]) :
                    b = HashValue(getKey[i], numBuckets)
               /\ numItems = FoldLeft(LAMBDA n, b : n + Len(buckets[b - 1]), 0,
                                      [b \in 1..numBuckets |-> b])

\* Two items of one key are never in the table together, though Insert looks
\* for the key in a single bucket only, and the bucket it looks in changes
\* with the size (hash.cc:112,194).
KeysUnique == \A i, j \in Contents : getKey[i] = getKey[j] => i = j

\* After any number of items the table is never fuller than the ratio
\* allows: growing once is enough for the insertion that finds it too full
\* (hash.cc:114-116).
LoadBounded == numItems <= ResizeRatio * numBuckets

\* An iterator that reaches its end has shown every item of the table once,
\* whichever buckets are empty (hash.cc:331-360).
IteratesAll == (iter # Closed /\ IsDone) =>
                 /\ ToSet(seen) = Contents
                 /\ Len(seen) = numItems

\* An insertion adds the one item and a removal takes the one item of its
\* key, growth or no growth: nothing is lost in the move to the new buckets.
ChangesOne == [][\/ Contents' = Contents
                 \/ \E i \in Item \ Contents : Contents' = Contents \union {i}
                 \/ \E i \in Contents : Contents' = Contents \ {i}]_vars
=============================================================================
