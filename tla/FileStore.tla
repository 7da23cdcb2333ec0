------------------------------ MODULE FileStore ------------------------------
(***************************************************************************)
(* What the file system promises to callers that enter it one at a time: a *)
(* store of named files of fixed length, at most one of which is open.     *)
(*                                                                         *)
(* A call is made, takes effect in the store at some later moment, and     *)
(* then returns.  Create and Remove take effect at once, a Write reaches   *)
(* the store in parts.  Only Write changes the bytes of a file, only its   *)
(* own and only those asked for, and Read returns what was last written.   *)
(***************************************************************************)
EXTENDS Integers

CONSTANTS
  Thread,    \* the callers
  Name,      \* file names
  Byte,      \* what a byte of a file may be
  CallSet,   \* the calls that may be made
  Length,    \* lengths passed to Read and Write
  NoFile,    \* content of a name that is not a file
  NotOpen,   \* no file is open
  Idle       \* a thread that is in no call

VARIABLES
  store,  \* the content of every file
  open,   \* the open file and the position in it
  call,   \* the call each thread is in
  done,   \* has that call taken effect?
  ret     \* the result of each thread's last call

vars == <<store, open, call, done, ret>>

NoResult == [op |-> "none", ok |-> FALSE, data |-> <<>>]

Init ==
  /\ store = [n \in Name |-> NoFile]
  /\ open = NotOpen
  /\ call = [t \in Thread |-> Idle]
  /\ done = [t \in Thread |-> FALSE]
  /\ ret = [t \in Thread |-> NoResult]

In(t, op) == call[t] # Idle /\ call[t].op = op
Exists(n) == store[n] # NoFile
IsOpen == open # NotOpen

\* Offsets a request of n bytes at the open position covers.
Window(n) == {o \in open.pos .. open.pos + n - 1 : o < store[open.name].length}

\* The position moves past the last of the bytes.
Advance(w) ==
  \E o \in w : (\A p \in w : p <= o) /\ open' = [open EXCEPT !.pos = o + 1]

\* One call at a time.
Call(t) ==
  /\ \A u \in Thread : call[u] = Idle
  /\ \E c \in CallSet : call' = [call EXCEPT ![t] = c]
  /\ done' = [done EXCEPT ![t] = FALSE]
  /\ ret' = [ret EXCEPT ![t] = NoResult]
  /\ UNCHANGED <<store, open>>

Answer(t, op, ok, data) ==
  ret' = [ret EXCEPT ![t] = [op |-> op, ok |-> ok, data |-> data]]
Return(t, ok, data) ==
  /\ Answer(t, call[t].op, ok, data)
  /\ call' = [call EXCEPT ![t] = Idle]
  /\ done' = [done EXCEPT ![t] = FALSE]

\* The file appears, with whatever its sectors held.
CreateEffect(t) ==
  /\ In(t, "Create") /\ ~done[t] /\ ~Exists(call[t].name)
  /\ \E b \in [0 .. call[t].size - 1 -> Byte] :
       store' = [store EXCEPT ![call[t].name] = [length |-> call[t].size,
                                                 bytes |-> b]]
  /\ done' = [done EXCEPT ![t] = TRUE]
  /\ UNCHANGED <<open, call, ret>>

\* Create may fail for want of space also where the name is free.
CreateReturn(t) ==
  /\ In(t, "Create")
  /\ Return(t, done[t], <<>>)
  /\ UNCHANGED <<store, open>>

RemoveEffect(t) ==
  /\ In(t, "Remove") /\ ~done[t] /\ Exists(call[t].name)
  /\ store' = [store EXCEPT ![call[t].name] = NoFile]
  /\ done' = [done EXCEPT ![t] = TRUE]
  /\ UNCHANGED <<open, call, ret>>

RemoveReturn(t) ==
  /\ In(t, "Remove") /\ ~Exists(call[t].name)
  /\ Return(t, done[t], <<>>)
  /\ UNCHANGED <<store, open>>

OpenReturn(t) ==
  LET n == call[t].name IN
  /\ In(t, "Open")
  /\ open' = IF Exists(n) THEN [name |-> n, pos |-> 0] ELSE NotOpen
  /\ Return(t, Exists(n), <<>>)
  /\ UNCHANGED store

\* Loading a program opens its file and leaves no file open.
LoadEffect(t) ==
  /\ In(t, "Load") /\ ~done[t] /\ Exists(call[t].name)
  /\ open' = [name |-> call[t].name, pos |-> 0]
  /\ done' = [done EXCEPT ![t] = TRUE]
  /\ UNCHANGED <<store, call, ret>>

LoadReturn(t) ==
  /\ In(t, "Load") /\ (done[t] \/ ~Exists(call[t].name))
  /\ open' = NotOpen
  /\ Return(t, done[t], <<>>)
  /\ UNCHANGED store

ReadReturn(t) ==
  LET w == Window(call[t].size) IN
  /\ In(t, "Read") /\ IsOpen /\ w # {}
  /\ Return(t, TRUE, [k \in {o - open.pos : o \in w} |->
                        store[open.name].bytes[open.pos + k]])
  /\ Advance(w)
  /\ UNCHANGED store

\* The open file with some bytes of the Write in place.
Written(t, part) ==
  [store EXCEPT ![open.name].bytes =
     [o \in DOMAIN @ |-> IF o \in part THEN call[t].buf[o - open.pos] ELSE @[o]]]

WriteEffect(t) ==
  /\ In(t, "Write") /\ IsOpen
  /\ \E part \in SUBSET Window(call[t].size) : store' = Written(t, part)
  /\ UNCHANGED <<open, call, done, ret>>

\* All of them are by the time it returns.
WriteReturn(t) ==
  LET w == Window(call[t].size) IN
  /\ In(t, "Write") /\ IsOpen
  /\ store' = Written(t, w)
  /\ Advance(w)
  /\ Return(t, TRUE, <<>>)

\* A Read or Write of nothing, or at the end of the file, returns at once.
Nothing(t, op, n) ==
  /\ \A u \in Thread : call[u] = Idle
  /\ IsOpen /\ Window(n) = {}
  /\ Answer(t, op, TRUE, <<>>)
  /\ UNCHANGED <<store, open, call, done>>

Close(t) ==
  /\ \A u \in Thread : call[u] = Idle
  /\ open' = NotOpen
  /\ Answer(t, "Close", TRUE, <<>>)
  /\ UNCHANGED <<store, call, done>>

\* The machine is started again; formatting the disk forgets all files.
Reboot ==
  /\ \A u \in Thread : call[u] = Idle
  /\ store' \in {store, [n \in Name |-> NoFile]}
  /\ open' = NotOpen
  /\ ret' = [t \in Thread |-> NoResult]
  /\ UNCHANGED <<call, done>>

Next ==
  \/ \E t \in Thread :
       \/ Call(t)
       \/ CreateEffect(t) \/ CreateReturn(t)
       \/ RemoveEffect(t) \/ RemoveReturn(t)
       \/ OpenReturn(t)
       \/ LoadEffect(t) \/ LoadReturn(t)
       \/ ReadReturn(t)
       \/ WriteEffect(t) \/ WriteReturn(t)
       \/ \E op \in {"Read", "Write"}, n \in Length : Nothing(t, op, n)
       \/ Close(t)
  \/ Reboot

Spec == Init /\ [][Next]_vars
=============================================================================
