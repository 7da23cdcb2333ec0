---------------------------- MODULE AtomicDisk -----------------------------
(***************************************************************************)
(* A disk as the file system uses it: a call reads or writes one sector in *)
(* one indivisible step between the moment it is made and the moment it    *)
(* returns.                                                                *)
(***************************************************************************)
CONSTANTS Thread, Sector, Data, Zero

VARIABLES
  sectors,   \* what each sector holds
  request,   \* each thread's call: [op, sector, data], op "none" outside calls
  done       \* the threads whose call has had its effect

Free == [op |-> "none", sector |-> 0, data |-> Zero]

Init ==
  /\ sectors = [s \in Sector |-> Zero]
  /\ request = [t \in Thread |-> Free] /\ done = {}

Call(t) ==
  /\ request[t].op = "none"
  /\ \E op \in {"read", "write"}, s \in Sector, d \in Data :
       request' = [request EXCEPT ![t] = [op |-> op, sector |-> s, data |-> d]]
  /\ UNCHANGED <<sectors, done>>

Transfer(t) ==
  /\ request[t].op # "none" /\ t \notin done
  /\ done' = done \cup {t}
  /\ \/ /\ request[t].op = "write"
        /\ sectors' = [sectors EXCEPT ![request[t].sector] = request[t].data]
        /\ UNCHANGED request
     \/ /\ request[t].op = "read"
        /\ request' = [request EXCEPT ![t] =
             [op |-> "read", sector |-> @.sector, data |-> sectors[@.sector]]]
        /\ UNCHANGED sectors

Return(t) ==
  /\ t \in done
  /\ done' = done \ {t}
  /\ request' = [request EXCEPT ![t] = Free]
  /\ UNCHANGED sectors

Next == \E t \in Thread : Call(t) \/ Transfer(t) \/ Return(t)

Spec == Init /\ [][Next]_<<sectors, request, done>>
=============================================================================
