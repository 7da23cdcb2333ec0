------------------------------- MODULE MCMail -------------------------------
(***************************************************************************)
(* Two machines.  Either two threads on machine 0 compete to send and one  *)
(* on machine 1 receives, as they like, one call each; or a thread on each *)
(* runs Kernel::NetworkTest, as "-N -m 0" and "-N -m 1" start it.          *)
(***************************************************************************)
EXTENDS NetworkTest, TLC

CONSTANTS s, t, r

MCHome == (s :> 0) @@ (t :> 0) @@ (r :> 1)

MCInit == Init /\ step \in {[m \in Tester |-> 0], [m \in Tester |-> 1]}

AnyCalls == ~Testing /\ Next /\ UNCHANGED step /\ \A x \in Thread : calls'[x] <= 1

MCNext == AnyCalls \/ (Testing /\ TestNext)

MCSpec == MCInit /\ [][MCNext]_tvars /\ TestFairness
=============================================================================
