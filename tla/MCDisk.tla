------------------------------ MODULE MCDisk -------------------------------
(***************************************************************************)
(* Three threads that each make two calls, on a disk of two sectors.       *)
(***************************************************************************)
EXTENDS SynchDisk
=============================================================================
