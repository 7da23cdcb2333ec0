---------------------- MODULE FileSystemRefinesProofs -----------------------
(***************************************************************************)
(* FileSystem, entered by one caller at a time, implements FileStore.      *)
(***************************************************************************)
EXTENDS FileSystemProofs, FileSystemStoreProofs

\* Leaves that name no prover: Zenon for at most 10 seconds, then SMT.
USE ZenonT(10), SMTT(30)

\* On a formatted disk the store is empty.
LEMMA InitRefined ==
  ASSUME Init
  PROVE  StoreInv /\ Store!Init
<1>0. /\ Control /\ Main \in Thread /\ pc = Booted /\ opfile = Wild /\ directory = FormatTable
      /\ call = [t \in Thread |-> NoCall] /\ ret = [t \in Thread |-> Store!NoResult]
  BY InitInv DEF Init, Inv, Thread, Result, Store!NoResult
<1>1. \A u \in Thread : pc[u] \in {"boot", "new"} /\ call[u] = NoCall
  BY <1>0 DEF Booted
<1>2. Table = FormatTable
  BY <1>0, <1>1, TableIs
<1>3. ~Live(opfile)
  BY <1>0, Constants DEF Live
<1>4. opened = NotOpen /\ OpenNamed
  BY <1>3 DEF opened, OpenNamed
<1>5. stored = [n \in Name |-> NoFile]
  BY <1>2, Formatted DEF stored, Content
<1>6. effected = [t \in Thread |-> FALSE]
  <2>1. \A u \in Thread : Done(u) = FALSE
    BY <1>1 DEF Done, NoCall
  <2> QED  BY <2>1 DEF effected
<1>7. \A u \in Thread : Looking(u) /\ Moving(u)
  BY <1>1 DEF Looking, Moving, Writing, NoCall
<1>8. Turns
  <2>1. NoCall.op = "none"
    BY DEF NoCall
  <2>2. \A u \in Thread : call[u] = NoCall /\ call[u].op = "none"
    BY <1>1, <2>1
  <2> QED  BY <2>2 DEF Turns
<1>9. StoreInv
  BY <1>0, <1>1, <1>2, <1>4, <1>7, <1>8, Formatted DEF StoreInv
<1> QED  BY <1>0, <1>4, <1>5, <1>6, <1>9 DEF Store!Init

-----------------------------------------------------------------------------

\* FileSystem and OpenFile, entered by one caller at a time, implement the
\* store of FileStore: the calls take effect on the named files as if each
\* were one step, or, for Write, a step per sector.
THEOREM Refinement ==
  ASSUME "Create" \in Exclusive, OneCaller
  PROVE  Spec => ImplementsStore
<1>1. Init => Inv /\ NameInv /\ CopyInv /\ StoreInv /\ Store!Init
  BY InitInv, InitNames, InitRefined
<1>2. Inv /\ NameInv /\ CopyInv /\ [Next]_vars => Inv' /\ NameInv' /\ CopyInv'
  BY NextInv, StutterInv, NamesStep, CopyStep
<1>3. Inv /\ Inv' /\ NameInv /\ CopyInv /\ StoreInv /\ [Next]_vars
        => StoreInv' /\ [Store!Next]_(Store!vars)
  BY StepRefined DEF Ready, Refined
<1> QED  BY <1>1, <1>2, <1>3, PTL DEF Spec, ImplementsStore, Store!Spec
=============================================================================
