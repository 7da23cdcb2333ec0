------------------------------ MODULE MCSynch -------------------------------
(***************************************************************************)
(* What is built on semaphores: four threads and one monitor, which is     *)
(* either that of a SynchList or is used in any order, or two readers and  *)
(* a writer on the console.                                                *)
(***************************************************************************)
EXTENDS SynchList, Console

VARIABLE use
allVars == <<use, vars, cvars>>

ListUse(A) == use = "list" /\ A /\ UNCHANGED <<use, cvars>>
AnyUse(A) == use = "any" /\ A /\ UNCHANGED <<data, use, cvars>>
ConsoleUse(A) == use = "console" /\ A /\ UNCHANGED <<use, vars>>

MCInit == Init /\ CInit /\ (use = "console" \/ (use \in {"list", "any"} /\ others = "gone"))
MCNext == ListUse(Next) \/ AnyUse(MNext) \/ ConsoleUse(CNext)

\* The fairness of SynchList, Monitor and Console.
MCSpec ==
  /\ MCInit /\ [][MCNext]_allVars
  /\ \A t \in Thread : WF_allVars(ListUse(LStep(t)) \/ AnyUse(Step(t)))
  /\ WF_allVars(ConsoleUse(Idle))
  /\ WF_allVars(ConsoleUse(ReadCallBack)) /\ WF_allVars(ConsoleUse(WriteCallBack))
  /\ \A t \in Client : WF_allVars(ConsoleUse(CStep(t)))

-----------------------------------------------------------------------------

\* A character that is put is written, and PutChar returns.
PutsReturn == \A t \in Client :
  (use = "console" /\ at[t] = "put") ~> at[t] \in {"get", "end"}

\* What waits is let go on.  A signalled thread returns from Condition::Wait, and
\* SynchList::RemoveFront returns when there are items.  SynchConsoleOutput's
\* PutChar returns, and GetChar does when something is typed, unless the console
\* is disabled or another reader is told that the input has ended.
WaitsEnd == WaitersReturn /\ PutsReturn /\ TypedIsRead
=============================================================================
