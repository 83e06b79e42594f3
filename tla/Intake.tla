------------------------------- MODULE Intake -------------------------------
(***************************************************************************)
(* What the dispatcher promises, with no process, no pass and no mailbox:  *)
(* an at-least-once queue.  An item is disposed of (given to the sinks, or *)
(* a line in the quarantine log) before it is done; once done it is never  *)
(* disposed of again and never stops being done; and it is disposed of     *)
(* once, plus at most once more for every fault the system suffered.       *)
(***************************************************************************)
EXTENDS Naturals

CONSTANTS Item, MaxFaults

VARIABLES disposals, done, faults

vars == <<disposals, done, faults>>

Init ==
  /\ disposals = [i \in Item |-> 0]
  /\ done = {}
  /\ faults = 0

Dispose(i) ==
  /\ i \notin done /\ disposals[i] <= faults
  /\ disposals' = [disposals EXCEPT ![i] = @ + 1]
  /\ UNCHANGED <<done, faults>>

\* One save may make several items done: those an earlier save failed on.
Finish(S) ==
  /\ \A i \in S : disposals[i] > 0
  /\ done' = done \cup S
  /\ UNCHANGED <<disposals, faults>>

Fault ==
  /\ faults < MaxFaults
  /\ faults' = faults + 1
  /\ UNCHANGED <<disposals, done>>

Next ==
  \/ \E i \in Item : Dispose(i)
  \/ \E S \in SUBSET Item : Finish(S)
  \/ Fault

Spec == Init /\ [][Next]_vars
=============================================================================
