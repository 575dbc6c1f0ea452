------------------------------ MODULE Barrier ------------------------------
(***************************************************************************)
(* A reusable barrier, counted: entered[p] is the number of barrier calls  *)
(* party p has made, left[p] the number it has returned from.  Group[p] is *)
(* the set of parties p synchronises with.                                 *)
(*                                                                         *)
(* Three barriers of the benchmark are instances of this module:           *)
(*   - omp::thread_barrier: the parties are the OpenMP threads, a group is *)
(*     the team of one process;                                            *)
(*   - pmi_barrier: the parties are the processes, in one group;           *)
(*   - omp::proc_barrier: the parties are all threads of all processes, in *)
(*     one group.  It is built from the other two, and ProcBarrier.tla     *)
(*     shows that the construction implements this module.                 *)
(***************************************************************************)
EXTENDS Naturals

CONSTANTS Party,    \* who takes part
          Group     \* Group[p]: the parties p waits for, p included

VARIABLES entered, left

barrierVars == <<entered, left>>

Init ==
  /\ entered = [p \in Party |-> 0]
  /\ left = [p \in Party |-> 0]

Inside(p) == entered[p] = left[p] + 1

(* Party p calls the barrier. *)
Enter(p) ==
  /\ entered[p] = left[p]
  /\ entered' = [entered EXCEPT ![p] = @ + 1]
  /\ left' = left

(* Party p returns: every party of its group has made as many calls. *)
Leave(p) ==
  /\ Inside(p)
  /\ \A q \in Group[p] : entered[q] >= entered[p]
  /\ left' = [left EXCEPT ![p] = @ + 1]
  /\ entered' = entered

Next == \E p \in Party : Enter(p) \/ Leave(p)

(* Without the promise that a call returns once everybody has called. *)
SafeSpec == Init /\ [][Next]_barrierVars

Spec == Init /\ [][Next]_barrierVars /\ \A p \in Party : WF_barrierVars(Leave(p))

(* Nobody is past a barrier call that a member of its group has not made. *)
Separated == \A p \in Party : \A q \in Group[p] : left[p] <= entered[q]
=============================================================================
