---------------------------- MODULE ProcBarrier ----------------------------
(***************************************************************************)
(* omp::proc_barrier (src/include/thread_utils.hpp): a barrier for all     *)
(* threads of all processes, made of two barriers of the OpenMP team with  *)
(* a pmi_barrier of the team's thread 0 between them.                      *)
(*                                                                         *)
(* Every thread calls it Calls times; RUN_VARY_MSG makes three calls per   *)
(* message size and one at the end.                                        *)
(***************************************************************************)
EXTENDS Integers

CONSTANTS NumProcs, TeamSize, Calls

ASSUME BarrierAssumption ==
  NumProcs \in Nat \ {0} /\ TeamSize \in Nat \ {0} /\ Calls \in Nat

Rank == 0 .. NumProcs - 1
Thread == Rank \X (0 .. TeamSize - 1)     \* <<rank, thread_id>>

VARIABLES pc,                \* [Thread]: where the thread is in proc_barrier
          teamIn, teamOut,   \* [Thread]: thread_barrier calls and returns
          pmiIn, pmiOut      \* [Rank]: pmi_barrier calls and returns

vars == <<pc, teamIn, teamOut, pmiIn, pmiOut>>

(* #pragma omp barrier: the threads of one process. *)
Team == INSTANCE Barrier WITH
  Party <- Thread, Group <- [w \in Thread |-> {u \in Thread : u[1] = w[1]}],
  entered <- teamIn, left <- teamOut

(* PMI_Barrier: all processes of the job. *)
Pmi == INSTANCE Barrier WITH
  Party <- Rank, Group <- [r \in Rank |-> Rank],
  entered <- pmiIn, left <- pmiOut

Init ==
  /\ pc = [w \in Thread |-> "out"]
  /\ Team!Init
  /\ Pmi!Init

Goto(w, from, to) == pc[w] = from /\ pc' = [pc EXCEPT ![w] = to]

CallBarrier(w) ==
  /\ teamOut[w] < 2 * Calls
  /\ Goto(w, "out", "first")
  /\ Team!Enter(w)
  /\ UNCHANGED <<pmiIn, pmiOut>>

(* Mutant: no thread_barrier before pmi_barrier. *)
LeaveFirstEarly(w) ==
  /\ Goto(w, "first", "between")
  /\ teamOut' = [teamOut EXCEPT ![w] = @ + 1]
  /\ UNCHANGED <<teamIn, pmiIn, pmiOut>>

LeaveFirst(w) ==
  /\ Goto(w, "first", "between")
  /\ Team!Leave(w)
  /\ UNCHANGED <<pmiIn, pmiOut>>

(* if (thread_id() == 0) pmi_barrier() *)
EnterPmi(w) ==
  /\ w[2] = 0
  /\ Goto(w, "between", "pmi")
  /\ Pmi!Enter(w[1])
  /\ UNCHANGED <<teamIn, teamOut>>

LeavePmi(w) ==
  /\ w[2] = 0
  /\ Goto(w, "pmi", "after")
  /\ Pmi!Leave(w[1])
  /\ UNCHANGED <<teamIn, teamOut>>

EnterSecond(w) ==
  /\ Goto(w, IF w[2] = 0 THEN "after" ELSE "between", "second")
  /\ Team!Enter(w)
  /\ UNCHANGED <<pmiIn, pmiOut>>

LeaveSecond(w) ==
  /\ Goto(w, "second", "out")
  /\ Team!Leave(w)
  /\ UNCHANGED <<pmiIn, pmiOut>>

Step(w) ==
  \/ CallBarrier(w) \/ LeaveFirst(w)
  \/ EnterPmi(w) \/ LeavePmi(w)
  \/ EnterSecond(w) \/ LeaveSecond(w)

AllReturned == \A w \in Thread : pc[w] = "out" /\ teamOut[w] = 2 * Calls
Finished == AllReturned /\ UNCHANGED vars

Next == (\E w \in Thread : Step(w)) \/ Finished

Spec == Init /\ [][Next]_vars
(* No thread is suspended for ever inside proc_barrier. *)
FairSpec == Spec /\ \A w \in Thread : WF_vars(Step(w))

-----------------------------------------------------------------------------
(* The barrier proc_barrier promises: a call is under way from the first   *)
(* thread_barrier entry to the second thread_barrier return.               *)
Promised == INSTANCE Barrier WITH
  Party <- Thread, Group <- [w \in Thread |-> Thread],
  entered <- [w \in Thread |-> (teamIn[w] + 1) \div 2],
  left <- [w \in Thread |-> teamOut[w] \div 2]

(* proc_barrier implements a barrier of all threads of all processes,      *)
(* including that a thread returns once all have called it.                *)
ImplementsBarrier == Promised!Spec

(* The part of it that says what a step may do. *)
StepsOfBarrier == Promised!Init /\ [][Promised!Next]_(Promised!barrierVars)

(* The same as an invariant: no thread has returned from its n-th          *)
(* proc_barrier while some thread of some process has not called it yet.   *)
Separated == Promised!Separated

TypeOK ==
  /\ pc \in [Thread -> {"out", "first", "between", "pmi", "after", "second"}]
  /\ teamIn \in [Thread -> Nat] /\ teamOut \in [Thread -> Nat]
  /\ pmiIn \in [Rank -> Nat] /\ pmiOut \in [Rank -> Nat]

-----------------------------------------------------------------------------
(* Strengthening that makes Separated inductive. *)

(* How far pc is through the two team barriers. *)
TeamCounts ==
  \A w \in Thread :
    /\ pc[w] \in {"out", "between", "pmi", "after"} => teamIn[w] = teamOut[w]
    /\ pc[w] \in {"first", "second"} => teamIn[w] = teamOut[w] + 1
    /\ pc[w] \in {"out", "first"} <=> teamOut[w] % 2 = 0

(* Thread 0 has called pmi_barrier once in every proc_barrier that it got  *)
(* half way through.                                                       *)
PmiCounts ==
  \A w \in Thread : w[2] = 0 =>
    LET n == teamOut[w] \div 2 IN
      /\ pc[w] \in {"out", "first", "between"} => pmiIn[w[1]] = n /\ pmiOut[w[1]] = n
      /\ pc[w] = "pmi" => pmiIn[w[1]] = n + 1 /\ pmiOut[w[1]] = n
      /\ pc[w] \in {"after", "second"} => pmiIn[w[1]] = n + 1 /\ pmiOut[w[1]] = n + 1

OnlyThreadZeroInPmi == \A w \in Thread : pc[w] \in {"pmi", "after"} => w[2] = 0

IInv ==
  /\ TypeOK
  /\ TeamCounts /\ PmiCounts /\ OnlyThreadZeroInPmi
  /\ Team!Separated /\ Pmi!Separated
=============================================================================
