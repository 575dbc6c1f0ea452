----------------------------- MODULE RunVaryMsg -----------------------------
(***************************************************************************)
(* RUN_VARY_MSG (src/include/comm_exp.hpp), the driver that every worker   *)
(* thread of every benchmark executes around its lambda f.  Per message    *)
(* size a worker goes through                                              *)
(*   reset0  bar1  warm  bar2  resetP  bar3  timed  tbar  report           *)
(* and after the last size through  last  bar4  exit.  bar1..bar4 are      *)
(* calls of omp::proc_barrier, tbar is one of omp::thread_barrier.         *)
(*                                                                         *)
(* A benchmark module extends this one, says what reset_counters and an    *)
(* iteration of f do, and takes its worker's control from the Run actions. *)
(* proc_barrier is the specification Barrier.tla, which ProcBarrier.tla    *)
(* shows its code to implement.                                            *)
(***************************************************************************)
EXTENDS Integers

CONSTANTS Size,            \* number of processes (pmi_get_size)
          tx_thread_num,   \* workers per process (omp::thread_count)
          SizeCount,       \* number of message sizes the loop goes through
          SKIP, TOTAL      \* warm-up and timed iterations per worker

ASSUME RunAssumption ==
  /\ Size \in Nat \ {0} /\ tx_thread_num \in Nat \ {0} /\ SizeCount \in Nat \ {0}
  /\ SKIP \in Nat /\ TOTAL \in Nat

Rank == 0 .. Size - 1
Worker == 0 .. tx_thread_num - 1
Thread == Rank \X Worker            \* a worker: <<rank, thread_id>>

VARIABLES
  stage,             \* [Thread]: where the worker is
  sizeIdx,           \* [Thread]: which message size
  iter,              \* [Thread]: index of the loop the worker is in
  procIn, procOut,   \* [Thread]: omp::proc_barrier calls and returns
  teamIn, teamOut,   \* [Thread]: omp::thread_barrier calls and returns
  totalExecTimes     \* [Thread]: sizes whose time the worker has stored

procVars == <<procIn, procOut>>
teamVars == <<teamIn, teamOut>>
runVars == <<stage, sizeIdx, iter, procVars, teamVars, totalExecTimes>>

Team(r) == {u \in Thread : u[1] = r}

ProcBarrier == INSTANCE Barrier WITH
  Party <- Thread, Group <- [w \in Thread |-> Thread],
  entered <- procIn, left <- procOut

TeamBarrier == INSTANCE Barrier WITH
  Party <- Thread, Group <- [w \in Thread |-> Team(w[1])],
  entered <- teamIn, left <- teamOut

Loop == {"warm", "timed"}
Reset == {"reset0", "resetP"}
ToBarrier == [reset0 |-> "bar1", warm |-> "bar2", resetP |-> "bar3", last |-> "bar4"]
FromBarrier == [bar1 |-> "warm", bar2 |-> "resetP", bar3 |-> "timed", bar4 |-> "exit"]
Stage == DOMAIN ToBarrier \cup DOMAIN FromBarrier \cup {"timed", "tbar", "report", "exit"}

LoopBound(w) == IF stage[w] = "warm" THEN SKIP ELSE TOTAL
InLoop(w) == stage[w] \in Loop /\ iter[w] < LoopBound(w)

RunInit ==
  /\ stage = [w \in Thread |-> "reset0"]
  /\ sizeIdx = [w \in Thread |-> 0]
  /\ iter = [w \in Thread |-> 0]
  /\ ProcBarrier!Init
  /\ TeamBarrier!Init
  /\ totalExecTimes = [w \in Thread |-> 0]

(* A reset, the warm-up loop or the whole run is over: proc_barrier. *)
RunEnter(w) ==
  /\ stage[w] \in DOMAIN ToBarrier
  /\ stage[w] = "warm" => iter[w] >= SKIP
  /\ ProcBarrier!Enter(w)
  /\ stage' = [stage EXCEPT ![w] = ToBarrier[@]]
  /\ UNCHANGED <<sizeIdx, iter, teamVars, totalExecTimes>>

(* Mutant: the barrier does not wait. *)
RunLeaveEarly(w) ==
  /\ stage[w] \in DOMAIN FromBarrier
  /\ procOut' = [procOut EXCEPT ![w] = @ + 1]
  /\ stage' = [stage EXCEPT ![w] = FromBarrier[@]]
  /\ iter' = [iter EXCEPT ![w] = 0]
  /\ UNCHANGED <<sizeIdx, procIn, teamVars, totalExecTimes>>

RunLeave(w) ==
  /\ stage[w] \in DOMAIN FromBarrier
  /\ ProcBarrier!Leave(w)
  /\ stage' = [stage EXCEPT ![w] = FromBarrier[@]]
  /\ iter' = [iter EXCEPT ![w] = 0]
  /\ UNCHANGED <<sizeIdx, teamVars, totalExecTimes>>

(* One iteration of a loop is over. *)
RunIterate(w) ==
  /\ InLoop(w)
  /\ iter' = [iter EXCEPT ![w] = @ + 1]
  /\ UNCHANGED <<stage, sizeIdx, procVars, teamVars, totalExecTimes>>

(* The timed loop ends with a store of the time and a thread_barrier.  The *)
(* time is represented by the number of sizes it has been stored for.      *)
RunEnterTeam(w) ==
  /\ stage[w] = "timed" /\ iter[w] >= TOTAL
  /\ totalExecTimes' = [totalExecTimes EXCEPT ![w] = sizeIdx[w] + 1]
  /\ TeamBarrier!Enter(w)
  /\ stage' = [stage EXCEPT ![w] = "tbar"]
  /\ UNCHANGED <<sizeIdx, iter, procVars>>

(* Mutant: no thread_barrier after the timed loop. *)
RunLeaveTeamEarly(w) ==
  /\ stage[w] = "tbar"
  /\ teamOut' = [teamOut EXCEPT ![w] = @ + 1]
  /\ stage' = [stage EXCEPT ![w] = "report"]
  /\ iter' = [iter EXCEPT ![w] = 0]
  /\ UNCHANGED <<sizeIdx, procVars, teamIn, totalExecTimes>>

RunLeaveTeam(w) ==
  /\ stage[w] = "tbar"
  /\ TeamBarrier!Leave(w)
  /\ stage' = [stage EXCEPT ![w] = "report"]
  /\ iter' = [iter EXCEPT ![w] = 0]
  /\ UNCHANGED <<sizeIdx, procVars, totalExecTimes>>

(* The worker takes the maximum of totalExecTimes, reports, and goes on to *)
(* the next message size.                                                  *)
RunReport(w) ==
  /\ stage[w] = "report"
  /\ IF sizeIdx[w] + 1 < SizeCount
     THEN /\ stage' = [stage EXCEPT ![w] = "reset0"]
          /\ sizeIdx' = [sizeIdx EXCEPT ![w] = @ + 1]
     ELSE /\ stage' = [stage EXCEPT ![w] = "last"]
          /\ UNCHANGED sizeIdx
  /\ UNCHANGED <<iter, procVars, teamVars, totalExecTimes>>

RunStep(w) ==
  \/ RunEnter(w) \/ RunLeave(w) \/ RunIterate(w)
  \/ RunEnterTeam(w) \/ RunLeaveTeam(w) \/ RunReport(w)

AllExit == \A w \in Thread : stage[w] = "exit"
RunFinished == AllExit /\ UNCHANGED runVars

RunNext == (\E w \in Thread : RunStep(w)) \/ RunFinished

RunSpec == RunInit /\ [][RunNext]_runVars

-----------------------------------------------------------------------------
RunTypeOK ==
  /\ stage \in [Thread -> Stage]
  /\ sizeIdx \in [Thread -> 0 .. SizeCount - 1]
  /\ iter \in [Thread -> Nat]
  /\ procIn \in [Thread -> Nat] /\ procOut \in [Thread -> Nat]
  /\ teamIn \in [Thread -> Nat] /\ teamOut \in [Thread -> Nat]
  /\ totalExecTimes \in [Thread -> 0 .. SizeCount]

(* All workers that are in a loop are in the same loop of the same message *)
(* size, in all processes: no message of one loop meets a partner in       *)
(* another.                                                                *)
LoopsAligned ==
  \A w, u \in Thread :
    stage[w] \in Loop /\ stage[u] \in Loop => stage[w] = stage[u] /\ sizeIdx[w] = sizeIdx[u]

(* reset_counters overwrites counters of all workers without a lock.       *)
(* While thread 0 may be in the second reset no worker of any process is   *)
(* in a loop; while it may be in the first, none of its own process is and *)
(* none anywhere is in the warm-up (a partner may be in its timed loop).   *)
ResetIsolated ==
  \A w, u \in Thread :
    /\ stage[w] = "resetP" => stage[u] \notin Loop
    /\ stage[w] = "reset0" => /\ stage[u] # "warm"
                              /\ u[1] = w[1] => stage[u] # "timed"

(* When a worker takes the maximum of totalExecTimes every worker of its   *)
(* process has stored its time of this very size: none is missing and none *)
(* is overwritten by the next size.  Nor does any of them run a loop whose *)
(* accumulators the report reads.                                          *)
ReportsThisSize ==
  \A w, u \in Thread : stage[w] = "report" /\ u[1] = w[1] =>
    totalExecTimes[u] = sizeIdx[w] + 1 /\ stage[u] \notin Loop

(* A worker that has returned from RUN_VARY_MSG leaves nobody in a loop:   *)
(* what follows it in main may take the queues down.                       *)
NobodyLeftBehind ==
  (\E w \in Thread : stage[w] = "exit") => \A u \in Thread : stage[u] \in {"bar4", "exit"}

-----------------------------------------------------------------------------
(* The inductive invariant behind the safety properties. *)

(* How many barrier calls a worker has made and returned from, and how     *)
(* many times it has stored: three proc_barriers, one thread_barrier and   *)
(* one time per message size.                                              *)
CountsAre(w, in, out, tin, tout) ==
  /\ procIn[w] = 3 * sizeIdx[w] + in /\ procOut[w] = 3 * sizeIdx[w] + out
  /\ teamIn[w] = sizeIdx[w] + tin /\ teamOut[w] = sizeIdx[w] + tout
  /\ totalExecTimes[w] = sizeIdx[w] + tin

WorkerCounts(w) ==
  /\ stage[w] = "reset0" => CountsAre(w, 0, 0, 0, 0)
  /\ stage[w] = "bar1" => CountsAre(w, 1, 0, 0, 0)
  /\ stage[w] = "warm" => CountsAre(w, 1, 1, 0, 0)
  /\ stage[w] = "bar2" => CountsAre(w, 2, 1, 0, 0)
  /\ stage[w] = "resetP" => CountsAre(w, 2, 2, 0, 0)
  /\ stage[w] = "bar3" => CountsAre(w, 3, 2, 0, 0)
  /\ stage[w] = "timed" => CountsAre(w, 3, 3, 0, 0)
  /\ stage[w] = "tbar" => CountsAre(w, 3, 3, 1, 0)
  /\ stage[w] = "report" => CountsAre(w, 3, 3, 1, 1)
  /\ stage[w] = "last" => CountsAre(w, 3, 3, 1, 1)
  /\ stage[w] = "bar4" => CountsAre(w, 4, 3, 1, 1)
  /\ stage[w] = "exit" => CountsAre(w, 4, 4, 1, 1)
  /\ stage[w] \in {"last", "bar4", "exit"} => sizeIdx[w] = SizeCount - 1

RunInv ==
  /\ RunTypeOK
  /\ \A w \in Thread : WorkerCounts(w)
  /\ ProcBarrier!Separated /\ TeamBarrier!Separated

(* Iterations a worker has finished since it began. *)
Before(k) == k * (SKIP + TOTAL)
Iterations(w) ==
  IF stage[w] \in {"reset0", "bar1"} THEN 0
  ELSE IF stage[w] = "warm" THEN iter[w]
  ELSE IF stage[w] \in {"bar2", "resetP", "bar3"} THEN SKIP
  ELSE IF stage[w] = "timed" THEN SKIP + iter[w]
  ELSE SKIP + TOTAL
Done(w) == Before(sizeIdx[w]) + Iterations(w)

(* A loop does not run past its end. *)
LoopBounded(w) == stage[w] \in Loop => iter[w] <= LoopBound(w)
=============================================================================
