---------------------------- MODULE PingpongPrg ----------------------------
(***************************************************************************)
(* The ping-pong benchmark with dedicated progress threads                 *)
(* (src/benchmark/pingpong_prg.cpp), driven by RUN_VARY_MSG.               *)
(*                                                                         *)
(* Every process has tx_thread_num workers and rx_thread_num progress      *)
(* threads.  Worker t of a process is connected to worker t of the partner *)
(* process, but what it sends is received by progress thread               *)
(* t % rx_thread_num there, which hands it to the workers of its class     *)
(* {id, id + rx_thread_num, ...} in turn by incrementing their sync.       *)
(*                                                                         *)
(* Messages carry nothing the control depends on, so a channel is a        *)
(* number of messages.  The compute phase, the progress counters and the   *)
(* clocks are left out.                                                    *)
(***************************************************************************)
EXTENDS RunVaryMsg

CONSTANTS rx_thread_num,
          prefilled_work,
          NUM_PREPOST_RECV,
          numToPoll           \* completions one progress() call takes at most

ASSUME ConstantsAssumption ==
  /\ rx_thread_num \in Nat \ {0}
  /\ tx_thread_num % rx_thread_num = 0     \* checked by main, 239-242
  /\ prefilled_work \in Nat
  /\ NUM_PREPOST_RECV \in Nat \ {0} /\ numToPoll \in Nat \ {0}

ProgressId == 0 .. rx_thread_num - 1
PrgThread == Rank \X ProgressId     \* a progress thread: <<rank, id>>

target_rank(r) == (r + Size \div 2) % Size
IsSender(r) == r < Size \div 2

VARIABLES
  mainPc,             \* [Rank]: where main is
  thread_stop,        \* [Rank]
  half,               \* [Thread]: TRUE between the two halves of the lambda f
  resetPos,           \* [Rank]: stores thread 0 has done in reset_counters
  syncs,              \* [Thread]: messages handed to the worker, not yet taken
  prgPc,              \* [PrgThread]: where the progress thread is
  numRecvCompleted,   \* [PrgThread]
  dispatched,         \* [PrgThread]: index of the dispatch loop
  worker_idx,         \* [PrgThread]: local, the worker to signal next
  next_worker_idx,    \* [PrgThread]: shared with reset_counters
  posted,             \* [PrgThread]: posted receives no message has taken
  rxCq,               \* [PrgThread]: receive completions not yet polled
  net                 \* [PrgThread]: messages on their way to that thread

mainVars == <<mainPc, thread_stop>>
workVars == <<half, resetPos>>
localVars == <<numRecvCompleted, dispatched, worker_idx>>
prgVars == <<prgPc, localVars, next_worker_idx>>
netVars == <<posted, rxCq, net>>
vars == <<runVars, mainVars, workVars, syncs, prgVars, netVars>>

Init ==
  /\ RunInit
  /\ mainPc = [r \in Rank |-> "spawn"]
  /\ thread_stop = [r \in Rank |-> FALSE]
  /\ half = [w \in Thread |-> FALSE]
  /\ resetPos = [r \in Rank |-> 0]
  /\ syncs = [w \in Thread |-> 0]
  /\ prgPc = [p \in PrgThread |-> "start"]
  /\ numRecvCompleted = [p \in PrgThread |-> 0]
  /\ dispatched = [p \in PrgThread |-> 0]
  /\ worker_idx = [p \in PrgThread |-> p[2]]
  /\ next_worker_idx = [p \in PrgThread |-> 0]
  /\ posted = [p \in PrgThread |-> 0]
  /\ rxCq = [p \in PrgThread |-> 0]
  /\ net = [p \in PrgThread |-> 0]

-----------------------------------------------------------------------------
(* Process start and end: main. *)

(* Mutant: does not wait for thread_started. *)
MainRunEarly(r) ==
  /\ mainPc[r] = "spawn"
  /\ mainPc' = [mainPc EXCEPT ![r] = "team"]
  /\ UNCHANGED <<runVars, thread_stop, workVars, syncs, prgVars, netVars>>

(* The progress threads are started one by one and main waits until all of *)
(* them have set thread_started (300-304) before it runs the workers.      *)
MainRun(r) ==
  /\ mainPc[r] = "spawn"
  /\ \A id \in ProgressId : prgPc[<<r, id>>] # "start"
  /\ mainPc' = [mainPc EXCEPT ![r] = "team"]
  /\ UNCHANGED <<runVars, thread_stop, workVars, syncs, prgVars, netVars>>

(* Mutant: does not wait for the end of the parallel region. *)
MainStopEarly(r) ==
  /\ mainPc[r] = "team"
  /\ thread_stop' = [thread_stop EXCEPT ![r] = TRUE]
  /\ mainPc' = [mainPc EXCEPT ![r] = "join"]
  /\ UNCHANGED <<runVars, workVars, syncs, prgVars, netVars>>

(* The parallel region is over when every worker has returned. *)
MainStop(r) ==
  /\ mainPc[r] = "team"
  /\ \A t \in Worker : stage[<<r, t>>] = "exit"
  /\ thread_stop' = [thread_stop EXCEPT ![r] = TRUE]
  /\ mainPc' = [mainPc EXCEPT ![r] = "join"]
  /\ UNCHANGED <<runVars, workVars, syncs, prgVars, netVars>>

(* Join, then destroy the queue pairs, queues and the device.  Receives    *)
(* and completions that are left disappear with their queues.              *)
MainFree(r) ==
  /\ mainPc[r] = "join"
  /\ \A id \in ProgressId : prgPc[<<r, id>>] = "exit"
  /\ mainPc' = [mainPc EXCEPT ![r] = "freed"]
  /\ UNCHANGED <<runVars, thread_stop, workVars, syncs, prgVars, netVars>>

(* comm_free: pmi_barrier, then pmi_finalize. *)
MainFinalize(r) ==
  /\ mainPc[r] = "freed"
  /\ \A q \in Rank : mainPc[q] \in {"freed", "done"}
  /\ mainPc' = [mainPc EXCEPT ![r] = "done"]
  /\ UNCHANGED <<runVars, thread_stop, workVars, syncs, prgVars, netVars>>

-----------------------------------------------------------------------------
(* Workers: RUN_VARY_MSG around the lambda of send_thread or recv_thread. *)

Running(w) == mainPc[w[1]] = "team"

(* reset_counters: only thread 0 does the work, one store after another,   *)
(* first the syncs of all workers, then the indices of all progress        *)
(* threads.                                                                *)
InReset(w) == Running(w) /\ stage[w] \in Reset /\ w[2] = 0
ResetLength == tx_thread_num + rx_thread_num

ResetSync(w) ==
  /\ InReset(w) /\ resetPos[w[1]] < tx_thread_num
  /\ syncs' = [syncs EXCEPT ![<<w[1], resetPos[w[1]]>>] =
                  IF stage[w] = "reset0" THEN 0 ELSE prefilled_work]
  /\ resetPos' = [resetPos EXCEPT ![w[1]] = @ + 1]
  /\ UNCHANGED <<runVars, mainVars, half, prgVars, netVars>>

ResetIdx(w) ==
  /\ InReset(w) /\ resetPos[w[1]] \in tx_thread_num .. ResetLength - 1
  /\ LET id == resetPos[w[1]] - tx_thread_num
     IN  next_worker_idx' = [next_worker_idx EXCEPT ![<<w[1], id>>] = id]
  /\ resetPos' = [resetPos EXCEPT ![w[1]] = @ + 1]
  /\ UNCHANGED <<runVars, mainVars, half, syncs, prgPc, localVars, netVars>>

(* reset_counters has returned, at once in the other threads. *)
EnterBarrier(w) ==
  /\ Running(w)
  /\ InReset(w) => resetPos[w[1]] = ResetLength
  /\ RunEnter(w)
  /\ resetPos' = [resetPos EXCEPT ![w[1]] = IF w[2] = 0 THEN 0 ELSE @]
  /\ UNCHANGED <<mainVars, half, syncs, prgVars, netVars>>

Drive(w) ==
  /\ Running(w)
  /\ RunLeave(w) \/ RunEnterTeam(w) \/ RunLeaveTeam(w) \/ RunReport(w)
  /\ UNCHANGED <<mainVars, workVars, syncs, prgVars, netVars>>

(* isend on queue pair t reaches the progress thread of t's class there. *)
isend(w) ==
  net' = [net EXCEPT ![<<target_rank(w[1]), w[2] % rx_thread_num>>] = @ + 1]

(* A sender's iteration is isend, then TakeSync; a receiver's TakeSync,    *)
(* then isend.  The second half ends the iteration.                        *)
EndHalf(w) ==
  /\ half' = [half EXCEPT ![w] = ~@]
  /\ IF half[w] THEN RunIterate(w) ELSE UNCHANGED runVars

Send(w) ==
  /\ Running(w) /\ InLoop(w)
  /\ half[w] = ~IsSender(w[1])
  /\ isend(w)
  /\ EndHalf(w)
  /\ UNCHANGED <<mainVars, resetPos, syncs, prgVars, posted, rxCq>>

(* while (sync == 0) progress(cq); --sync: nobody else decrements a sync   *)
(* while its worker is in a loop, so test and decrement are one step.      *)
TakeSync(w) ==
  /\ Running(w) /\ InLoop(w)
  /\ half[w] = IsSender(w[1])
  /\ syncs[w] > 0
  /\ syncs' = [syncs EXCEPT ![w] = @ - 1]
  /\ EndHalf(w)
  /\ UNCHANGED <<mainVars, resetPos, prgVars, netVars>>

-----------------------------------------------------------------------------
(* Progress threads: progress_thread(id). *)

(* Mutant: never moves on. *)
incrementWorkerIdxStuck(id, workerIdx) == id

incrementWorkerIdx(id, workerIdx) ==
  IF workerIdx + rx_thread_num >= tx_thread_num THEN id ELSE workerIdx + rx_thread_num

(* First worker of the class, receives posted, thread_started++ (158-168). *)
PrgStart(p) ==
  /\ prgPc[p] = "start"
  /\ next_worker_idx' = [next_worker_idx EXCEPT ![p] = p[2]]
  /\ posted' = [posted EXCEPT ![p] = NUM_PREPOST_RECV]
  /\ prgPc' = [prgPc EXCEPT ![p] = "poll"]
  /\ UNCHANGED <<runVars, mainVars, workVars, syncs, localVars, rxCq, net>>

(* progress(rx_cq) finds nothing, and the thread polls again. *)
PrgPollEmpty(p) ==
  /\ prgPc[p] = "poll" /\ ~thread_stop[p[1]]
  /\ rxCq[p] = 0
  /\ UNCHANGED vars

(* progress(rx_cq) takes up to numToPoll completions. *)
PrgPoll(p) ==
  /\ prgPc[p] = "poll" /\ ~thread_stop[p[1]]
  /\ rxCq[p] > 0
  /\ LET n == IF rxCq[p] < numToPoll THEN rxCq[p] ELSE numToPoll
     IN  /\ numRecvCompleted' = [numRecvCompleted EXCEPT ![p] = n]
         /\ rxCq' = [rxCq EXCEPT ![p] = @ - n]
  /\ prgPc' = [prgPc EXCEPT ![p] = "load"]
  /\ UNCHANGED <<runVars, mainVars, workVars, syncs, dispatched, worker_idx,
                 next_worker_idx, posted, net>>

(* worker_idx = next_worker_idx *)
PrgLoad(p) ==
  /\ prgPc[p] = "load"
  /\ worker_idx' = [worker_idx EXCEPT ![p] = next_worker_idx[p]]
  /\ prgPc' = [prgPc EXCEPT ![p] = "store"]
  /\ UNCHANGED <<runVars, mainVars, workVars, syncs, numRecvCompleted,
                 dispatched, next_worker_idx, netVars>>

(* incrementWorkerIdx(id, next_worker_idx): next_worker_idx is a plain     *)
(* variable that reset_counters may have stored to since the load, and     *)
(* the build may use the loaded value again or load it anew.               *)
PrgStore(p) ==
  /\ prgPc[p] = "store"
  /\ \E base \in {worker_idx[p], next_worker_idx[p]} :
       next_worker_idx' = [next_worker_idx EXCEPT ![p] = incrementWorkerIdx(p[2], base)]
  /\ prgPc' = [prgPc EXCEPT ![p] = "signal"]
  /\ UNCHANGED <<runVars, mainVars, workVars, syncs, localVars, netVars>>

(* Mutant: signals one worker per poll, however many completions came. *)
PrgSignalOnce(p) ==
  /\ prgPc[p] = "signal"
  /\ syncs' = [syncs EXCEPT ![<<p[1], worker_idx[p]>>] = @ + 1]
  /\ dispatched' = [dispatched EXCEPT ![p] = @ + 1]
  /\ prgPc' = [prgPc EXCEPT ![p] = "refill"]
  /\ UNCHANGED <<runVars, mainVars, workVars, numRecvCompleted, worker_idx,
                 next_worker_idx, netVars>>

(* ++syncs[worker_idx].sync, and on to the next completion. *)
PrgSignal(p) ==
  /\ prgPc[p] = "signal"
  /\ syncs' = [syncs EXCEPT ![<<p[1], worker_idx[p]>>] = @ + 1]
  /\ dispatched' = [dispatched EXCEPT ![p] = @ + 1]
  /\ prgPc' = [prgPc EXCEPT ![p] = IF dispatched[p] + 1 < numRecvCompleted[p]
                                   THEN "load" ELSE "refill"]
  /\ UNCHANGED <<runVars, mainVars, workVars, numRecvCompleted, worker_idx,
                 next_worker_idx, netVars>>

(* Mutant: posts one receive per poll. *)
PrgRefillOne(p) ==
  /\ prgPc[p] = "refill"
  /\ posted' = [posted EXCEPT ![p] = @ + 1]
  /\ numRecvCompleted' = [numRecvCompleted EXCEPT ![p] = 0]
  /\ dispatched' = [dispatched EXCEPT ![p] = 0]
  /\ worker_idx' = [worker_idx EXCEPT ![p] = p[2]]
  /\ prgPc' = [prgPc EXCEPT ![p] = "poll"]
  /\ UNCHANGED <<runVars, mainVars, workVars, syncs, next_worker_idx, rxCq,
                 net>>

(* Mutant: the receives are not posted again. *)
PrgRefillNone(p) ==
  /\ prgPc[p] = "refill"
  /\ numRecvCompleted' = [numRecvCompleted EXCEPT ![p] = 0]
  /\ dispatched' = [dispatched EXCEPT ![p] = 0]
  /\ worker_idx' = [worker_idx EXCEPT ![p] = p[2]]
  /\ prgPc' = [prgPc EXCEPT ![p] = "poll"]
  /\ UNCHANGED <<runVars, mainVars, workVars, syncs, next_worker_idx, netVars>>

(* irecv of as many receives as were completed.  The locals are dead until *)
(* the next poll and are cleared, so that they do not tell states apart.   *)
PrgRefill(p) ==
  /\ prgPc[p] = "refill"
  /\ posted' = [posted EXCEPT ![p] = @ + numRecvCompleted[p]]
  /\ numRecvCompleted' = [numRecvCompleted EXCEPT ![p] = 0]
  /\ dispatched' = [dispatched EXCEPT ![p] = 0]
  /\ worker_idx' = [worker_idx EXCEPT ![p] = p[2]]
  /\ prgPc' = [prgPc EXCEPT ![p] = "poll"]
  /\ UNCHANGED <<runVars, mainVars, workVars, syncs, next_worker_idx, rxCq,
                 net>>

PrgExit(p) ==
  /\ prgPc[p] = "poll" /\ thread_stop[p[1]]
  /\ prgPc' = [prgPc EXCEPT ![p] = "exit"]
  /\ UNCHANGED <<runVars, mainVars, workVars, syncs, localVars,
                 next_worker_idx, netVars>>

(* The adapter: a message takes a posted receive and becomes a completion. *)
(* Without a posted receive the sender's adapter retries for ever          *)
(* (rnr_retry = 7).                                                        *)
Deliver(p) ==
  /\ net[p] > 0 /\ posted[p] > 0
  /\ mainPc[p[1]] \notin {"freed", "done"}
  /\ net' = [net EXCEPT ![p] = @ - 1]
  /\ posted' = [posted EXCEPT ![p] = @ - 1]
  /\ rxCq' = [rxCq EXCEPT ![p] = @ + 1]
  /\ UNCHANGED <<runVars, mainVars, workVars, syncs, prgPc, localVars,
                 next_worker_idx>>

-----------------------------------------------------------------------------
MainStep(r) == MainRun(r) \/ MainStop(r) \/ MainFree(r) \/ MainFinalize(r)

WorkerStep(w) ==
  \/ ResetSync(w) \/ ResetIdx(w)
  \/ EnterBarrier(w) \/ Drive(w)
  \/ Send(w) \/ TakeSync(w)

PrgStep(p) ==
  \/ PrgStart(p) \/ PrgPollEmpty(p) \/ PrgPoll(p)
  \/ PrgLoad(p) \/ PrgStore(p) \/ PrgSignal(p)
  \/ PrgRefill(p) \/ PrgExit(p)

AllDone == \A r \in Rank : mainPc[r] = "done"

(* Every process has returned from main. *)
Finished == AllDone /\ UNCHANGED vars

Next ==
  \/ \E r \in Rank : MainStep(r)
  \/ \E w \in Thread : WorkerStep(w)
  \/ \E p \in PrgThread : PrgStep(p) \/ Deliver(p)
  \/ Finished

(* The scheduler suspends no thread for ever and the adapter keeps delivering. *)
Fairness ==
  /\ \A r \in Rank : WF_vars(MainStep(r))
  /\ \A w \in Thread : WF_vars(WorkerStep(w))
  /\ \A p \in PrgThread : WF_vars(PrgStep(p)) /\ WF_vars(Deliver(p))

Spec == Init /\ [][Next]_vars
FairSpec == Spec /\ Fairness

-----------------------------------------------------------------------------
(* Properties that hold for every value of the constants; they are proved  *)
(* in PingpongPrgProofs.tla.                                               *)

PrgPc == {"start", "poll", "load", "store", "signal", "refill", "exit"}

(* Type invariant. *)
TypeOK ==
  /\ RunTypeOK
  /\ mainPc \in [Rank -> {"spawn", "team", "join", "freed", "done"}]
  /\ thread_stop \in [Rank -> BOOLEAN]
  /\ half \in [Thread -> BOOLEAN]
  /\ resetPos \in [Rank -> 0 .. ResetLength]
  /\ syncs \in [Thread -> Nat]
  /\ prgPc \in [PrgThread -> PrgPc]
  /\ numRecvCompleted \in [PrgThread -> Nat]
  /\ dispatched \in [PrgThread -> Nat]
  /\ worker_idx \in [PrgThread -> Worker]
  /\ next_worker_idx \in [PrgThread -> Worker]
  /\ posted \in [PrgThread -> Nat]
  /\ rxCq \in [PrgThread -> Nat]
  /\ net \in [PrgThread -> Nat]

(* Receives are never lost or duplicated: once a progress thread runs,     *)
(* posted receives, completions in its queue and completions in its hands  *)
(* are NUM_PREPOST_RECV together, so neither the shared receive queue nor  *)
(* the completion queue (both sized RX_QUEUE_LEN) can overrun.             *)
RecvBudget ==
  \A p \in PrgThread :
    prgPc[p] # "start" => posted[p] + rxCq[p] + numRecvCompleted[p] = NUM_PREPOST_RECV

(* A progress thread only ever signals workers of its own class, whatever  *)
(* reset_counters does to next_worker_idx in the middle of a dispatch.     *)
OwnClass ==
  \A p \in PrgThread :
    /\ prgPc[p] # "start" => next_worker_idx[p] % rx_thread_num = p[2]
    /\ prgPc[p] \in {"store", "signal"} => worker_idx[p] % rx_thread_num = p[2]

(* Nobody sends before every progress thread of every process has posted   *)
(* its receives.                                                           *)
ReceiversReady ==
  (\E w \in Thread : stage[w] \in Loop) => \A p \in PrgThread : prgPc[p] # "start"

(* A process destroys its queue pairs only when no worker of any process   *)
(* will send or wait again.                                                *)
FreeSafe ==
  \A r \in Rank : mainPc[r] \in {"freed", "done"} =>
    \A w \in Thread : stage[w] \in {"bar4", "exit"}

(* Every process returns from main: no worker waits for ever for a sync,   *)
(* a barrier or a message.                                                 *)
Termination == <>AllDone

-----------------------------------------------------------------------------
(* The inductive invariant behind the properties above. *)

(* Workers run between thread_run and its end; main frees nothing earlier. *)
MainPhases ==
  \A r \in Rank :
    /\ mainPc[r] = "spawn" => \A w \in Thread : w[1] = r => stage[w] = "reset0" /\ sizeIdx[w] = 0
    /\ mainPc[r] # "spawn" => \A p \in PrgThread : p[1] = r => prgPc[p] # "start"
    /\ mainPc[r] \in {"join", "freed", "done"} =>
         \A w \in Thread : w[1] = r => stage[w] = "exit"

(* A progress thread holds completions only while it dispatches them. *)
DispatchPhases ==
  \A p \in PrgThread :
    /\ prgPc[p] = "start" => posted[p] = 0 /\ rxCq[p] = 0
    /\ prgPc[p] \in {"start", "poll", "exit"} => numRecvCompleted[p] = 0

IInv ==
  /\ TypeOK /\ RunInv
  /\ MainPhases /\ DispatchPhases
  /\ RecvBudget /\ OwnClass
=============================================================================
