--------------------------- MODULE PingpongSymUcx ---------------------------
(***************************************************************************)
(* The symmetric ping-pong over UCX                                        *)
(* (src/benchmark/pingpong_sym_ucx.cpp, src/include/bench_ucx.hpp): there  *)
(* are no progress threads, a worker calls uct_worker_progress itself, and *)
(* recv_msg_cb runs inside that call, in the worker's own thread: in the   *)
(* loop that waits for a message, and in isend_tag after every attempt to  *)
(* send.  Worker t of a process exchanges messages with worker t of the    *)
(* partner.  The start-up is UcxStart.tla with one context per worker.     *)
(***************************************************************************)
EXTENDS RunVaryMsg, Sequences

CONSTANTS TxQueue,                 \* sends an endpoint takes before NO_RESOURCE
          AddrWord, epAddr, None   \* of UcxStart

ASSUME SymUcxAssumption ==
  /\ Size % 2 = 0
  /\ TxQueue \in Nat \ {0}

target_rank(r) == (r + Size \div 2) % Size
IsSender(r) == r < Size \div 2
Partner(w) == <<target_rank(w[1]), w[2]>>

(* The contexts of main, one per worker with one endpoint, and its connects. *)
Ctxs == [k \in 1 .. tx_thread_num |-> <<"w", k - 1>>]
EpCount == [c \in {"w"} \X Worker |-> 1]
WorkerEp(t) == <<<<"w", t>>, 1>>

(* Mutant: the workers are connected crosswise. *)
LinksTurned ==
  [k \in 1 .. tx_thread_num |-> <<WorkerEp(k - 1), WorkerEp(k % tx_thread_num)>>]

Links == [k \in 1 .. tx_thread_num |-> <<WorkerEp(k - 1), WorkerEp(k - 1)>>]

VARIABLES
  start, ctx, item, kvs, peer, dest, pmiIn, pmiOut,   \* of UcxStart
  mainPc,             \* [Rank]: where main is after the start-up
  handlers,           \* [Rank]: workers whose handler has been set
  half,               \* [Thread]: TRUE between the two halves of the lambda f
  resetPos,           \* [Rank]: stores thread 0 has done in reset_counters
  syncs,              \* [Thread]: messages called back for, not yet taken
  net,                \* [Thread]: messages of the worker on their way
  slots,              \* [Thread]: sends that hold a slot of the endpoint
  completed,          \* [Thread]: those whose completion progress will find
  arrived             \* [Thread]: messages uct_worker_progress will find

Start == INSTANCE UcxStart

startVars == <<start, ctx, item, kvs, peer, dest, pmiIn, pmiOut>>
mainVars == <<mainPc, handlers>>
workVars == <<half, resetPos>>
netVars == <<net, slots, completed, arrived>>
vars == <<startVars, runVars, mainVars, workVars, syncs, netVars>>

ASSUME AddrAssumption ==
  /\ AddrWord \in Nat \ {0} /\ None \notin Int
  /\ epAddr \in [Rank -> [Start!Item -> 0 .. AddrWord - 1]]

Init ==
  /\ Start!Init
  /\ RunInit
  /\ mainPc = [r \in Rank |-> "handlers"]
  /\ handlers = [r \in Rank |-> {}]
  /\ half = [w \in Thread |-> FALSE]
  /\ resetPos = [r \in Rank |-> 0]
  /\ syncs = [w \in Thread |-> 0]
  /\ net = [w \in Thread |-> 0]
  /\ slots = [w \in Thread |-> 0]
  /\ completed = [w \in Thread |-> 0]
  /\ arrived = [w \in Thread |-> 0]

-----------------------------------------------------------------------------
(* main: the contexts, their addresses, the connects and a pmi_barrier ... *)
MainStart(r) ==
  /\ Start!StartStep(r)
  /\ UNCHANGED <<runVars, mainVars, workVars, syncs, netVars>>

(* ... uct_iface_set_am_handler for one worker after the other ... *)
MainHandler(r) ==
  /\ start[r] = "started" /\ mainPc[r] = "handlers"
  /\ \E t \in Worker \ handlers[r] :
       /\ \A j \in Worker \ handlers[r] : t <= j
       /\ handlers' = [handlers EXCEPT ![r] = @ \cup {t}]
  /\ UNCHANGED <<startVars, runVars, mainPc, workVars, syncs, netVars>>

(* ... the syncs, which are zero already, and the team of workers. *)
MainRun(r) ==
  /\ mainPc[r] = "handlers" /\ handlers[r] = Worker
  /\ mainPc' = [mainPc EXCEPT ![r] = "team"]
  /\ UNCHANGED <<startVars, runVars, handlers, workVars, syncs, netVars>>

(* The parallel region is over when every worker has returned. *)
MainLeave(r) ==
  /\ mainPc[r] = "team"
  /\ \A t \in Worker : stage[<<r, t>>] = "exit"
  /\ mainPc' = [mainPc EXCEPT ![r] = "leave"]
  /\ UNCHANGED <<startVars, runVars, handlers, workVars, syncs, netVars>>

(* comm_free: pmi_barrier, then pmi_finalize; the endpoints are not        *)
(* destroyed before the process ends.                                      *)
MainFinalize(r) ==
  /\ mainPc[r] = "leave"
  /\ \A q \in Rank : mainPc[q] \in {"leave", "done"}
  /\ mainPc' = [mainPc EXCEPT ![r] = "done"]
  /\ UNCHANGED <<startVars, runVars, handlers, workVars, syncs, netVars>>

-----------------------------------------------------------------------------
(* Workers: RUN_VARY_MSG around the lambda of send_thread or recv_thread. *)

Running(w) == mainPc[w[1]] = "team"

(* reset_counters: only thread 0 stores, the syncs of all workers one      *)
(* after another; prefilled_work is 0 in this benchmark.                   *)
InReset(w) == Running(w) /\ stage[w] \in Reset /\ w[2] = 0

ResetSync(w) ==
  /\ InReset(w) /\ resetPos[w[1]] < tx_thread_num
  /\ syncs' = [syncs EXCEPT ![<<w[1], resetPos[w[1]]>>] = 0]
  /\ resetPos' = [resetPos EXCEPT ![w[1]] = @ + 1]
  /\ UNCHANGED <<startVars, runVars, mainVars, half, netVars>>

(* reset_counters has returned, at once in the other threads. *)
EnterBarrier(w) ==
  /\ Running(w)
  /\ InReset(w) => resetPos[w[1]] = tx_thread_num
  /\ RunEnter(w)
  /\ resetPos' = [resetPos EXCEPT ![w[1]] = IF w[2] = 0 THEN 0 ELSE @]
  /\ UNCHANGED <<startVars, mainVars, half, syncs, netVars>>

Drive(w) ==
  /\ Running(w)
  /\ RunLeave(w) \/ RunEnterTeam(w) \/ RunLeaveTeam(w) \/ RunReport(w)
  /\ UNCHANGED <<startVars, mainVars, workVars, syncs, netVars>>

(* A sender's iteration is isend_tag, then TakeSync; a receiver's TakeSync,*)
(* then isend_tag.  The second half ends the iteration.                    *)
EndHalf(w) ==
  /\ half' = [half EXCEPT ![w] = ~@]
  /\ IF half[w] THEN RunIterate(w) ELSE UNCHANGED runVars

Sending(w) == Running(w) /\ InLoop(w) /\ half[w] = ~IsSender(w[1])
Waiting(w) == Running(w) /\ InLoop(w) /\ half[w] = IsSender(w[1])
HasRoom(w) == slots[w] < TxQueue

(* uct_worker_progress, after sent sends, finds n messages, calls          *)
(* recv_msg_cb for each, which increments the worker's sync, and frees the *)
(* slots of the sends whose completion it finds.                           *)
progress(w, n, sent) ==
  /\ n \in 0 .. arrived[w]
  /\ arrived' = [arrived EXCEPT ![w] = @ - n]
  /\ syncs' = [syncs EXCEPT ![w] = @ + n]
  /\ slots' = [slots EXCEPT ![w] = @ + sent - completed[w]]
  /\ completed' = [completed EXCEPT ![w] = 0]

(* isend_am_short or isend_am_bcopy: the transport takes the message. *)
Send(w) ==
  /\ Sending(w) /\ HasRoom(w)
  /\ net' = [net EXCEPT ![w] = @ + 1]
  /\ \E n \in 0 .. arrived[w] : progress(w, n, 1)
  /\ EndHalf(w)
  /\ UNCHANGED <<startVars, mainVars, resetPos>>

(* Mutant: the loop does not progress. *)
SendRetryIdle(w) ==
  /\ Sending(w) /\ ~HasRoom(w)
  /\ UNCHANGED vars

(* UCS_ERR_NO_RESOURCE: progress and try again. *)
SendRetry(w) ==
  /\ Sending(w) /\ ~HasRoom(w)
  /\ \E n \in 0 .. arrived[w] : progress(w, n, 0)
  /\ UNCHANGED <<startVars, runVars, mainVars, workVars, net>>

(* while (sync == 0) uct_worker_progress. *)
Poll(w) ==
  /\ Waiting(w) /\ syncs[w] = 0
  /\ \E n \in 0 .. arrived[w] : (arrived[w] > 0 => n > 0) /\ progress(w, n, 0)
  /\ UNCHANGED <<startVars, runVars, mainVars, workVars, net>>

(* Mutant: the message is not taken off the count. *)
TakeSyncKeep(w) ==
  /\ Waiting(w) /\ syncs[w] > 0
  /\ EndHalf(w)
  /\ UNCHANGED <<startVars, mainVars, resetPos, syncs, netVars>>

(* --sync: no other thread touches the sync of a worker that is in a loop. *)
TakeSync(w) ==
  /\ Waiting(w) /\ syncs[w] > 0
  /\ syncs' = [syncs EXCEPT ![w] = @ - 1]
  /\ EndHalf(w)
  /\ UNCHANGED <<startVars, mainVars, resetPos, netVars>>

(* The transport delivers. *)
Arrive(w) ==
  /\ net[w] > 0
  /\ mainPc[target_rank(w[1])] # "done"
  /\ net' = [net EXCEPT ![w] = @ - 1]
  /\ arrived' = [arrived EXCEPT ![Partner(w)] = @ + 1]
  /\ UNCHANGED <<startVars, runVars, mainVars, workVars, syncs, slots, completed>>

(* A send that was delivered completes, before or after the partner        *)
(* answers.                                                                *)
Complete(w) ==
  /\ net[w] + completed[w] < slots[w]
  /\ completed' = [completed EXCEPT ![w] = @ + 1]
  /\ UNCHANGED <<startVars, runVars, mainVars, workVars, syncs, net, slots, arrived>>

-----------------------------------------------------------------------------
MainStep(r) == MainStart(r) \/ MainHandler(r) \/ MainRun(r) \/ MainLeave(r) \/ MainFinalize(r)

WorkerStep(w) ==
  \/ ResetSync(w) \/ EnterBarrier(w) \/ Drive(w)
  \/ Send(w) \/ SendRetry(w) \/ Poll(w) \/ TakeSync(w)

AllDone == \A r \in Rank : mainPc[r] = "done"
Finished == AllDone /\ UNCHANGED vars

Next ==
  \/ \E r \in Rank : MainStep(r)
  \/ \E w \in Thread : WorkerStep(w) \/ Arrive(w) \/ Complete(w)
  \/ Finished

(* The scheduler suspends no thread for ever; the transport keeps going. *)
Fairness ==
  /\ \A r \in Rank : WF_vars(MainStep(r))
  /\ \A w \in Thread : WF_vars(WorkerStep(w)) /\ WF_vars(Arrive(w)) /\ WF_vars(Complete(w))

Spec == Init /\ [][Next]_vars
FairSpec == Spec /\ Fairness

-----------------------------------------------------------------------------
WorkTypeOK ==
  /\ RunTypeOK
  /\ mainPc \in [Rank -> {"handlers", "team", "leave", "done"}]
  /\ handlers \in [Rank -> SUBSET Worker]
  /\ half \in [Thread -> BOOLEAN]
  /\ resetPos \in [Rank -> 0 .. tx_thread_num]
  /\ syncs \in [Thread -> Nat]
  /\ net \in [Thread -> Nat]
  /\ slots \in [Thread -> Nat]
  /\ completed \in [Thread -> Nat]
  /\ arrived \in [Thread -> Nat]

TypeOK == Start!TypeOK /\ WorkTypeOK

(* The endpoint of each worker is connected to that of the same worker of  *)
(* the partner process by the time the process starts its workers, and     *)
(* that one back to it.                                                    *)
Wired ==
  /\ Start!Wired
  /\ \A w \in Thread : start[w[1]] = "started" =>
       dest[w[1]][WorkerEp(w[2])] = Start!Address(Partner(w)[1], WorkerEp(w[2]))

(* A message that reaches an interface without a handler is dropped, and   *)
(* the worker it was for waits for ever.  main sets the handlers after its *)
(* last pmi_barrier, so that only the first proc_barrier of the driver     *)
(* makes the partner wait for them.                                        *)
HandlerFirst ==
  \A w \in Thread : net[w] > 0 \/ arrived[Partner(w)] > 0 =>
    Partner(w)[2] \in handlers[Partner(w)[1]]

(* A worker whose next step in a loop is isend_tag has the turn. *)
Turn(w) == IF half[w] = ~IsSender(w[1]) THEN 1 ELSE 0
Holds(w) == Turn(w) + net[w] + arrived[w] + syncs[w]

(* Between two partner workers there is exactly one of: a turn to send, a  *)
(* message on its way, a message the callback has counted.  It survives    *)
(* retried sends, callbacks inside isend_tag, and thread 0 overwriting all *)
(* syncs between two loops.                                                *)
OneBall == \A w \in Thread : Holds(w) + Holds(Partner(w)) = 1

(* reset_counters stores 0 into the syncs of all workers of the process:   *)
(* no message for them is under way, uncalled or untaken at that moment.   *)
(* Before the first reset of a message size there is only a thread_barrier *)
(* of the process's own team.                                              *)
QuietAtReset ==
  \A w \in Thread : stage[<<w[1], 0>>] \in Reset =>
    syncs[w] = 0 /\ arrived[w] = 0 /\ net[Partner(w)] = 0

(* Every process returns from main, although a worker that waits for room  *)
(* or for a message is served by no thread but itself.                     *)
Termination == <>AllDone

-----------------------------------------------------------------------------
(* The inductive invariant behind the safety properties. *)

(* Main and its workers; a worker is between two halves only in a loop. *)
Phases ==
  /\ \A r \in Rank : mainPc[r] # "handlers" => handlers[r] = Worker
  /\ \A w \in Thread :
       /\ mainPc[w[1]] = "handlers" => stage[w] = "reset0" /\ sizeIdx[w] = 0
       /\ half[w] => InLoop(w)
       /\ LoopBounded(w)

(* Sends that hold a slot are under way, complete, or neither yet. *)
Room == \A w \in Thread : net[w] + completed[w] <= slots[w]

(* The messages a worker has sent and taken since it began. *)
Sent(w) == Done(w) + (IF half[w] /\ IsSender(w[1]) THEN 1 ELSE 0)
Taken(w) == Done(w) + (IF half[w] /\ ~IsSender(w[1]) THEN 1 ELSE 0)

(* No message is lost or made up: what a worker has sent, its partner has  *)
(* taken, counted or not yet found.                                        *)
Flow ==
  \A w \in Thread :
    Sent(w) = Taken(Partner(w)) + net[w] + arrived[Partner(w)] + syncs[Partner(w)]

WorkInv == WorkTypeOK /\ RunInv /\ Phases /\ Room /\ Flow
=============================================================================
