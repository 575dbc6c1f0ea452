--------------------------- MODULE PingpongPrgUcx ---------------------------
(***************************************************************************)
(* The progress-thread ping-pong over UCX                                  *)
(* (src/benchmark/pingpong_prg_ucx.cpp, src/include/bench_ucx.hpp).  Its   *)
(* start-up is UcxStart.tla with a context for every progress thread and   *)
(* every worker.  It differs from pingpong_prg in what moves a message:    *)
(* isend_tag retries until the transport has room, and the progress thread *)
(* does nothing but uct_worker_progress, which calls recv_msg_cb for every *)
(* message.  The callback signals the worker first and moves the shared    *)
(* index on afterwards.                                                    *)
(*                                                                         *)
(* Worker t sends over an endpoint of its own to progress thread           *)
(* t % rx_thread_num of the partner process, with that number as the       *)
(* active-message id.  Messages are numbers, as in PingpongPrg.tla.        *)
(***************************************************************************)
EXTENDS RunVaryMsg, Sequences, UcxLinks

CONSTANTS rx_thread_num,
          prefilled_work,
          TxQueue,            \* sends an endpoint takes before NO_RESOURCE
          AddrWord, epAddr, None,  \* of UcxStart
          MaxWorkers               \* numbers of workers the connects are tried with

ASSUME UcxAssumption ==
  /\ rx_thread_num \in Nat \ {0}
  /\ tx_thread_num % rx_thread_num = 0     \* checked by main, 243-246
  /\ prefilled_work \in Nat
  /\ TxQueue \in Nat \ {0}
  /\ MaxWorkers \in Nat

ProgressId == 0 .. rx_thread_num - 1
PrgThread == Rank \X ProgressId     \* a progress thread: <<rank, id>>

target_rank(r) == (r + Size \div 2) % Size
IsSender(r) == r < Size \div 2
Dest(w) == <<target_rank(w[1]), w[2] % rx_thread_num>>

(* What main gives to UcxStart. *)
Ctxs == PrgCtxs(tx_thread_num, rx_thread_num)
EpCount == PrgEpCount(tx_thread_num, rx_thread_num)
Links == PrgLinks(tx_thread_num, rx_thread_num)

VARIABLES
  start, ctx, item, kvs, peer, dest, pmiIn, pmiOut,   \* of UcxStart
  mainPc,             \* [Rank]: where main is after the start-up
  handlers,           \* [Rank]: ids whose handler has been set
  thread_stop,        \* [Rank]
  half,               \* [Thread]: TRUE between the two halves of the lambda f
  resetPos,           \* [Rank]: stores thread 0 has done in reset_counters
  syncs,              \* [Thread]: messages handed to the worker, not yet taken
  prgPc,              \* [PrgThread]: where the progress thread is
  worker_num,         \* [PrgThread]: the index as the callback has loaded it
  next_worker_idx,    \* [PrgThread]: shared with reset_counters
  net,                \* [Thread]: messages of the worker on their way
  unreaped,           \* [Thread]: sends that are over but still hold their slot
  arrived             \* [PrgThread]: messages uct_worker_progress will find

Start == INSTANCE UcxStart
StartOf(tx, rx) == INSTANCE UcxStart WITH
  Ctxs <- PrgCtxs(tx, rx), EpCount <- PrgEpCount(tx, rx), Links <- PrgLinks(tx, rx)

startVars == <<start, ctx, item, kvs, peer, dest, pmiIn, pmiOut>>
mainVars == <<mainPc, handlers, thread_stop>>
workVars == <<half, resetPos>>
prgVars == <<prgPc, worker_num, next_worker_idx>>
netVars == <<net, unreaped, arrived>>
vars == <<startVars, runVars, mainVars, workVars, syncs, prgVars, netVars>>

ASSUME AddrAssumption ==
  /\ AddrWord \in Nat \ {0} /\ None \notin Int
  /\ epAddr \in [Rank -> [Start!Item -> 0 .. AddrWord - 1]]

Init ==
  /\ Start!Init
  /\ RunInit
  /\ mainPc = [r \in Rank |-> "handlers"]
  /\ handlers = [r \in Rank |-> {}]
  /\ thread_stop = [r \in Rank |-> FALSE]
  /\ half = [w \in Thread |-> FALSE]
  /\ resetPos = [r \in Rank |-> 0]
  /\ syncs = [w \in Thread |-> 0]
  /\ prgPc = [p \in PrgThread |-> "start"]
  /\ worker_num = [p \in PrgThread |-> p[2]]
  /\ next_worker_idx = [p \in PrgThread |-> p[2]]
  /\ net = [w \in Thread |-> 0]
  /\ unreaped = [w \in Thread |-> 0]
  /\ arrived = [p \in PrgThread |-> 0]

-----------------------------------------------------------------------------
(* main: the contexts, their addresses, the connects and a pmi_barrier ... *)
MainStart(r) ==
  /\ Start!StartStep(r)
  /\ UNCHANGED <<runVars, mainVars, workVars, syncs, prgVars, netVars>>

(* ... and what follows. *)
Started(r) == start[r] = "started"

(* uct_iface_set_am_handler for one progress thread after the other. *)
MainHandler(r) ==
  /\ Started(r) /\ mainPc[r] = "handlers" /\ handlers[r] # ProgressId
  /\ LET id == CHOOSE i \in ProgressId \ handlers[r] : \A j \in ProgressId \ handlers[r] : i <= j
     IN  handlers' = [handlers EXCEPT ![r] = @ \cup {id}]
  /\ UNCHANGED <<startVars, runVars, mainPc, thread_stop, workVars, syncs, prgVars, netVars>>

(* The progress threads are created. *)
MainSpawn(r) ==
  /\ mainPc[r] = "handlers" /\ handlers[r] = ProgressId
  /\ mainPc' = [mainPc EXCEPT ![r] = "spawn"]
  /\ UNCHANGED <<startVars, runVars, handlers, thread_stop, workVars, syncs, prgVars, netVars>>

(* main waits for thread_started to reach rx_thread_num. *)
MainRun(r) ==
  /\ mainPc[r] = "spawn"
  /\ \A id \in ProgressId : prgPc[<<r, id>>] # "start"
  /\ mainPc' = [mainPc EXCEPT ![r] = "team"]
  /\ UNCHANGED <<startVars, runVars, handlers, thread_stop, workVars, syncs, prgVars, netVars>>

(* The parallel region is over when every worker has returned. *)
MainStop(r) ==
  /\ mainPc[r] = "team"
  /\ \A t \in Worker : stage[<<r, t>>] = "exit"
  /\ thread_stop' = [thread_stop EXCEPT ![r] = TRUE]
  /\ mainPc' = [mainPc EXCEPT ![r] = "join"]
  /\ UNCHANGED <<startVars, runVars, handlers, workVars, syncs, prgVars, netVars>>

(* Join; the endpoints are not destroyed before the process ends. *)
MainJoin(r) ==
  /\ mainPc[r] = "join"
  /\ \A id \in ProgressId : prgPc[<<r, id>>] = "exit"
  /\ mainPc' = [mainPc EXCEPT ![r] = "leave"]
  /\ UNCHANGED <<startVars, runVars, handlers, thread_stop, workVars, syncs, prgVars, netVars>>

(* comm_free: pmi_barrier, then pmi_finalize. *)
MainFinalize(r) ==
  /\ mainPc[r] = "leave"
  /\ \A q \in Rank : mainPc[q] \in {"leave", "done"}
  /\ mainPc' = [mainPc EXCEPT ![r] = "done"]
  /\ UNCHANGED <<startVars, runVars, handlers, thread_stop, workVars, syncs, prgVars, netVars>>

-----------------------------------------------------------------------------
(* Workers: RUN_VARY_MSG around the lambda of send_thread or recv_thread. *)

Running(w) == mainPc[w[1]] = "team"

(* reset_counters: only thread 0 does the work, one store after another,   *)
(* first the syncs of all workers, then the indices of all progress        *)
(* threads.                                                                *)
InReset(w) == Running(w) /\ stage[w] \in Reset /\ w[2] = 0
ResetLength == tx_thread_num + rx_thread_num

ResetSync(w) ==
  /\ InReset(w) /\ resetPos[w[1]] < tx_thread_num
  /\ syncs' = [syncs EXCEPT ![<<w[1], resetPos[w[1]]>>] =
                  IF stage[w] = "reset0" THEN 0 ELSE prefilled_work]
  /\ resetPos' = [resetPos EXCEPT ![w[1]] = @ + 1]
  /\ UNCHANGED <<startVars, runVars, mainVars, half, prgVars, netVars>>

ResetIdx(w) ==
  /\ InReset(w) /\ resetPos[w[1]] \in tx_thread_num .. ResetLength - 1
  /\ LET id == resetPos[w[1]] - tx_thread_num
     IN  next_worker_idx' = [next_worker_idx EXCEPT ![<<w[1], id>>] = id]
  /\ resetPos' = [resetPos EXCEPT ![w[1]] = @ + 1]
  /\ UNCHANGED <<startVars, runVars, mainVars, half, syncs, prgPc, worker_num, netVars>>

(* reset_counters has returned, at once in the other threads. *)
EnterBarrier(w) ==
  /\ Running(w)
  /\ InReset(w) => resetPos[w[1]] = ResetLength
  /\ RunEnter(w)
  /\ resetPos' = [resetPos EXCEPT ![w[1]] = IF w[2] = 0 THEN 0 ELSE @]
  /\ UNCHANGED <<startVars, mainVars, half, syncs, prgVars, netVars>>

Drive(w) ==
  /\ Running(w)
  /\ RunLeave(w) \/ RunEnterTeam(w) \/ RunLeaveTeam(w) \/ RunReport(w)
  /\ UNCHANGED <<startVars, mainVars, workVars, syncs, prgVars, netVars>>

(* A sender's iteration is isend_tag, then TakeSync; a receiver's TakeSync,*)
(* then isend_tag.  The second half ends the iteration.                    *)
EndHalf(w) ==
  /\ half' = [half EXCEPT ![w] = ~@]
  /\ IF half[w] THEN RunIterate(w) ELSE UNCHANGED runVars

Sending(w) == Running(w) /\ InLoop(w) /\ half[w] = ~IsSender(w[1])
HasRoom(w) == net[w] + unreaped[w] < TxQueue

(* isend_am_short or isend_am_bcopy: the transport takes the message; the  *)
(* uct_worker_progress that follows frees the slots of sends that are over.*)
Send(w) ==
  /\ Sending(w) /\ HasRoom(w)
  /\ net' = [net EXCEPT ![w] = @ + 1]
  /\ unreaped' = [unreaped EXCEPT ![w] = 0]
  /\ EndHalf(w)
  /\ UNCHANGED <<startVars, mainVars, resetPos, syncs, prgVars, arrived>>

(* Mutants: the loop does not progress; the message is given up. *)
SendRetryIdle(w) ==
  /\ Sending(w) /\ ~HasRoom(w)
  /\ UNCHANGED vars

SendRetryDrop(w) ==
  /\ Sending(w) /\ ~HasRoom(w)
  /\ unreaped' = [unreaped EXCEPT ![w] = 0]
  /\ EndHalf(w)
  /\ UNCHANGED <<startVars, mainVars, resetPos, syncs, prgVars, net, arrived>>

(* UCS_ERR_NO_RESOURCE: progress and try again. *)
SendRetry(w) ==
  /\ Sending(w) /\ ~HasRoom(w)
  /\ unreaped' = [unreaped EXCEPT ![w] = 0]
  /\ UNCHANGED <<startVars, runVars, mainVars, workVars, syncs, prgVars, net, arrived>>

(* while (sync == 0); --sync: nobody else decrements a sync while its      *)
(* worker is in a loop, so test and decrement are one step.                *)
TakeSync(w) ==
  /\ Running(w) /\ InLoop(w)
  /\ half[w] = IsSender(w[1])
  /\ syncs[w] > 0
  /\ syncs' = [syncs EXCEPT ![w] = @ - 1]
  /\ EndHalf(w)
  /\ UNCHANGED <<startVars, mainVars, resetPos, prgVars, netVars>>

-----------------------------------------------------------------------------
(* Progress threads: uct_worker_progress until thread_stop.  The flag is   *)
(* looked at between two calls, and a call may find any number of messages.*)

PrgStart(p) ==
  /\ prgPc[p] = "start" /\ mainPc[p[1]] = "spawn"
  /\ prgPc' = [prgPc EXCEPT ![p] = "poll"]
  /\ UNCHANGED <<startVars, runVars, mainVars, workVars, syncs, worker_num, next_worker_idx, netVars>>

(* recv_msg_cb is called: bufs[worker_num] is written. *)
CbCopy(p) ==
  /\ prgPc[p] = "poll" /\ arrived[p] > 0
  /\ arrived' = [arrived EXCEPT ![p] = @ - 1]
  /\ worker_num' = [worker_num EXCEPT ![p] = next_worker_idx[p]]
  /\ prgPc' = [prgPc EXCEPT ![p] = "signal"]
  /\ UNCHANGED <<startVars, runVars, mainVars, workVars, syncs, next_worker_idx, net, unreaped>>

(* syncs[worker_num].sync++.  worker_num is a reference to the shared      *)
(* index, which the build may load again or not.                           *)
CbSignal(p) ==
  /\ prgPc[p] = "signal"
  /\ \E t \in {worker_num[p], next_worker_idx[p]} :
       syncs' = [syncs EXCEPT ![<<p[1], t>>] = @ + 1]
  /\ prgPc' = [prgPc EXCEPT ![p] = "advance"]
  /\ UNCHANGED <<startVars, runVars, mainVars, workVars, worker_num, next_worker_idx, netVars>>

(* Mutant: the index is never moved on. *)
advanceStuck(id, n) == id

advance(id, n) == IF n + rx_thread_num >= tx_thread_num THEN id ELSE n + rx_thread_num

(* worker_num += rx_thread_num, and back to the first worker of the class; *)
(* a reset in the middle leaves what a reset after it leaves.  The loaded  *)
(* value is dead afterwards and cleared.                                   *)
CbAdvance(p) ==
  /\ prgPc[p] = "advance"
  /\ \E n \in {worker_num[p], next_worker_idx[p]} :
       next_worker_idx' = [next_worker_idx EXCEPT ![p] = advance(p[2], n)]
  /\ worker_num' = [worker_num EXCEPT ![p] = p[2]]
  /\ prgPc' = [prgPc EXCEPT ![p] = "poll"]
  /\ UNCHANGED <<startVars, runVars, mainVars, workVars, syncs, netVars>>

PrgExit(p) ==
  /\ prgPc[p] = "poll" /\ thread_stop[p[1]]
  /\ prgPc' = [prgPc EXCEPT ![p] = "exit"]
  /\ UNCHANGED <<startVars, runVars, mainVars, workVars, syncs, worker_num, next_worker_idx, netVars>>

(* The transport delivers, and the send is over. *)
Arrive(w) ==
  /\ net[w] > 0
  /\ mainPc[target_rank(w[1])] # "done"
  /\ net' = [net EXCEPT ![w] = @ - 1]
  /\ unreaped' = [unreaped EXCEPT ![w] = @ + 1]
  /\ arrived' = [arrived EXCEPT ![Dest(w)] = @ + 1]
  /\ UNCHANGED <<startVars, runVars, mainVars, workVars, syncs, prgVars>>

-----------------------------------------------------------------------------
MainStep(r) ==
  \/ MainStart(r) \/ MainHandler(r) \/ MainSpawn(r) \/ MainRun(r)
  \/ MainStop(r) \/ MainJoin(r) \/ MainFinalize(r)

WorkerStep(w) ==
  \/ ResetSync(w) \/ ResetIdx(w) \/ EnterBarrier(w) \/ Drive(w)
  \/ Send(w) \/ SendRetry(w) \/ TakeSync(w)

PrgStep(p) == PrgStart(p) \/ CbCopy(p) \/ CbSignal(p) \/ CbAdvance(p) \/ PrgExit(p)

AllDone == \A r \in Rank : mainPc[r] = "done"
Finished == AllDone /\ UNCHANGED vars

Next ==
  \/ \E r \in Rank : MainStep(r)
  \/ \E w \in Thread : WorkerStep(w) \/ Arrive(w)
  \/ \E p \in PrgThread : PrgStep(p)
  \/ Finished

(* The scheduler suspends no thread for ever; the transport keeps delivering. *)
Fairness ==
  /\ \A r \in Rank : WF_vars(MainStep(r))
  /\ \A w \in Thread : WF_vars(WorkerStep(w)) /\ WF_vars(Arrive(w))
  /\ \A p \in PrgThread : WF_vars(PrgStep(p))

Spec == Init /\ [][Next]_vars
FairSpec == Spec /\ Fairness

-----------------------------------------------------------------------------
(* Type invariant. *)
TypeOK ==
  /\ Start!TypeOK
  /\ RunTypeOK
  /\ mainPc \in [Rank -> {"handlers", "spawn", "team", "join", "leave", "done"}]
  /\ handlers \in [Rank -> SUBSET ProgressId]
  /\ thread_stop \in [Rank -> BOOLEAN]
  /\ half \in [Thread -> BOOLEAN]
  /\ resetPos \in [Rank -> 0 .. ResetLength]
  /\ syncs \in [Thread -> Nat]
  /\ prgPc \in [PrgThread -> {"start", "poll", "signal", "advance", "exit"}]
  /\ worker_num \in [PrgThread -> Worker]
  /\ next_worker_idx \in [PrgThread -> Worker]
  /\ net \in [Thread -> 0 .. TxQueue]
  /\ unreaped \in [Thread -> 0 .. TxQueue]
  /\ arrived \in [PrgThread -> Nat]

(* The two loops of main that connect the endpoints fit together for tx    *)
(* workers and rx progress threads: every endpoint is connected once, to   *)
(* one that the other loop connects back to it, and that of worker t to    *)
(* progress thread t % rx.  This depends on no state.                      *)
LoopsFit(tx, rx) ==
  /\ StartOf(tx, rx)!LinksMutual
  /\ \A m \in DOMAIN PrgLinks(tx, rx) : \A t \in 0 .. tx - 1 :
       PrgLinks(tx, rx)[m][1] = WorkerEp(t) => PrgLinks(tx, rx)[m][2][1] = <<"p", t % rx>>
AtStart == \A r \in Rank : start[r] = "init" /\ ctx[r] = 1

(* The endpoints of two partner processes are connected in pairs, and that *)
(* of a worker to the progress thread whose handler its messages name:     *)
(* thread_id % rx_thread_num.  This is what the start-up comes to with the *)
(* threads of this run; that the connects fit together is looked at for    *)
(* every number of workers up to MaxWorkers, and every number of progress  *)
(* threads that main accepts with it.                                      *)
Wired ==
  /\ Start!Wired
  /\ \A w \in Thread : Started(w[1]) =>
       \E i \in 1 .. EpCount[<<"p", Dest(w)[2]>>] :
         dest[w[1]][WorkerEp(w[2])] = Start!Address(Dest(w)[1], <<<<"p", Dest(w)[2]>>, i>>)
  /\ AtStart => \A tx, rx \in 1 .. MaxWorkers : tx % rx = 0 => LoopsFit(tx, rx)

(* An active message whose id has no handler is dropped by the transport:  *)
(* nothing is ever sent to a progress thread whose handler is not set.     *)
(* main sets the handlers after the last pmi_barrier of the start-up, so   *)
(* it is the first proc_barrier of the partner that has to wait for them.  *)
HandlerFirst ==
  /\ \A p \in PrgThread : arrived[p] > 0 => p[2] \in handlers[p[1]]
  /\ \A w \in Thread : net[w] > 0 => Dest(w)[2] \in handlers[Dest(w)[1]]

NoLeftovers == prefilled_work = 0 \/ SizeCount = 1

(* "for all progress thread, reset next worker index to the first worker   *)
(* it handles" (pingpong_prg_ucx.cpp:194): thread 0 is through with the    *)
(* reset, nobody has left the barrier after it, and each next_worker_idx   *)
(* of the process has that value.                                          *)
BeforeLoop(r) ==
  /\ stage[<<r, 0>>] \in {"bar1", "bar3"}
  /\ \A u \in Thread : procOut[u] < procIn[<<r, 0>>]
IndexReset ==
  \A p \in PrgThread : BeforeLoop(p[1]) => next_worker_idx[p] = p[2]

Class(p) == {w \in Thread : w[1] = p[1] /\ w[2] % rx_thread_num = p[2]}
(* Messages handed to w since it began: what it has taken and what waits   *)
(* for it, less the prefilled ones it has been given.                      *)
Given(w) ==
  LET z == stage[<<w[1], 0>>]
  IN  IF \/ z = "resetP" /\ w[2] < resetPos[w[1]]
         \/ z \in {"bar3", "timed", "tbar", "report", "last", "bar4", "exit"}
      THEN prefilled_work ELSE 0
Handed(w) == Done(w) + (IF half[w] /\ ~IsSender(w[1]) THEN 1 ELSE 0) + syncs[w] - Given(w)

(* Round robin: whatever worker a loop starts with, at no time has one of  *)
(* a class been handed two messages more than another.                     *)
FairShare ==
  NoLeftovers =>
    \A p \in PrgThread : \A w, u \in Class(p) : Handed(w) - Handed(u) <= 1

(* A worker holds a token when the next thing it does is send; ClassSum    *)
(* adds up what the workers of p's class hold and what is on its way from  *)
(* them.                                                                   *)
Token(w) == IF half[w] = ~IsSender(w[1]) THEN 1 ELSE 0
ClassSum(p) ==
  LET sum[n \in 0 .. tx_thread_num] ==
        IF n = 0 THEN 0
        ELSE LET w == <<p[1], n - 1>>
             IN  sum[n - 1] + (IF w \in Class(p) THEN syncs[w] + Token(w) + net[w] ELSE 0)
  IN  sum[tx_thread_num]
Tokens(p) == arrived[p] + (IF prgPc[p] = "signal" THEN 1 ELSE 0) + ClassSum(p)
PairTokens(p) == Tokens(p) + Tokens(<<target_rank(p[1]), p[2]>>)
Together(r, stages) ==
  \A w, u \in {v \in Thread : v[1] \in {r, target_rank(r)}} :
    stage[w] \in stages /\ sizeIdx[w] = sizeIdx[u]
LoopTokens(fill) == (tx_thread_num \div rx_thread_num) * (1 + 2 * fill)

(* Messages are neither lost nor made up, retries of isend_tag included:   *)
(* in a loop each class of a pair of processes has one token per sender    *)
(* and the prefilled ones, and leftovers only add to them.                 *)
TokensConserved ==
  \A p \in PrgThread :
    /\ Together(p[1], {"bar1", "warm", "bar2"}) =>
         /\ PairTokens(p) >= LoopTokens(0)
         /\ NoLeftovers => PairTokens(p) = LoopTokens(0)
    /\ Together(p[1], {"bar3", "timed", "tbar"}) =>
         /\ PairTokens(p) >= LoopTokens(prefilled_work)
         /\ NoLeftovers => PairTokens(p) = LoopTokens(prefilled_work)

(* Every process returns from main, although isend_tag waits for room that *)
(* only the worker's own uct_worker_progress makes.                        *)
Termination == <>AllDone
=============================================================================
