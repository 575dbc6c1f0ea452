----------------------------- MODULE PingpongSym -----------------------------
(***************************************************************************)
(* The symmetric ping-pong benchmark (src/benchmark/pingpong_sym.cpp):     *)
(* every worker has a queue pair, a send and a receive completion queue of *)
(* its own, talks to the worker with its number in the partner process     *)
(* only, and drives its own progress.                                      *)
(*                                                                         *)
(* A channel holds at most messages of one worker, all alike, so it is a   *)
(* number of messages.  The adapter acknowledges a message when it has     *)
(* taken a receive, and only the acknowledgement completes the send.       *)
(***************************************************************************)
EXTENDS RunVaryMsg

CONSTANTS RX_QUEUE_LEN,
          numToPoll           \* completions one progress() call takes at most

ASSUME SymAssumption ==
  /\ Size % 2 = 0                          \* processes work in pairs
  /\ RX_QUEUE_LEN \in Nat /\ RX_QUEUE_LEN >= 5
  /\ numToPoll \in Nat \ {0}

NUM_PREPOST_RECV == RX_QUEUE_LEN - 3

target_rank(r) == (r + Size \div 2) % Size
IsSender(r) == r < Size \div 2
Peer(w) == <<target_rank(w[1]), w[2]>>

VARIABLES
  mainPc,       \* [Rank]: where main is
  preposted,    \* [Rank]: workers whose receives main has posted
  op,           \* [Thread]: the call of the lambda that comes next
  posted,       \* [Thread]: posted receives no message has taken
  recvCq,       \* [Thread]: receive completions not yet polled
  sendCq,       \* [Thread]: send completions not yet polled
  net,          \* [Thread]: messages on their way to the worker
  ack           \* [Thread]: acknowledgements on their way to the worker

mainVars == <<mainPc, preposted>>
netVars == <<posted, recvCq, sendCq, net, ack>>
vars == <<runVars, mainVars, op, netVars>>

(* The lambdas of send_thread and recv_thread make the same four calls in  *)
(* the same circular order and start at different ones; waitSend and       *)
(* waitRecv are the loops while (!progress(cq)).                           *)

(* Mutant: does not wait for the completion of the send. *)
FollowsNoWait == [isend |-> "irecv", waitSend |-> "irecv", irecv |-> "waitRecv", waitRecv |-> "isend"]

Follows == [isend |-> "waitSend", waitSend |-> "irecv", irecv |-> "waitRecv", waitRecv |-> "isend"]

(* Mutant: both sides start by receiving. *)
FirstOpRecv(w) == "irecv"

FirstOp(w) == IF IsSender(w[1]) THEN "isend" ELSE "irecv"

Init ==
  /\ RunInit
  /\ mainPc = [r \in Rank |-> "prepost"]
  /\ preposted = [r \in Rank |-> 0]
  /\ op = [w \in Thread |-> FirstOp(w)]
  /\ posted = [w \in Thread |-> 0]
  /\ recvCq = [w \in Thread |-> 0]
  /\ sendCq = [w \in Thread |-> 0]
  /\ net = [w \in Thread |-> 0]
  /\ ack = [w \in Thread |-> 0]

-----------------------------------------------------------------------------
(* main, from the connected queue pairs on. *)

(* prepost_recv(i) for one worker after the other (128-130). *)
MainPrepost(r) ==
  /\ mainPc[r] = "prepost" /\ preposted[r] < tx_thread_num
  /\ posted' = [posted EXCEPT ![<<r, preposted[r]>>] = @ + NUM_PREPOST_RECV]
  /\ preposted' = [preposted EXCEPT ![r] = @ + 1]
  /\ UNCHANGED <<runVars, mainPc, op, recvCq, sendCq, net, ack>>

MainRun(r) ==
  /\ mainPc[r] = "prepost" /\ preposted[r] = tx_thread_num
  /\ mainPc' = [mainPc EXCEPT ![r] = "team"]
  /\ UNCHANGED <<runVars, preposted, op, netVars>>

(* Mutant: does not wait for the end of the parallel region. *)
MainFreeEarly(r) ==
  /\ mainPc[r] = "team"
  /\ mainPc' = [mainPc EXCEPT ![r] = "freed"]
  /\ UNCHANGED <<runVars, preposted, op, netVars>>

(* Every worker has returned: queue pairs, queues and device are freed. *)
MainFree(r) ==
  /\ mainPc[r] = "team"
  /\ \A t \in Worker : stage[<<r, t>>] = "exit"
  /\ mainPc' = [mainPc EXCEPT ![r] = "freed"]
  /\ UNCHANGED <<runVars, preposted, op, netVars>>

(* comm_free: pmi_barrier, then pmi_finalize. *)
MainFinalize(r) ==
  /\ mainPc[r] = "freed"
  /\ \A q \in Rank : mainPc[q] \in {"freed", "done"}
  /\ mainPc' = [mainPc EXCEPT ![r] = "done"]
  /\ UNCHANGED <<runVars, preposted, op, netVars>>

-----------------------------------------------------------------------------
(* Workers.  reset_counters is empty here. *)

Running(w) == mainPc[w[1]] = "team"

Drive(w) ==
  /\ Running(w)
  /\ \/ RunEnter(w) \/ RunLeave(w)
     \/ RunEnterTeam(w) \/ RunLeaveTeam(w) \/ RunReport(w)
  /\ UNCHANGED <<mainVars, op, netVars>>

(* The call c of the lambda; the last one ends the iteration. *)
Call(w, c) ==
  /\ Running(w) /\ InLoop(w) /\ op[w] = c
  /\ op' = [op EXCEPT ![w] = Follows[c]]
  /\ IF Follows[c] = FirstOp(w) THEN RunIterate(w) ELSE UNCHANGED runVars
  /\ UNCHANGED mainVars

isend(w) ==
  /\ Call(w, "isend")
  /\ net' = [net EXCEPT ![Peer(w)] = @ + 1]
  /\ UNCHANGED <<posted, recvCq, sendCq, ack>>

(* Mutant: posts all receives again. *)
irecvAll(w) ==
  /\ Call(w, "irecv")
  /\ posted' = [posted EXCEPT ![w] = @ + NUM_PREPOST_RECV]
  /\ UNCHANGED <<recvCq, sendCq, net, ack>>

irecv(w) ==
  /\ Call(w, "irecv")
  /\ posted' = [posted EXCEPT ![w] = @ + 1]
  /\ UNCHANGED <<recvCq, sendCq, net, ack>>

(* progress(cq) takes all it finds, up to numToPoll completions. *)
Polled(n) == IF n < numToPoll THEN n ELSE numToPoll

WaitSend(w) ==
  /\ Call(w, "waitSend") /\ sendCq[w] > 0
  /\ sendCq' = [sendCq EXCEPT ![w] = @ - Polled(@)]
  /\ UNCHANGED <<posted, recvCq, net, ack>>

WaitRecv(w) ==
  /\ Call(w, "waitRecv") /\ recvCq[w] > 0
  /\ recvCq' = [recvCq EXCEPT ![w] = @ - Polled(@)]
  /\ UNCHANGED <<posted, sendCq, net, ack>>

(* The poll finds nothing. *)
WaitMore(w) ==
  /\ Running(w) /\ InLoop(w)
  /\ \/ op[w] = "waitSend" /\ sendCq[w] = 0
     \/ op[w] = "waitRecv" /\ recvCq[w] = 0
  /\ UNCHANGED vars

-----------------------------------------------------------------------------
(* The adapters: a message takes a receive of w and becomes a completion,  *)
(* and its acknowledgement completes the send.                             *)

Freed(w) == mainPc[w[1]] \in {"freed", "done"}

Deliver(w) ==
  /\ net[w] > 0 /\ posted[w] > 0 /\ ~Freed(w)
  /\ net' = [net EXCEPT ![w] = @ - 1]
  /\ posted' = [posted EXCEPT ![w] = @ - 1]
  /\ recvCq' = [recvCq EXCEPT ![w] = @ + 1]
  /\ ack' = [ack EXCEPT ![Peer(w)] = @ + 1]
  /\ UNCHANGED <<runVars, mainVars, op, sendCq>>

CompleteSend(w) ==
  /\ ack[w] > 0 /\ ~Freed(w)
  /\ ack' = [ack EXCEPT ![w] = @ - 1]
  /\ sendCq' = [sendCq EXCEPT ![w] = @ + 1]
  /\ UNCHANGED <<runVars, mainVars, op, posted, recvCq, net>>

-----------------------------------------------------------------------------
MainStep(r) == MainPrepost(r) \/ MainRun(r) \/ MainFree(r) \/ MainFinalize(r)
WorkerStep(w) ==
  \/ Drive(w)
  \/ isend(w) \/ WaitSend(w) \/ irecv(w) \/ WaitRecv(w) \/ WaitMore(w)
NetStep(w) == Deliver(w) \/ CompleteSend(w)

AllDone == \A r \in Rank : mainPc[r] = "done"
Finished == AllDone /\ UNCHANGED vars

Next ==
  \/ \E r \in Rank : MainStep(r)
  \/ \E w \in Thread : WorkerStep(w) \/ NetStep(w)
  \/ Finished

(* The scheduler suspends no thread for ever and the adapters keep working. *)
Fairness ==
  /\ \A r \in Rank : WF_vars(MainStep(r))
  /\ \A w \in Thread : WF_vars(WorkerStep(w)) /\ WF_vars(Deliver(w)) /\ WF_vars(CompleteSend(w))

Spec == Init /\ [][Next]_vars
FairSpec == Spec /\ Fairness

-----------------------------------------------------------------------------
(* Properties. *)

TypeOK ==
  /\ RunTypeOK
  /\ mainPc \in [Rank -> {"prepost", "team", "freed", "done"}]
  /\ preposted \in [Rank -> 0 .. tx_thread_num]
  /\ op \in [Thread -> DOMAIN Follows]
  /\ posted \in [Thread -> Nat] /\ recvCq \in [Thread -> Nat] /\ sendCq \in [Thread -> Nat]
  /\ net \in [Thread -> Nat] /\ ack \in [Thread -> Nat]

(* A poll never finds a second completion.  The loops while (!progress(cq))*)
(* throw the number of completions away, so one too many would be lost and *)
(* the iteration it belongs to would wait for ever.                        *)
PollsOne == \A w \in Thread : sendCq[w] <= 1 /\ recvCq[w] <= 1

(* The receives posted and not yet polled never exceed the receive queue   *)
(* of the queue pair (max_recv_wr = RX_QUEUE_LEN), although every          *)
(* iteration posts one more: ibv_post_recv never fails.                    *)
RecvQueueBound == \A w \in Thread : posted[w] + recvCq[w] <= RX_QUEUE_LEN

(* Every message finds a posted receive: nobody sends before the partner   *)
(* has preposted, and the queue never runs dry.                            *)
NoRnr == \A w \in Thread : net[w] <= posted[w]

(* When a process frees its queue pairs nothing is under way to or from    *)
(* it, nothing is left to poll, and exactly the preposted receives remain. *)
QuietAtFree ==
  \A w \in Thread : Freed(w) =>
    /\ posted[w] = NUM_PREPOST_RECV
    /\ net[w] = 0 /\ net[Peer(w)] = 0 /\ ack[w] = 0
    /\ recvCq[w] = 0 /\ sendCq[w] = 0

(* Every process returns from main. *)
Termination == <>AllDone

-----------------------------------------------------------------------------
(* The inductive invariant behind the safety properties. *)

One(b) == IF b THEN 1 ELSE 0

(* main posts all receives before it starts the workers, which are in the  *)
(* middle of a lambda only inside a loop.                                  *)
Phases ==
  /\ \A r \in Rank :
       /\ mainPc[r] # "prepost" => preposted[r] = tx_thread_num
       /\ mainPc[r] = "prepost" => \A w \in Thread : w[1] = r => stage[w] = "reset0" /\ sizeIdx[w] = 0
       /\ mainPc[r] \in {"freed", "done"} => \A w \in Thread : w[1] = r => stage[w] = "exit"
  /\ \A w \in Thread : op[w] # FirstOp(w) => InLoop(w)

(* Receives: the preposted ones, and one more between irecv and its poll. *)
Receives ==
  \A w \in Thread :
    posted[w] + recvCq[w] =
      (IF w[2] < preposted[w[1]] THEN NUM_PREPOST_RECV ELSE 0) + One(op[w] = "waitRecv")

(* Sends: one between isend and the poll of its completion. *)
Sends ==
  \A w \in Thread : net[Peer(w)] + ack[w] + sendCq[w] = One(op[w] = "waitSend")

(* A pair of workers shares one token: it is a message under way or        *)
(* received, or in the hands of the worker that sends next.                *)
Share(w) == net[w] + recvCq[w] + One(op[w] = "isend")
Token == \A w \in Thread : Share(w) + Share(Peer(w)) = 1

IInv == TypeOK /\ RunInv /\ Phases /\ Receives /\ Sends /\ Token
=============================================================================
