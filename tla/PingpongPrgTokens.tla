------------------------- MODULE PingpongPrgTokens -------------------------
(***************************************************************************)
(* What PingpongPrg promises about counting messages: properties with sums *)
(* over the workers of a class, and the inductive invariant behind them.   *)
(***************************************************************************)
EXTENDS PingpongPrg, FiniteSets

(* The sum of f over S, as the number of units f has there. *)
Units(f, S) == UNION {{w} \X (1 .. f[w]) : w \in S}
Total(f, S) == Cardinality(Units(f, S))

Class(p) == {w \in Thread : w[1] = p[1] /\ w[2] % rx_thread_num = p[2]}

(* Completions polled but not handed to a worker yet. *)
Pending(p) == numRecvCompleted[p] - dispatched[p]
(* Messages sent to progress thread p and not handed to a worker yet. *)
Backlog(p) == net[p] + rxCq[p] + Pending(p)

(* No message of an earlier loop can be under way when the next one starts *)
(* unless prefilled work was left over by the loop before.                 *)
NoLeftovers == prefilled_work = 0 \/ SizeCount = 1

(* When thread 0 starts a reset, everything sent to its process (to any    *)
(* process, in the second reset) has been received, handed out and taken:  *)
(* the reset discards nothing.                                             *)
QuietAtReset ==
  NoLeftovers =>
    \A w \in Thread, p \in PrgThread :
      (/\ Running(w) /\ w[2] = 0 /\ resetPos[w[1]] = 0
       /\ \/ stage[w] = "resetP"
          \/ stage[w] = "reset0" /\ p[1] = w[1])
      => /\ net[p] = 0 /\ rxCq[p] = 0 /\ Pending(p) = 0
         /\ p[1] = w[1] => \A u \in Class(p) : syncs[u] = 0

(* Messages a worker has sent and taken since it began, the prefilled ones *)
(* it has been given, and those a progress thread has handed to it.        *)
Sent == [w \in Thread |-> Done(w) + (IF half[w] /\ IsSender(w[1]) THEN 1 ELSE 0)]
Taken == [w \in Thread |-> Done(w) + (IF half[w] /\ ~IsSender(w[1]) THEN 1 ELSE 0)]
Prefilled(w) ==
  LET z == stage[<<w[1], 0>>]
  IN  \/ z = "resetP" /\ w[2] < resetPos[w[1]]
      \/ z \in {"bar3", "timed", "tbar", "report", "last", "bar4", "exit"}
Given == [w \in Thread |-> IF Prefilled(w) THEN prefilled_work ELSE 0]
Handed == [w \in Thread |-> Taken[w] + syncs[w] - Given[w]]

(* Round robin: within a class no worker is ever ahead of an earlier one,  *)
(* or more than one message behind it, from the start of the benchmark to  *)
(* its end and whatever the resets in between store.                       *)
FairShare ==
  NoLeftovers =>
    \A p \in PrgThread : \A w, u \in Class(p) :
      w[2] < u[2] => Handed[w] - Handed[u] \in {0, 1}

(* A worker holds a token when the next thing it does is send. *)
Held == [w \in Thread |-> syncs[w] + (IF half[w] = ~IsSender(w[1]) THEN 1 ELSE 0)]
Tokens(p) == Backlog(p) + Total(Held, Class(p))
Opposite(p) == <<target_rank(p[1]), p[2]>>
PairTokens(p) == Tokens(p) + Tokens(Opposite(p))

(* All workers of the two processes are in the same loop (or in the        *)
(* barriers around it); fill is what the reset before it stored.           *)
Together(r, stages) ==
  \A w, u \in {v \in Thread : v[1] \in {r, target_rank(r)}} :
    stage[w] \in stages /\ sizeIdx[w] = sizeIdx[u]
LoopTokens(p, fill) == Cardinality(Class(p)) * (1 + 2 * fill)

WarmStages == {"bar1", "warm", "bar2"}
TimedStages == {"bar3", "timed", "tbar"}

(* Messages are neither lost nor made up: in a loop each class of a pair   *)
(* of processes has one token per sender and the prefilled ones, and what  *)
(* is left over from an earlier loop only adds to them.                    *)
TokensConserved ==
  \A p \in PrgThread :
    /\ Together(p[1], WarmStages) =>
         /\ PairTokens(p) >= LoopTokens(p, 0)
         /\ NoLeftovers => PairTokens(p) = LoopTokens(p, 0)
    /\ Together(p[1], TimedStages) =>
         /\ PairTokens(p) >= LoopTokens(p, prefilled_work)
         /\ NoLeftovers => PairTokens(p) = LoopTokens(p, prefilled_work)

-----------------------------------------------------------------------------
(* The inductive invariant behind the properties above. *)

(* The dispatch loop hands out what was polled, no more. *)
DispatchCounts ==
  \A p \in PrgThread :
    /\ prgPc[p] \in {"start", "poll", "exit"} => dispatched[p] = 0
    /\ prgPc[p] \in {"load", "store", "signal"} => dispatched[p] < numRecvCompleted[p]
    /\ prgPc[p] = "refill" => dispatched[p] = numRecvCompleted[p]

(* A worker is between two halves only in a loop; thread 0 stores only in  *)
(* a reset.                                                                *)
WorkPhases ==
  /\ \A w \in Thread : LoopBounded(w) /\ (half[w] => InLoop(w))
  /\ \A r \in Rank : stage[<<r, 0>>] \notin Reset => resetPos[r] = 0

(* What the second reset stores is there until the timed loop. *)
Covered ==
  \A w \in Thread : stage[w] \in {"bar2", "resetP", "bar3"} => syncs[w] >= Given[w]

(* The workers whose messages progress thread p receives. *)
Senders(p) == {w \in Thread : target_rank(w[1]) = p[1] /\ w[2] % rx_thread_num = p[2]}

(* No message is lost: what was sent to a progress thread, it has handed   *)
(* out, holds, has in its queue or has still to receive.  None is made up  *)
(* either, unless a reset stores over prefilled work that was left over.   *)
Balanced(p) ==
  LET sent == Total(Sent, Senders(p))
      received == Total(Handed, Class(p)) + Backlog(p)
  IN  sent <= received /\ (NoLeftovers => sent = received)
Flow == Handed \in [Thread -> Nat] /\ \A p \in PrgThread : Balanced(p)

(* Whose turn it is: the workers before it are one message ahead. *)
Turn(p) == IF prgPc[p] = "signal" THEN worker_idx[p] ELSE next_worker_idx[p]
RoundRobin ==
  \A p \in PrgThread :
    /\ prgPc[p] = "store" => worker_idx[p] = next_worker_idx[p]
    /\ prgPc[p] = "signal" => next_worker_idx[p] = incrementWorkerIdx(p[2], worker_idx[p])
    /\ \A w, u \in Class(p) :
         w[2] < u[2] => Handed[w] = Handed[u] + (IF w[2] < Turn(p) /\ Turn(p) <= u[2] THEN 1 ELSE 0)

WorkInv == IInv /\ DispatchCounts /\ WorkPhases /\ Covered
TokenInv == WorkInv /\ Flow /\ (NoLeftovers => RoundRobin)
=============================================================================
