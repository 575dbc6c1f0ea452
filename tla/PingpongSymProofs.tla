------------------------- MODULE PingpongSymProofs -------------------------
(***************************************************************************)
(* The safety of the symmetric benchmark for every even number of          *)
(* processes and every number of workers, sizes and iterations.            *)
(***************************************************************************)
EXTENDS PingpongSym, RunVaryMsgProofs

-----------------------------------------------------------------------------
(* Pairs of workers. *)

LEMMA HalfFacts == Size \div 2 \in Nat \ {0} /\ Size = 2 * (Size \div 2)
BY RunAssumption, SymAssumption

LEMMA TargetFacts ==
  ASSUME NEW r \in Rank
  PROVE  /\ IsSender(r) => target_rank(r) = r + Size \div 2
         /\ ~IsSender(r) => target_rank(r) = r - Size \div 2
<1> DEFINE h == Size \div 2
<1>1. h \in Nat \ {0} /\ Size = h + h /\ r \in Nat /\ r < h + h
  BY HalfFacts, RunAssumption DEF Rank
<1> HIDE DEF h
<1>2. target_rank(r) = (r + h) % (h + h) /\ (IsSender(r) <=> r < h)
  BY <1>1 DEF h, target_rank, IsSender
<1>3. ASSUME r < h PROVE (r + h) % (h + h) = r + h
  BY <1>1, <1>3
<1>4. ASSUME ~(r < h) PROVE (r + h) % (h + h) = r - h
  BY <1>1, <1>4
<1> QED
  BY <1>2, <1>3, <1>4 DEF h

LEMMA PeerFacts ==
  ASSUME NEW w \in Thread
  PROVE  /\ Peer(w) \in Thread /\ Peer(w) # w /\ Peer(Peer(w)) = w
         /\ Peer(w)[1] = target_rank(w[1])
         /\ IsSender(Peer(w)[1]) <=> ~IsSender(w[1])
<1>1. w = <<w[1], w[2]>> /\ w[1] \in Rank /\ w[2] \in Worker
  BY ThreadFacts
<1> DEFINE q == target_rank(w[1])
<1>2. Size \div 2 \in Nat \ {0} /\ Size = 2 * (Size \div 2) /\ Size \in Nat
  BY HalfFacts, RunAssumption
<1>3. /\ IsSender(w[1]) => q = w[1] + Size \div 2
      /\ ~IsSender(w[1]) => q = w[1] - Size \div 2
  BY <1>1, TargetFacts
<1> HIDE DEF q
<1>4. q \in Rank /\ q # w[1] /\ (IsSender(q) <=> ~IsSender(w[1]))
  BY <1>1, <1>2, <1>3 DEF IsSender, Rank
<1>5. /\ IsSender(q) => target_rank(q) = q + Size \div 2
      /\ ~IsSender(q) => target_rank(q) = q - Size \div 2
  BY <1>4, TargetFacts
<1>6. target_rank(q) = w[1]
  BY <1>1, <1>2, <1>3, <1>4, <1>5 DEF Rank
<1>7. Peer(w) = <<q, w[2]>>
  BY DEF Peer, q
<1>8. Peer(w) \in Thread /\ Peer(w)[1] = q /\ Peer(w)[2] = w[2]
  BY <1>1, <1>4, <1>7, ThreadFacts
<1>9. Peer(Peer(w)) = <<target_rank(q), w[2]>>
  BY <1>8 DEF Peer
<1> QED
  BY <1>1, <1>4, <1>6, <1>8, <1>9 DEF q

LEMMA FollowsFacts ==
  /\ DOMAIN Follows = {"isend", "waitSend", "irecv", "waitRecv"}
  /\ Follows["isend"] = "waitSend" /\ Follows["waitSend"] = "irecv"
  /\ Follows["irecv"] = "waitRecv" /\ Follows["waitRecv"] = "isend"
BY DEF Follows

LEMMA PrepostFacts ==
  NUM_PREPOST_RECV \in Nat /\ NUM_PREPOST_RECV >= 2 /\ RX_QUEUE_LEN = NUM_PREPOST_RECV + 3
BY SymAssumption DEF NUM_PREPOST_RECV

-----------------------------------------------------------------------------
(* The workers execute RUN_VARY_MSG, and nobody else touches its state. *)

LambdaStep(w) == isend(w) \/ WaitSend(w) \/ irecv(w) \/ WaitRecv(w)

LEMMA LambdaFrame ==
  ASSUME NEW w \in Thread, LambdaStep(w)
  PROVE  /\ Running(w) /\ InLoop(w) /\ UNCHANGED mainVars
         /\ op[w] \in DOMAIN Follows /\ op' = [op EXCEPT ![w] = Follows[op[w]]]
         /\ IF Follows[op[w]] = FirstOp(w) THEN RunIterate(w) ELSE UNCHANGED runVars
BY FollowsFacts DEF LambdaStep, isend, WaitSend, irecv, WaitRecv, Call

LEMMA WorkerRuns ==
  ASSUME NEW w \in Thread, WorkerStep(w)
  PROVE  RunStep(w) \/ UNCHANGED runVars
<1>1. CASE Drive(w)
  BY <1>1 DEF Drive, RunStep
<1>2. CASE LambdaStep(w)
  BY <1>2, LambdaFrame DEF RunStep
<1>3. CASE WaitMore(w)
  BY <1>3 DEF WaitMore, vars
<1> QED
  BY <1>1, <1>2, <1>3 DEF WorkerStep, LambdaStep

LEMMA StepIsRun == [Next]_vars => [RunNext]_runVars
<1> SUFFICES ASSUME [Next]_vars PROVE [RunNext]_runVars
  OBVIOUS
<1>1. ASSUME NEW r \in Rank, MainStep(r) PROVE UNCHANGED runVars
  BY <1>1 DEF MainStep, MainPrepost, MainRun, MainFree, MainFinalize
<1>2. ASSUME NEW w \in Thread, NetStep(w) PROVE UNCHANGED runVars
  BY <1>2 DEF NetStep, Deliver, CompleteSend
<1>3. CASE UNCHANGED vars
  BY <1>3 DEF vars
<1> QED
  BY <1>1, <1>2, <1>3, WorkerRuns DEF Next, Finished, RunNext

(* Refinement: the benchmark implements the driver's specification. *)
THEOREM ImplementsRun == Spec => RunSpec
<1>1. Init => RunInit
  BY DEF Init
<1> QED  BY <1>1, StepIsRun, PTL DEF Spec, RunSpec

-----------------------------------------------------------------------------
(* Type correctness. *)

LEMMA InitTypeOK == Init => TypeOK
<1> SUFFICES ASSUME Init PROVE TypeOK
  OBVIOUS
<1>1. RunTypeOK
  BY InitRunInv DEF Init, RunInv
<1>2. op \in [Thread -> DOMAIN Follows]
  BY FollowsFacts DEF Init, FirstOp
<1> QED
  BY <1>1, <1>2, RunAssumption DEF Init, TypeOK

LEMMA NextTypeOK == TypeOK /\ [Next]_vars => TypeOK'
<1> SUFFICES ASSUME TypeOK, [Next]_vars PROVE TypeOK'
  OBVIOUS
<1>0. RunTypeOK'
  BY NextRunType, StepIsRun DEF TypeOK
<1> USE <1>0 DEF TypeOK, mainVars, netVars
<1>1. ASSUME NEW r \in Rank, MainStep(r) PROVE TypeOK'
  <2>1. CASE MainPrepost(r)
    <3>1. <<r, preposted[r]>> \in Thread
      BY <2>1, ThreadFacts, RunAssumption DEF MainPrepost, Worker
    <3> QED  BY <2>1, <3>1, PrepostFacts, RunAssumption DEF MainPrepost
  <2>2. CASE MainRun(r) \/ MainFree(r) \/ MainFinalize(r)
    BY <2>2 DEF MainRun, MainFree, MainFinalize
  <2> QED  BY <1>1, <2>1, <2>2 DEF MainStep
<1>2. ASSUME NEW w \in Thread, LambdaStep(w) PROVE TypeOK'
  <2>0. /\ UNCHANGED mainVars /\ op' \in [Thread -> DOMAIN Follows]
        /\ Peer(w) \in Thread
    BY <1>2, LambdaFrame, FollowsFacts, PeerFacts
  <2>1. \A n \in Nat : n - Polled(n) \in Nat
    BY SymAssumption DEF Polled
  <2>2. CASE isend(w) \/ irecv(w)
    BY <2>0, <2>2 DEF isend, irecv
  <2>3. CASE WaitSend(w) \/ WaitRecv(w)
    BY <2>0, <2>1, <2>3 DEF WaitSend, WaitRecv
  <2> QED  BY <1>2, <2>2, <2>3 DEF LambdaStep
<1>3. ASSUME NEW w \in Thread, NetStep(w) PROVE TypeOK'
  <2>1. Peer(w) \in Thread
    BY PeerFacts
  <2> QED  BY <1>3, <2>1 DEF NetStep, Deliver, CompleteSend
<1>4. ASSUME NEW w \in Thread, Drive(w) PROVE TypeOK'
  BY <1>4 DEF Drive
<1>5. CASE UNCHANGED vars
  BY <1>5 DEF vars
<1> QED
  BY <1>1, <1>2, <1>3, <1>4, <1>5 DEF Next, Finished, WorkerStep, WaitMore, LambdaStep

(* The type invariant of the benchmark. *)
THEOREM TypeCorrect == Spec => []TypeOK
BY InitTypeOK, NextTypeOK, PTL DEF Spec

-----------------------------------------------------------------------------
(* Main and its workers. *)

LEMMA FirstOpFacts ==
  ASSUME NEW w \in Thread
  PROVE  FirstOp(w) \in {"isend", "irecv"}
BY DEF FirstOp

LEMMA NextPhases ==
  ASSUME TypeOK, Phases, [Next]_vars
  PROVE  Phases'
<1>0. /\ mainPc \in [Rank -> {"prepost", "team", "freed", "done"}]
      /\ preposted \in [Rank -> 0 .. tx_thread_num] /\ tx_thread_num \in Nat
      /\ op \in [Thread -> DOMAIN Follows] /\ RunTypeOK
  BY RunAssumption DEF TypeOK
<1> USE DEF InLoop, LoopBound
<1>1. ASSUME NEW r \in Rank, MainStep(r) PROVE Phases'
  <2>0. UNCHANGED <<runVars, op>>
    BY <1>1 DEF MainStep, MainPrepost, MainRun, MainFree, MainFinalize
  <2>1. CASE MainPrepost(r) \/ MainRun(r) \/ MainFinalize(r)
    BY <1>0, <2>0, <2>1 DEF MainPrepost, MainRun, MainFinalize, Phases, runVars, FirstOp
  <2>2. CASE MainFree(r)
    <3>1. \A w \in Thread : w[1] = r => stage[w] = "exit"
      BY <2>2, ThreadFacts DEF MainFree
    <3> QED  BY <1>0, <2>0, <2>2, <3>1 DEF MainFree, Phases, runVars, FirstOp
  <2> QED  BY <1>1, <2>1, <2>2 DEF MainStep
<1>2. ASSUME NEW w \in Thread, WorkerStep(w), ~UNCHANGED vars PROVE Phases'
  <2>1. mainPc[w[1]] = "team" /\ UNCHANGED mainVars /\ w[1] \in Rank
    BY <1>2, LambdaFrame, ThreadFacts, ZenonT(30) DEF WorkerStep, LambdaStep, Drive, WaitMore, Running
  <2>2. \A v \in Thread : v # w =>
          stage'[v] = stage[v] /\ sizeIdx'[v] = sizeIdx[v] /\ iter'[v] = iter[v]
    BY <1>0, <1>2, WorkerRuns, OthersStay, IterStays DEF runVars
  <2>3. op[w] # FirstOp(w) => InLoop(w)
    BY ZenonT(30) DEF Phases
  <2>4. /\ \A v \in Thread : v # w => op'[v] = op[v]
        /\ op'[w] # FirstOp(w) => InLoop(w)'
    <3>1. CASE Drive(w)
      <4>1. op' = op
        BY <3>1 DEF Drive
      <4>2. ASSUME InLoop(w) PROVE FALSE
        <5>0. iter[w] \in Nat /\ SKIP \in Nat /\ TOTAL \in Nat /\ stage[w] \in {"warm", "timed"}
          BY <1>0, <4>2, RunAssumption DEF RunTypeOK, Loop
        <5>1. CASE RunEnter(w)
          BY <4>2, <5>0, <5>1, StageFacts DEF RunEnter
        <5>2. CASE RunEnterTeam(w)
          BY <4>2, <5>0, <5>2 DEF RunEnterTeam
        <5>3. CASE RunLeave(w) \/ RunLeaveTeam(w) \/ RunReport(w)
          BY <5>0, <5>3, StageFacts DEF RunLeave, RunLeaveTeam, RunReport
        <5> QED  BY <3>1, <5>1, <5>2, <5>3 DEF Drive
      <4> QED  BY <2>3, <4>1, <4>2
    <3>2. CASE LambdaStep(w)
      <4>1. op' = [op EXCEPT ![w] = Follows[op[w]]] /\ InLoop(w)
        BY <3>2, LambdaFrame
      <4>2. Follows[op[w]] # FirstOp(w) => UNCHANGED runVars
        BY <3>2, LambdaFrame
      <4> QED  BY <1>0, <4>1, <4>2 DEF runVars
    <3> QED  BY <1>2, <3>1, <3>2 DEF WorkerStep, LambdaStep, WaitMore
  <2> QED  BY <2>1, <2>2, <2>4 DEF Phases, mainVars, FirstOp
<1>3. ASSUME NEW w \in Thread, NetStep(w) PROVE Phases'
  BY <1>3 DEF NetStep, Deliver, CompleteSend, Phases, runVars, mainVars, FirstOp
<1>4. CASE UNCHANGED vars
  BY <1>4 DEF vars, runVars, mainVars, Phases, FirstOp
<1> QED
  BY <1>1, <1>2, <1>3, <1>4 DEF Next, Finished

-----------------------------------------------------------------------------
(* Receives, sends and the token, one lemma per action. *)

Counts(w) ==
  /\ op[w] \in DOMAIN Follows
  /\ posted[w] \in Nat /\ recvCq[w] \in Nat /\ sendCq[w] \in Nat
  /\ net[w] \in Nat /\ ack[w] \in Nat

Balance == Receives /\ Sends /\ Token

(* Arithmetic of the sums below. *)
LEMMA SumZero ==
  ASSUME NEW i \in Nat, NEW j \in Nat, NEW k \in Nat, i + j + k = 0
  PROVE  i = 0 /\ j = 0 /\ k = 0
OBVIOUS

LEMMA SumAtMost ==
  ASSUME NEW i \in Nat, NEW j \in Nat, NEW k \in Nat, NEW n \in Nat, i + j + k = n
  PROVE  i <= n /\ j <= n /\ k <= n
OBVIOUS

LEMMA SumLess ==
  ASSUME NEW i \in Nat, NEW j \in Nat, NEW n \in Nat, n <= 1, i + j + 1 = n
  PROVE  i = 0 /\ j = 0
OBVIOUS

LEMMA ShareFacts ==
  ASSUME NEW w \in Thread, Counts(w)
  PROVE  /\ One(op[w] = "isend") \in Nat /\ One(op[w] = "waitSend") \in Nat
         /\ Share(w) \in Nat /\ Share(w) = net[w] + recvCq[w] + One(op[w] = "isend")
         /\ op[w] = "isend" => Share(w) = net[w] + recvCq[w] + 1
         /\ op[w] # "isend" => Share(w) = net[w] + recvCq[w]
BY DEF Counts, Share, One

(* What Balance says of a worker and its partner. *)
LEMMA BalanceFacts ==
  ASSUME TypeOK, Balance, NEW w \in Thread
  PROVE  /\ Counts(w) /\ sendCq[w] <= 1 /\ recvCq[w] <= 1 /\ net[w] <= 1
         /\ op[w] = "isend" => net[w] = 0 /\ recvCq[w] = 0
         /\ op[w] = "waitSend" \/ (net[Peer(w)] = 0 /\ ack[w] = 0 /\ sendCq[w] = 0)
<1>1. Peer(w) \in Thread
  BY PeerFacts
<1>2. Counts(w) /\ Counts(Peer(w))
  BY <1>1 DEF TypeOK, Counts
<1>3. Share(w) \in Nat /\ Share(Peer(w)) \in Nat /\ Share(w) <= 1
  <2>1. Share(w) \in Nat /\ Share(Peer(w)) \in Nat
    BY <1>1, <1>2, ShareFacts
  <2>2. Share(w) + Share(Peer(w)) = 1
    BY DEF Balance, Token
  <2> QED  BY <2>1, <2>2
<1>4. /\ net[w] \in Nat /\ recvCq[w] \in Nat /\ sendCq[w] \in Nat /\ ack[w] \in Nat
      /\ net[Peer(w)] \in Nat
  BY <1>2 DEF Counts
<1>5. net[w] <= 1 /\ recvCq[w] <= 1
  <2>1. net[w] <= Share(w) /\ recvCq[w] <= Share(w)
    BY <1>2, <1>3, <1>4, ShareFacts, SumAtMost
  <2> QED  BY <1>3, <1>4, <2>1
<1>6. ASSUME op[w] = "isend" PROVE net[w] = 0 /\ recvCq[w] = 0
  <2>1. net[w] + recvCq[w] + 1 = Share(w)
    BY <1>2, <1>6, ShareFacts
  <2> QED  BY <1>3, <1>4, <2>1, SumLess
<1> DEFINE c == One(op[w] = "waitSend")
<1>7. c \in Nat /\ c <= 1 /\ (op[w] # "waitSend" => c = 0)
  BY DEF One
<1>8. net[Peer(w)] + ack[w] + sendCq[w] = c
  BY DEF Balance, Sends
<1> HIDE DEF c
<1>9. sendCq[w] <= 1
  <2>1. sendCq[w] <= c
    BY <1>4, <1>7, <1>8, SumAtMost
  <2> QED  BY <1>4, <1>7, <2>1
<1>10. c = 0 => net[Peer(w)] = 0 /\ ack[w] = 0 /\ sendCq[w] = 0
  BY <1>4, <1>8, SumZero, Zenon
<1> QED
  BY <1>2, <1>5, <1>6, <1>7, <1>9, <1>10

RecvAt(v) ==
  posted[v] + recvCq[v] =
    (IF v[2] < preposted[v[1]] THEN NUM_PREPOST_RECV ELSE 0) + One(op[v] = "waitRecv")
SendAt(v) == net[Peer(v)] + ack[v] + sendCq[v] = One(op[v] = "waitSend")

(* The token moves within a pair. *)
LEMMA TokenMoves ==
  ASSUME Token, NEW w \in Thread,
         Share(w)' + Share(Peer(w))' = Share(w) + Share(Peer(w)),
         Share(Peer(w))' + Share(w)' = Share(Peer(w)) + Share(w),
         \A v \in Thread \ {w, Peer(w)} : Share(v)' = Share(v)
  PROVE  Token'
<1> SUFFICES ASSUME NEW v \in Thread PROVE Share(v)' + Share(Peer(v))' = 1
  BY DEF Token, Peer
<1>1. Share(v) + Share(Peer(v)) = 1
  BY DEF Token
<1>2. CASE v = w
  BY <1>1, <1>2
<1>3. CASE v = Peer(w)
  BY <1>1, <1>3, PeerFacts
<1>4. CASE v \notin {w, Peer(w)}
  BY <1>1, <1>4, PeerFacts
<1> QED
  BY <1>2, <1>3, <1>4

LEMMA isendBalance ==
  ASSUME TypeOK, Balance, NEW w \in Thread, isend(w)
  PROVE  Balance'
<1> DEFINE x == Peer(w)
<1>1. /\ x \in Thread /\ x # w /\ Peer(x) = w
      /\ \A v \in Thread : Peer(v) \in Thread /\ (Peer(v) = x => v = w)
  BY PeerFacts
<1>2. /\ net' = [net EXCEPT ![x] = @ + 1] /\ UNCHANGED <<posted, recvCq, sendCq, ack, preposted>>
      /\ op[w] = "isend" /\ op' = [op EXCEPT ![w] = "waitSend"]
  BY FollowsFacts DEF isend, Call, mainVars
<1> HIDE DEF x
<1>3. \A v \in Thread : Counts(v)
  BY DEF TypeOK, Counts
<1>4. /\ op'[w] = "waitSend" /\ \A v \in Thread : v # w => op'[v] = op[v]
      /\ net'[x] = net[x] + 1 /\ \A v \in Thread : v # x => net'[v] = net[v]
  BY <1>1, <1>2 DEF TypeOK
<1>5. Receives'
  <2> SUFFICES ASSUME NEW v \in Thread PROVE RecvAt(v)'
    BY DEF Receives, RecvAt
  <2>1. RecvAt(v)
    BY DEF Balance, Receives, RecvAt
  <2>2. (op'[v] = "waitRecv") <=> (op[v] = "waitRecv")
    BY <1>2, <1>4
  <2> QED  BY <1>2, <2>1, <2>2 DEF RecvAt, One
<1>6. Sends'
  <2> SUFFICES ASSUME NEW v \in Thread PROVE SendAt(v)'
    BY DEF Sends, SendAt, Peer
  <2>1. SendAt(v)
    BY DEF Balance, Sends, SendAt
  <2>2. CASE v = w
    <3>1. net[x] = 0 /\ ack[w] = 0 /\ sendCq[w] = 0
      BY <1>2, BalanceFacts DEF x
    <3>2. net'[x] + ack'[w] + sendCq'[w] = 1
      BY <1>2, <1>4, <3>1
    <3> QED  BY <1>4, <2>2, <3>2 DEF SendAt, One, x
  <2>3. CASE v # w
    BY <1>1, <1>2, <1>4, <2>1, <2>3 DEF SendAt, Peer
  <2> QED  BY <2>2, <2>3
<1>7. Token'
  <2>1. Share(w)' = Share(w) - 1 /\ Share(x)' = Share(x) + 1
    BY <1>1, <1>2, <1>3, <1>4 DEF Share, One, Counts
  <2>2. \A v \in Thread \ {w, x} : Share(v)' = Share(v)
    BY <1>2, <1>4 DEF Share
  <2>3. Share(w) \in Nat /\ Share(x) \in Nat
    BY <1>1, <1>3, ShareFacts
  <2>4. Share(w)' + Share(x)' = Share(w) + Share(x) /\ Share(x)' + Share(w)' = Share(x) + Share(w)
    BY <2>1, <2>3, SMTT(30)
  <2> QED  BY <2>2, <2>4, TokenMoves DEF x, Balance
<1> QED
  BY <1>5, <1>6, <1>7 DEF Balance

(* Calls that only move completions of their own worker. *)
LEMMA LocalBalance ==
  ASSUME TypeOK, Balance, NEW w \in Thread, irecv(w) \/ WaitSend(w) \/ WaitRecv(w)
  PROVE  Balance'
<1>0. /\ UNCHANGED <<net, ack, preposted>>
      /\ op' = [op EXCEPT ![w] = Follows[op[w]]]
  BY DEF irecv, WaitSend, WaitRecv, Call, mainVars
<1>1. op'[w] = Follows[op[w]] /\ \A v \in Thread : v # w => op'[v] = op[v]
  BY <1>0 DEF TypeOK
<1>2. \A v \in Thread : v # w => posted'[v] = posted[v] /\ recvCq'[v] = recvCq[v] /\ sendCq'[v] = sendCq[v]
  BY DEF irecv, WaitSend, WaitRecv, TypeOK
<1>3. /\ \A v \in Thread : Counts(v)
      /\ sendCq[w] <= 1 /\ recvCq[w] <= 1
  BY BalanceFacts
<1>4. /\ posted[w] \in Nat /\ recvCq[w] \in Nat /\ sendCq[w] \in Nat /\ net[w] \in Nat
      /\ posted \in [Thread -> Nat] /\ recvCq \in [Thread -> Nat] /\ sendCq \in [Thread -> Nat]
  BY DEF TypeOK
<1>5. \A n \in Nat : 0 < n /\ n <= 1 => Polled(n) = 1
  BY SymAssumption DEF Polled
<1>6. RecvAt(w) /\ SendAt(w)
  BY DEF Balance, Receives, Sends, RecvAt, SendAt
<1>7. RecvAt(w)' /\ SendAt(w)' /\ Share(w)' = Share(w)
  <2>1. CASE irecv(w)
    <3>1. /\ op[w] = "irecv" /\ op'[w] = "waitRecv" /\ posted'[w] = posted[w] + 1
          /\ UNCHANGED <<recvCq, sendCq>>
      BY <1>1, <1>4, <2>1, FollowsFacts, ZenonT(30) DEF irecv, Call
    <3>2. RecvAt(w)'
      BY <1>0, <1>4, <1>6, <3>1, PrepostFacts, SMTT(30) DEF RecvAt, One
    <3> QED  BY <1>0, <1>6, <3>1, <3>2 DEF SendAt, Share, One, Peer
  <2>2. CASE WaitSend(w)
    <3>1. op[w] = "waitSend" /\ op'[w] = "irecv" /\ UNCHANGED <<posted, recvCq>>
      BY <1>1, <2>2, FollowsFacts DEF WaitSend, Call
    <3>2. sendCq[w] = 1 /\ sendCq'[w] = 0
      <4>1. sendCq[w] > 0 /\ sendCq'[w] = sendCq[w] - Polled(sendCq[w])
        BY <1>4, <2>2 DEF WaitSend
      <4>2. sendCq[w] = 1
        BY <1>3, <1>4, <4>1
      <4>3. Polled(sendCq[w]) = 1
        BY <1>5, <4>2, SMTT(30)
      <4> QED  BY <4>1, <4>2, <4>3
    <3>3. SendAt(w)'
      <4>1. Peer(w) \in Thread /\ net[Peer(w)] \in Nat /\ ack[w] \in Nat
        BY PeerFacts DEF TypeOK
      <4>2. net[Peer(w)] + ack[w] + sendCq[w] = 1
        BY <1>6, <3>1 DEF SendAt, One
      <4>3. net[Peer(w)] + ack[w] = 0
        BY <3>2, <4>1, <4>2
      <4>4. net'[Peer(w)] + ack'[w] + sendCq'[w] = 0
        BY <1>0, <3>2, <4>1, <4>3
      <4> QED  BY <3>1, <4>4 DEF SendAt, One, Peer
    <3> QED  BY <1>0, <1>6, <3>1, <3>3 DEF RecvAt, Share, One
  <2>3. CASE WaitRecv(w)
    <3>1. op[w] = "waitRecv" /\ op'[w] = "isend" /\ UNCHANGED <<posted, sendCq>>
      BY <1>1, <2>3, FollowsFacts DEF WaitRecv, Call
    <3>2. recvCq[w] = 1 /\ recvCq'[w] = 0
      <4>1. recvCq[w] > 0 /\ recvCq'[w] = recvCq[w] - Polled(recvCq[w])
        BY <1>4, <2>3 DEF WaitRecv
      <4>2. recvCq[w] = 1
        BY <1>3, <1>4, <4>1, SMTT(30)
      <4>3. Polled(recvCq[w]) = 1
        BY <1>5, <4>2
      <4> QED  BY <4>1, <4>2, <4>3
    <3>3. RecvAt(w)'
      BY <1>0, <1>4, <1>6, <3>1, <3>2, PrepostFacts, SMTT(30) DEF RecvAt, One
    <3>4. Share(w)' = Share(w)
      BY <1>0, <1>4, <3>1, <3>2, SMTT(30) DEF Share, One
    <3> QED  BY <1>0, <1>6, <3>1, <3>3, <3>4 DEF SendAt, One, Peer
  <2> QED  BY <2>1, <2>2, <2>3
<1>8. ASSUME NEW v \in Thread, v # w PROVE RecvAt(v)' /\ SendAt(v)' /\ Share(v)' = Share(v)
  <2>1. RecvAt(v) /\ SendAt(v)
    BY ZenonT(30) DEF Balance, Receives, Sends, RecvAt, SendAt
  <2> QED  BY <1>0, <1>1, <1>2, <1>8, <2>1, ZenonT(30) DEF RecvAt, SendAt, Share, Peer
<1>9. Token'
  BY <1>7, <1>8, PeerFacts, SMTT(30) DEF Balance, Token, Peer
<1> QED
  BY <1>7, <1>8, <1>9 DEF Balance, Receives, Sends, RecvAt, SendAt

LEMMA DeliverBalance ==
  ASSUME TypeOK, Balance, NEW w \in Thread, Deliver(w)
  PROVE  Balance'
<1> DEFINE x == Peer(w)
<1>1. /\ x \in Thread /\ x # w /\ Peer(x) = w
      /\ \A v \in Thread : Peer(v) \in Thread /\ (Peer(v) = w => v = x)
  BY PeerFacts
<1>2. /\ net' = [net EXCEPT ![w] = @ - 1] /\ posted' = [posted EXCEPT ![w] = @ - 1]
      /\ recvCq' = [recvCq EXCEPT ![w] = @ + 1] /\ ack' = [ack EXCEPT ![x] = @ + 1]
      /\ UNCHANGED <<op, sendCq, preposted>>
  BY DEF Deliver, mainVars
<1> HIDE DEF x
<1>3. /\ net'[w] = net[w] - 1 /\ posted'[w] = posted[w] - 1 /\ recvCq'[w] = recvCq[w] + 1
      /\ ack'[x] = ack[x] + 1
      /\ \A v \in Thread : v # w => net'[v] = net[v] /\ posted'[v] = posted[v] /\ recvCq'[v] = recvCq[v]
      /\ \A v \in Thread : v # x => ack'[v] = ack[v]
  BY <1>1, <1>2 DEF TypeOK
<1>4. \A v \in Thread : Counts(v)
  BY DEF TypeOK, Counts
<1>5. ASSUME NEW v \in Thread PROVE RecvAt(v)' /\ SendAt(v)' /\ Share(v)' = Share(v)
  <2>1. RecvAt(v) /\ SendAt(v)
    BY DEF Balance, Receives, Sends, RecvAt, SendAt
  <2>2. RecvAt(v)'
    <3>1. posted'[v] + recvCq'[v] = posted[v] + recvCq[v]
      BY <1>3, <1>4 DEF Counts
    <3> QED  BY <1>2, <2>1, <3>1, ZenonT(30) DEF RecvAt
  <2>3. SendAt(v)'
    <3>1. net'[Peer(v)] + ack'[v] + sendCq'[v] = net[Peer(v)] + ack[v] + sendCq[v]
      <4>1. CASE v = x
        BY <1>1, <1>2, <1>3, <1>4, <4>1 DEF Counts
      <4>2. CASE v # x
        BY <1>1, <1>2, <1>3, <4>2
      <4> QED  BY <4>1, <4>2, ZenonT(30)
    <3> QED  BY <1>2, <2>1, <3>1, ZenonT(30) DEF SendAt, Peer
  <2>4. Share(v)' = Share(v)
    BY <1>2, <1>3, <1>4, SMTT(30) DEF Share, Counts, One
  <2> QED  BY <2>2, <2>3, <2>4, ZenonT(30)
<1>6. Token'
  BY <1>5, PeerFacts DEF Balance, Token, Peer
<1> QED
  BY <1>5, <1>6 DEF Balance, Receives, Sends, RecvAt, SendAt

LEMMA CompleteBalance ==
  ASSUME TypeOK, Balance, NEW w \in Thread, CompleteSend(w)
  PROVE  Balance'
<1>1. /\ UNCHANGED <<op, posted, recvCq, net, preposted>>
      /\ ack'[w] = ack[w] - 1 /\ sendCq'[w] = sendCq[w] + 1
      /\ \A v \in Thread : v # w => ack'[v] = ack[v] /\ sendCq'[v] = sendCq[v]
  BY DEF CompleteSend, mainVars, TypeOK
<1>2. Receives' /\ Token'
  BY <1>1, Zenon DEF Balance, Receives, Token, Share, Peer
<1>3. ASSUME NEW v \in Thread PROVE SendAt(v)'
  <2>1. SendAt(v) /\ Peer(v) \in Thread
    BY PeerFacts DEF Balance, Sends, SendAt
  <2>2. net[Peer(v)] \in Nat /\ ack[v] \in Nat /\ sendCq[v] \in Nat
    BY <2>1 DEF TypeOK
  <2>3. net'[Peer(v)] + ack'[v] + sendCq'[v] = net[Peer(v)] + ack[v] + sendCq[v]
    BY <1>1, <2>2
  <2> QED  BY <1>1, <2>1, <2>3 DEF SendAt, Peer
<1> QED
  BY <1>2, <1>3 DEF Balance, Sends, SendAt

LEMMA PrepostBalance ==
  ASSUME TypeOK, Balance, NEW r \in Rank, MainPrepost(r)
  PROVE  Balance'
<1> DEFINE n == preposted[r]
           w == <<r, n>>
<1>1. n \in Nat /\ n < tx_thread_num /\ tx_thread_num \in Nat
  BY RunAssumption DEF MainPrepost, TypeOK
<1>2. w \in Thread /\ w[1] = r /\ w[2] = n
  BY <1>1, ThreadFacts DEF Worker
<1>3. /\ posted'[w] = posted[w] + NUM_PREPOST_RECV /\ preposted'[r] = n + 1
      /\ \A v \in Thread : v # w => posted'[v] = posted[v]
      /\ \A q \in Rank : q # r => preposted'[q] = preposted[q]
      /\ UNCHANGED <<op, recvCq, sendCq, net, ack>>
  BY <1>2 DEF MainPrepost, TypeOK
<1>4. Sends' /\ Token'
  BY <1>3, Zenon DEF Balance, Sends, Token, Share, Peer
<1> HIDE DEF n, w
<1>5. ASSUME NEW v \in Thread PROVE RecvAt(v)'
  <2>1. /\ RecvAt(v) /\ posted[v] \in Nat /\ recvCq[v] \in Nat
        /\ v = <<v[1], v[2]>> /\ v[1] \in Rank /\ v[2] \in Nat
    BY ThreadFacts, RunAssumption, SMTT(30) DEF Balance, Receives, RecvAt, TypeOK, Worker
  <2>2. CASE v = w
    <3>1. posted[v] + recvCq[v] = One(op[v] = "waitRecv")
      BY <1>1, <1>2, <2>1, <2>2 DEF RecvAt, One, n
    <3>2. posted'[v] + recvCq'[v] = NUM_PREPOST_RECV + One(op[v] = "waitRecv")
      BY <1>3, <2>1, <2>2, <3>1, PrepostFacts DEF One
    <3> QED  BY <1>1, <1>2, <1>3, <2>2, <3>2 DEF RecvAt
  <2>3. CASE v # w
    <3>1. (v[2] < preposted'[v[1]]) <=> (v[2] < preposted[v[1]])
      <4>1. CASE v[1] = r
        <5>1. v[2] # n
          BY <2>1, <2>3, <4>1 DEF w
        <5> QED  BY <1>1, <1>3, <2>1, <4>1, <5>1 DEF n
      <4>2. CASE v[1] # r
        BY <1>3, <2>1, <4>2
      <4> QED  BY <4>1, <4>2
    <3> QED  BY <1>3, <2>1, <2>3, <3>1 DEF RecvAt
  <2> QED  BY <2>2, <2>3
<1> QED
  BY <1>4, <1>5 DEF Balance, Receives, RecvAt

LEMMA NextBalance ==
  ASSUME TypeOK, Balance, [Next]_vars
  PROVE  Balance'
<1>1. ASSUME UNCHANGED <<preposted, op, netVars>> PROVE Balance'
  BY <1>1 DEF netVars, Balance, Receives, Sends, Token, Share, Peer
<1>2. ASSUME NEW r \in Rank, MainRun(r) \/ MainFree(r) \/ MainFinalize(r) PROVE Balance'
  BY <1>1, <1>2 DEF MainRun, MainFree, MainFinalize
<1>3. ASSUME NEW w \in Thread, Drive(w) PROVE Balance'
  BY <1>1, <1>3 DEF Drive, mainVars
<1>4. CASE UNCHANGED vars
  BY <1>1, <1>4 DEF vars, mainVars
<1> QED
  BY <1>2, <1>3, <1>4, isendBalance, LocalBalance, DeliverBalance, CompleteBalance, PrepostBalance, ZenonT(30)
     DEF Next, MainStep, WorkerStep, NetStep, WaitMore, Finished

-----------------------------------------------------------------------------
(* The inductive invariant and what follows from it. *)

LEMMA InitIInv == Init => IInv
<1> SUFFICES ASSUME Init PROVE IInv
  OBVIOUS
<1>1. TypeOK /\ RunInv
  BY InitTypeOK, InitRunInv DEF Init
<1>2. Phases
  BY DEF Init, RunInit, Phases
<1>3. Receives
  <2>1. \A w \in Thread : w[1] \in Rank /\ ~(w[2] < 0)
    BY ThreadFacts, RunAssumption DEF Worker
  <2> QED  BY <2>1 DEF Init, Receives, One, FirstOp
<1>4. Sends
  BY PeerFacts DEF Init, Sends, One, FirstOp
<1>5. Token
  BY PeerFacts DEF Init, Token, Share, One, FirstOp
<1> QED
  BY <1>1, <1>2, <1>3, <1>4, <1>5 DEF IInv

LEMMA NextIInv == IInv /\ [Next]_vars => IInv'
BY NextTypeOK, NextRunInv, StepIsRun, NextPhases, NextBalance DEF IInv, Balance

LEMMA InductiveInvariant == Spec => []IInv
BY InitIInv, NextIInv, PTL DEF Spec

LEMMA InvPollsOne == IInv => PollsOne
BY BalanceFacts DEF IInv, Balance, PollsOne

LEMMA InvRecvQueueBound == IInv => RecvQueueBound
<1> SUFFICES ASSUME IInv, NEW w \in Thread PROVE posted[w] + recvCq[w] <= RX_QUEUE_LEN
  BY DEF RecvQueueBound
<1> QED
  BY PrepostFacts DEF IInv, Receives, One

(* A message that is under way was sent from a loop, so all have preposted.*)
LEMMA InvNoRnr == IInv => NoRnr
<1> SUFFICES ASSUME IInv, NEW w \in Thread PROVE net[w] <= posted[w]
  BY DEF NoRnr
<1> DEFINE x == Peer(w)
<1>1. x \in Thread /\ Peer(x) = w /\ w[1] \in Rank /\ w[2] \in Worker
  BY PeerFacts, ThreadFacts
<1>2. TypeOK /\ Balance /\ RunInv /\ Phases
  BY DEF IInv, Balance
<1> HIDE DEF x
<1>3. net[w] \in Nat /\ posted[w] \in Nat /\ recvCq[w] \in Nat /\ net[w] <= 1 /\ recvCq[w] <= 1
  BY <1>2, BalanceFacts DEF Counts
<1>4. CASE net[w] = 0
  BY <1>3, <1>4
<1>5. CASE net[w] # 0
  <2>1. op[x] = "waitSend"
    BY <1>1, <1>2, <1>5, BalanceFacts
  <2>2. stage[x] \in Loop
    BY <1>1, <1>2, <2>1, FirstOpFacts DEF Phases, InLoop
  <2>3. ~(stage[w] = "reset0" /\ sizeIdx[w] = 0)
    BY <1>1, <1>2, <2>2, EverybodyStarted
  <2>4. preposted[w[1]] = tx_thread_num
    BY <1>1, <1>2, <2>3 DEF Phases
  <2>5. w[2] < preposted[w[1]]
    BY <1>1, <2>4, RunAssumption, SMTT(30) DEF Worker
  <2>6. posted[w] + recvCq[w] >= NUM_PREPOST_RECV
    BY <1>2, <1>3, <2>5, PrepostFacts DEF Balance, Receives, One
  <2> QED  BY <1>3, <2>6, PrepostFacts
<1> QED
  BY <1>4, <1>5

(* Whoever frees has returned, so nobody is in a lambda any more. *)
LEMMA InvQuietAtFree == IInv => QuietAtFree
<1> SUFFICES ASSUME IInv, NEW w \in Thread, Freed(w)
             PROVE  /\ posted[w] = NUM_PREPOST_RECV
                    /\ net[w] = 0 /\ net[Peer(w)] = 0 /\ ack[w] = 0
                    /\ recvCq[w] = 0 /\ sendCq[w] = 0
  BY DEF QuietAtFree
<1>1. Peer(w) \in Thread /\ Peer(Peer(w)) = w /\ w[1] \in Rank /\ w[2] \in Worker
  BY PeerFacts, ThreadFacts
<1>2. TypeOK /\ Balance /\ RunInv /\ Phases /\ NobodyLeftBehind
  BY InvNobodyLeftBehind DEF IInv, Balance
<1>3. stage[w] = "exit" /\ preposted[w[1]] = tx_thread_num
  BY <1>1, <1>2 DEF Freed, Phases
<1>4. \A v \in Thread : op[v] = FirstOp(v)
  BY <1>2, <1>3 DEF NobodyLeftBehind, Phases, InLoop, Loop
<1>5. op[w] \in {"isend", "irecv"} /\ op[Peer(w)] \in {"isend", "irecv"}
  BY <1>1, <1>4, FirstOpFacts
<1>6. net[Peer(w)] = 0 /\ ack[w] = 0 /\ sendCq[w] = 0 /\ net[w] = 0
  BY <1>1, <1>2, <1>5, BalanceFacts
<1>7. recvCq[w] = 0
  <2>1. CASE op[w] = "isend"
    BY <1>2, <2>1, BalanceFacts
  <2>2. CASE op[w] = "irecv"
    <3>1. op[Peer(w)] = "isend"
      BY <1>1, <1>4, <2>2, PeerFacts, ZenonT(30) DEF FirstOp
    <3>2. Share(Peer(w)) = net[Peer(w)] + recvCq[Peer(w)] + 1 /\ Share(w) = net[w] + recvCq[w]
      BY <1>1, <1>2, <2>2, <3>1, ShareFacts, BalanceFacts, ZenonT(30)
    <3>3. net[Peer(w)] = 0 /\ recvCq[Peer(w)] = 0
      BY <1>1, <1>2, <3>1, BalanceFacts
    <3>4. recvCq[w] \in Nat
      BY <1>2 DEF TypeOK
    <3>5. Share(w) + Share(Peer(w)) = 1
      BY <1>2 DEF Balance, Token
    <3> QED  BY <1>6, <3>2, <3>3, <3>4, <3>5
  <2> QED  BY <1>5, <2>1, <2>2
<1>8. posted[w] = NUM_PREPOST_RECV
  <2>1. w[2] < preposted[w[1]]
    BY <1>1, <1>3, RunAssumption DEF Worker
  <2>2. posted[w] + recvCq[w] = NUM_PREPOST_RECV + 0 /\ posted[w] \in Nat
    BY <1>2, <1>5, <2>1 DEF Balance, Receives, One, TypeOK
  <2> QED  BY <1>7, <2>2, PrepostFacts
<1> QED
  BY <1>6, <1>7, <1>8

(* No completion is thrown away by a poll that finds two. *)
THEOREM PollsFindOne == Spec => []PollsOne
BY InvPollsOne, InductiveInvariant, PTL

(* The receive queue never overflows. *)
THEOREM RecvQueueBounded == Spec => []RecvQueueBound
BY InvRecvQueueBound, InductiveInvariant, PTL

(* Every message finds a posted receive. *)
THEOREM MessagesFindReceives == Spec => []NoRnr
BY InvNoRnr, InductiveInvariant, PTL

(* Queue pairs are freed when nothing is under way. *)
THEOREM FreedQuietly == Spec => []QuietAtFree
BY InvQuietAtFree, InductiveInvariant, PTL
=============================================================================
