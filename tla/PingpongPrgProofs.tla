------------------------- MODULE PingpongPrgProofs -------------------------
(***************************************************************************)
(* The safety of the progress-thread benchmark for every number of         *)
(* processes, workers, progress threads, message sizes, iterations,        *)
(* prefilled messages and posted receives.                                 *)
(*                                                                         *)
(* The receive and class invariants follow from IInv. What the counters of *)
(* the workers and of the progress threads have to do with each other is   *)
(* TokenInv: how often every worker was handed a message (round robin over *)
(* its class), and that the messages a class was sent are those it was     *)
(* handed and those still under way. The latter is about sums over a       *)
(* class; the laws of these sums are proved for finite sets at the end     *)
(* (ClassLawsHold), and everything before cites them as ClassLaws.         *)
(* TokensAreConserved is about an even number of processes, the only one   *)
(* for which the ranks form pairs.                                         *)
(***************************************************************************)
EXTENDS PingpongPrgTokens, RunVaryMsgProofs

-----------------------------------------------------------------------------
(* Arithmetic. *)

(* A count i that syncs brings up and buffers given take off. *)
LEMMA CountArithmetic ==
  \A i, j, k \in Nat : /\ i <= i /\ (j >= k => i + j - k >= i)
                      /\ (i + j - k = i => j = k) /\ (i = i + j - k => j = k)
OBVIOUS

(* Sums t and h on either side of shares s and c of a common bound. *)
LEMMA OwedArithmetic ==
  \A t, h, s, c \in Nat : t <= s /\ s <= c /\ c <= h => t <= h /\ (t = h => h = c)
OBVIOUS

(* A sum that owes nothing has nothing under way. *)
LEMMA QuietArithmetic ==
  \A t, h, i, j, k \in Nat : t <= h /\ t = h + (i + j + k) => i = 0 /\ j = 0 /\ k = 0 /\ t = h
OBVIOUS

(* One message more is sent and under way. *)
SendRule(t, h, b, g, s) ==
  h <= g => /\ t <= h + b => t + (s + 1) - s <= g + (b + 1)
            /\ t = h + b => t + (s + 1) - s = h + (b + 1)

LEMMA SendArithmetic == \A t, h, b, g, s \in Nat : SendRule(t, h, b, g, s)
BY DEF SendRule

(* The tokens of two classes that send to each other. *)
PairRule(N, g, p, x1, s1, h1, f1, q, x2, s2, h2, f2) ==
  x1 + s1 = h1 + g + f1 /\ x2 + s2 = h2 + g + f2 /\ f1 + f2 = N =>
    /\ s2 <= h1 + p /\ s1 <= h2 + q => (p + x1) + (q + x2) >= N + (g + g)
    /\ s2 = h1 + p /\ s1 = h2 + q => (p + x1) + (q + x2) = N + (g + g)

LEMMA PairArithmetic ==
  \A N, g, p, x1, s1, h1, f1, q, x2, s2, h2, f2 \in Nat :
    PairRule(N, g, p, x1, s1, h1, f1, q, x2, s2, h2, f2)
BY DEF PairRule

(* The turn passes from i to j: every R-th of n workers from p on takes it. *)
TurnRule(R, n, p, i, j, w, u, a, b) ==
  /\ j = IF i + R >= n THEN p ELSE i + R
  /\ w < n /\ p <= w /\ (i < w => i + R <= w)
  /\ u < n /\ p <= u /\ (i < u => i + R <= u)
  /\ w < u /\ a = b + (IF w < i /\ i <= u THEN 1 ELSE 0)
  => (IF w = i THEN a + 1 ELSE a)
       = (IF u = i THEN b + 1 ELSE b) + (IF w < j /\ j <= u THEN 1 ELSE 0)

LEMMA TurnArithmetic ==
  \A R \in Nat \ {0} : \A n, p, i, w, u, a, b \in Nat : \A j : TurnRule(R, n, p, i, j, w, u, a, b)
BY DEF TurnRule

(* The rank half a ring further on. *)
LEMMA HalfRing ==
  ASSUME NEW h \in Nat \ {0}, NEW q \in Nat, q < h + h
  PROVE  (q + h) % (h + h) = IF q < h THEN q + h ELSE q - h
OBVIOUS

-----------------------------------------------------------------------------
(* The units a sum counts, as sets. *)

LEMMA UnitsMembers ==
  ASSUME NEW S, NEW f
  PROVE  \A c : c \in Units(f, S) <=> \E w \in S : \E k \in 1 .. f[w] : c = <<w, k>>
BY DEF Units

(* One member of S apart from the others. *)
LEMMA UnitsSplit ==
  ASSUME NEW S, NEW f, NEW x \in S
  PROVE  /\ Units(f, S) = Units(f, S \ {x}) \cup ({x} \X (1 .. f[x]))
         /\ Units(f, S \ {x}) \cap ({x} \X (1 .. f[x])) = {}
<1> DEFINE A == Units(f, S \ {x})
           B == {x} \X (1 .. f[x])
<1> HIDE DEF A, B
<1> QED
  BY UnitsMembers

(* Equal shares, and larger ones. *)
LEMMA UnitsConst ==
  ASSUME NEW S, NEW f, NEW n, \A w \in S : f[w] = n
  PROVE  Units(f, S) = S \X (1 .. n)
BY UnitsMembers

LEMMA UnitsGrow ==
  ASSUME NEW S, NEW f, NEW g, \A w \in S : f[w] \in Nat,
         \A w \in S : g[w] \in Nat /\ g[w] >= f[w]
  PROVE  Units(f, S) \in SUBSET Units(g, S)
BY UnitsMembers

(* The units of g come after those of f. *)
After(f, h, S) == {c \in Units(h, S) : c[2] > f[c[1]]}
Move(f, g, S) == [c \in Units(g, S) |-> <<c[1], f[c[1]] + c[2]>>]

Follows(f, g, h, S) ==
  /\ Units(h, S) = Units(f, S) \cup After(f, h, S)
  /\ Units(f, S) \cap After(f, h, S) = {}
  /\ Move(f, g, S) \in [Units(g, S) -> After(f, h, S)]
  /\ \A c, d \in Units(g, S) : Move(f, g, S)[c] = Move(f, g, S)[d] => c = d
  /\ \A c \in After(f, h, S) : \E d \in Units(g, S) : Move(f, g, S)[d] = c

LEMMA UnitsAdd ==
  ASSUME NEW S, NEW f, NEW g, NEW h, \A w \in S : f[w] \in Nat, \A w \in S : g[w] \in Nat,
         \A w \in S : h[w] = f[w] + g[w]
  PROVE  Follows(f, g, h, S)
<1> DEFINE U == Units(f, S)
           G == Units(g, S)
           after == After(f, h, S)
           move == [c \in G |-> <<c[1], f[c[1]] + c[2]>>]
<1>1. ASSUME NEW c \in G
      PROVE  c = <<c[1], c[2]>> /\ c[1] \in S /\ c[2] \in 1 .. g[c[1]] /\ <<c[1], f[c[1]] + c[2]>> \in after
  BY UnitsMembers DEF After
<1>2. ASSUME NEW c \in after
      PROVE  \E d \in G : <<d[1], f[d[1]] + d[2]>> = c
  <2>1. c \in Units(h, S) /\ c[2] > f[c[1]]
    BY Zenon DEF After
  <2>2. PICK w \in S : \E k \in 1 .. h[w] : c = <<w, k>>
    BY <2>1, UnitsMembers
  <2>3. c = <<c[1], c[2]>> /\ c[1] \in S /\ c[2] \in 1 .. h[c[1]]
    BY <2>2
  <2>4. c[2] - f[c[1]] \in 1 .. g[c[1]] /\ f[c[1]] + (c[2] - f[c[1]]) = c[2]
    BY <2>1, <2>3
  <2>5. <<c[1], c[2] - f[c[1]]>> \in G
    BY <2>3, <2>4, UnitsMembers, Zenon
  <2>6. WITNESS <<c[1], c[2] - f[c[1]]>> \in G
  <2> QED  BY <2>3
<1>3. ASSUME NEW c \in G, NEW d \in G, move[c] = move[d] PROVE c = d
  <2>1. c = <<c[1], c[2]>> /\ c[1] \in S /\ c[2] \in 1 .. g[c[1]] /\ d = <<d[1], d[2]>> /\ d[2] \in 1 .. g[d[1]]
    BY <1>1, Zenon
  <2> QED  BY <1>3, <2>1
<1>4. ASSUME NEW c \in after PROVE \E d \in G : move[d] = c
  BY <1>2, Zenon
<1>5. Units(h, S) = U \cup after
  <2>1. ASSUME NEW c \in U PROVE c \in Units(h, S)
    BY UnitsMembers
  <2>2. ASSUME NEW c \in Units(h, S), c \notin after PROVE c \in U
    BY <2>2, UnitsMembers DEF After
  <2> QED  BY <2>1, <2>2, Zenon DEF After
<1>6. U \cap after = {}
  <2>1. ASSUME NEW c \in U PROVE c \notin after
    <3>1. PICK w \in S : \E k \in 1 .. f[w] : c = <<w, k>>
      BY UnitsMembers
    <3> QED  BY <3>1 DEF After
  <2> QED  BY <2>1, Zenon
<1> QED
  BY <1>1, <1>3, <1>4, <1>5, <1>6, Zenon DEF Move, Follows

-----------------------------------------------------------------------------
(* Facts about the constants. *)

(* The assumptions without the divisibility, which is seldom needed. *)
LEMMA ConstFacts ==
  /\ rx_thread_num \in Nat \ {0} /\ tx_thread_num \in Nat \ {0}
  /\ prefilled_work \in Nat
  /\ NUM_PREPOST_RECV \in Nat \ {0} /\ numToPoll \in Nat \ {0}
BY ConstantsAssumption, RunAssumption

LEMMA PrgFacts ==
  /\ \A p \in PrgThread : p = <<p[1], p[2]>> /\ p[1] \in Rank /\ p[2] \in ProgressId
  /\ \A r \in Rank, id \in ProgressId : <<r, id>> \in PrgThread
BY DEF PrgThread

(* There are at least as many workers as progress threads. *)
LEMMA ClassNotEmpty == rx_thread_num <= tx_thread_num /\ ProgressId \subseteq Worker
BY ConstantsAssumption, RunAssumption DEF ProgressId, Worker

(* Quotient and remainder are unique. *)
LEMMA SmallMultiple ==
  ASSUME NEW R \in Nat, NEW m \in Int, -R < R * m, R * m < R
  PROVE  m = 0
<1>1. ASSUME m >= 1 PROVE FALSE
  <2>1. PICK k \in Nat : m = k + 1
    BY <1>1
  <2> QED  BY <2>1
<1>2. ASSUME m <= -1 PROVE FALSE
  <2>1. PICK k \in Nat : m = -1 - k
    BY <1>2
  <2> QED  BY <2>1
<1> QED
  OBVIOUS

(* Adding rx_thread_num stays in the class. *)
LEMMA SameClass ==
  ASSUME NEW i \in Nat
  PROVE  (i + rx_thread_num) % rx_thread_num = i % rx_thread_num
<1> DEFINE R == rx_thread_num
           q == i \div R
           Q == (i + R) \div R
<1>1. R \in Nat \ {0}
  BY ConstFacts
<1> HIDE DEF R
<1>2. q \in Int /\ i % R \in 0 .. R - 1 /\ i = R * q + (i % R)
  BY <1>1
<1>3. Q \in Int /\ (i + R) % R \in 0 .. R - 1 /\ i + R = R * Q + ((i + R) % R)
  BY <1>1
<1> HIDE DEF q, Q
<1>4. Q - q - 1 = 0
  BY <1>1, <1>2, <1>3
<1> QED  BY <1>1, <1>2, <1>3, <1>4 DEF R

LEMMA OwnId ==
  ASSUME NEW id \in ProgressId
  PROVE  id % rx_thread_num = id
BY ConstFacts DEF ProgressId

LEMMA Increment ==
  ASSUME NEW id \in ProgressId, NEW i \in Worker
  PROVE  /\ incrementWorkerIdx(id, i) \in Worker
         /\ i % rx_thread_num = id => incrementWorkerIdx(id, i) % rx_thread_num = id
<1>1. i \in Nat /\ i + rx_thread_num \in Nat /\ id \in Worker
  BY ConstFacts, ClassNotEmpty DEF Worker
<1>2. ASSUME i % rx_thread_num = id PROVE incrementWorkerIdx(id, i) % rx_thread_num = id
  BY <1>1, <1>2, SameClass, OwnId DEF incrementWorkerIdx
<1> QED
  BY <1>1, <1>2, ConstFacts DEF incrementWorkerIdx, Worker

(* An update keeps a function's type, wherever it is. *)
LEMMA UpdateType ==
  ASSUME NEW S, NEW T, NEW f \in [S -> T], NEW x, NEW v, x \in S => v \in T
  PROVE  [f EXCEPT ![x] = v] \in [S -> T]
BY Zenon

-----------------------------------------------------------------------------
(* The workers execute RUN_VARY_MSG, and nobody else touches its state. *)

LEMMA HalfIsRun ==
  ASSUME NEW w \in Thread, EndHalf(w)
  PROVE  [RunNext]_runVars
BY DEF EndHalf, RunNext, RunStep

LEMMA WorkerIsRun ==
  ASSUME NEW w \in Thread, WorkerStep(w)
  PROVE  [RunNext]_runVars
<1>1. CASE ResetSync(w) \/ ResetIdx(w)
  BY <1>1 DEF ResetSync, ResetIdx
<1>2. CASE EnterBarrier(w)
  BY <1>2 DEF EnterBarrier, RunNext, RunStep
<1>3. CASE Drive(w)
  BY <1>3 DEF Drive, RunNext, RunStep
<1>4. CASE Send(w) \/ TakeSync(w)
  BY <1>4, HalfIsRun DEF Send, TakeSync
<1> QED
  BY <1>1, <1>2, <1>3, <1>4 DEF WorkerStep

LEMMA PrgFrame ==
  ASSUME NEW p \in PrgThread, PrgStep(p) \/ Deliver(p)
  PROVE  UNCHANGED <<runVars, mainVars>>
BY DEF PrgStep, PrgStart, PrgPollEmpty, PrgPoll, PrgLoad, PrgStore, PrgSignal, PrgRefill, PrgExit, Deliver, vars

LEMMA MainFrame ==
  ASSUME NEW r \in Rank, MainStep(r)
  PROVE  UNCHANGED <<runVars, workVars, syncs, prgVars, netVars>>
BY DEF MainStep, MainRun, MainStop, MainFree, MainFinalize

LEMMA StepIsRun == [Next]_vars => [RunNext]_runVars
<1> SUFFICES ASSUME [Next]_vars PROVE [RunNext]_runVars
  OBVIOUS
<1>1. CASE UNCHANGED vars
  BY <1>1 DEF vars
<1> QED
  BY <1>1, WorkerIsRun, PrgFrame, MainFrame DEF Next, Finished

(* Refinement: the benchmark implements the driver's specification. *)
THEOREM ImplementsRun == Spec => RunSpec
<1>1. Init => RunInit
  BY DEF Init
<1> QED  BY <1>1, StepIsRun, PTL DEF Spec, RunSpec

-----------------------------------------------------------------------------
(* Type correctness. *)

LEMMA InitTypeOK == Init => TypeOK
<1> SUFFICES ASSUME Init PROVE TypeOK
  OBVIOUS
<1> QED
  BY InitRunInv, ConstFacts, PrgFacts, ClassNotEmpty DEF Init, TypeOK, PrgPc, RunInv, Worker, ResetLength

LEMMA NextTypeOK == TypeOK /\ [Next]_vars => TypeOK'
<1> SUFFICES ASSUME TypeOK, [Next]_vars PROVE TypeOK'
  OBVIOUS
<1>0. RunTypeOK'
  BY NextRunType, StepIsRun DEF TypeOK
<1> USE <1>0 DEF TypeOK, PrgPc, mainVars, workVars, localVars, prgVars, netVars
<1>1. ASSUME NEW r \in Rank, MainStep(r) PROVE TypeOK'
  BY <1>1, ZenonT(30) DEF MainStep, MainRun, MainStop, MainFree, MainFinalize
<1>2. ASSUME NEW w \in Thread, WorkerStep(w) PROVE TypeOK'
  <2>0. w[1] \in Rank /\ ResetLength \in Nat /\ tx_thread_num <= ResetLength
    BY ThreadFacts, ConstFacts DEF ResetLength
  <2>1. CASE ResetSync(w)
    <3>1. resetPos' \in [Rank -> 0 .. ResetLength]
      BY <2>0, <2>1, ConstFacts DEF ResetSync
    <3> QED  BY <2>1, <3>1, ConstFacts, Zenon DEF ResetSync
  <2>2. CASE ResetIdx(w)
    <3> DEFINE v == resetPos[w[1]] - tx_thread_num
               x == <<w[1], v>>
    <3>1. /\ next_worker_idx' = [next_worker_idx EXCEPT ![x] = v]
          /\ resetPos' = [resetPos EXCEPT ![w[1]] = @ + 1]
          /\ resetPos[w[1]] \in tx_thread_num .. ResetLength - 1
          /\ UNCHANGED <<runVars, mainVars, half, syncs, prgPc, localVars, netVars>>
      BY <2>2 DEF ResetIdx
    <3>2. x \in PrgThread => v \in Worker
      BY ClassNotEmpty DEF PrgThread
    <3> HIDE DEF x, v
    <3> QED  BY <2>0, <3>1, <3>2, UpdateType
  <2>3. CASE EnterBarrier(w)
    BY <2>0, <2>3 DEF EnterBarrier
  <2>4. CASE Drive(w)
    BY <2>4 DEF Drive
  <2>5. CASE Send(w)
    <3>1. PICK x : net' = [net EXCEPT ![x] = net[x] + 1]
      BY <2>5, Zenon DEF Send, isend
    <3>2. net' \in [PrgThread -> Nat]
      <4>1. x \in PrgThread => net[x] + 1 \in Nat
        OBVIOUS
      <4> QED  BY <3>1, <4>1, ZenonT(30)
    <3> QED  BY <2>5, <3>2 DEF Send, EndHalf
  <2>6. CASE TakeSync(w)
    BY <2>6 DEF TakeSync, EndHalf
  <2> QED
    BY <1>2, <2>1, <2>2, <2>3, <2>4, <2>5, <2>6 DEF WorkerStep
<1>3. ASSUME NEW p \in PrgThread, PrgStep(p) PROVE TypeOK'
  <2>0. p[2] \in Worker
    BY PrgFacts, ClassNotEmpty
  <2>1. CASE PrgStart(p)
    BY <2>0, <2>1, ConstFacts DEF PrgStart
  <2>2. CASE PrgPoll(p)
    BY <2>2, ConstFacts DEF PrgPoll
  <2>3. CASE PrgLoad(p)
    BY <2>3 DEF PrgLoad
  <2>4. CASE PrgStore(p)
    <3>1. PICK base \in Worker :
             next_worker_idx' = [next_worker_idx EXCEPT ![p] = incrementWorkerIdx(p[2], base)]
      BY <2>4, Zenon DEF PrgStore
    <3> QED  BY <2>4, <3>1, PrgFacts, Increment DEF PrgStore
  <2>5. CASE PrgSignal(p)
    BY <2>5, PrgFacts, ThreadFacts DEF PrgSignal
  <2>6. CASE PrgRefill(p)
    BY <2>0, <2>6 DEF PrgRefill
  <2>7. CASE PrgExit(p)
    BY <2>7 DEF PrgExit
  <2>8. CASE PrgPollEmpty(p)
    BY <2>8 DEF PrgPollEmpty, vars
  <2> QED
    BY <1>3, <2>1, <2>2, <2>3, <2>4, <2>5, <2>6, <2>7, <2>8 DEF PrgStep
<1>4. ASSUME NEW p \in PrgThread, Deliver(p) PROVE TypeOK'
  BY <1>4 DEF Deliver
<1>5. CASE UNCHANGED vars
  BY <1>5 DEF vars
<1> QED
  BY <1>1, <1>2, <1>3, <1>4, <1>5 DEF Next, Finished

(* The type invariant of the benchmark. *)
THEOREM TypeCorrect == Spec => []TypeOK
BY InitTypeOK, NextTypeOK, PTL DEF Spec

-----------------------------------------------------------------------------
(* Main and its threads. *)

LEMMA WorkerFrame ==
  ASSUME NEW w \in Thread, WorkerStep(w)
  PROVE  /\ mainPc[w[1]] = "team"
         /\ UNCHANGED <<mainVars, prgPc, localVars, posted, rxCq>>
<1> USE DEF Running, prgVars, netVars
<1>1. CASE ResetSync(w) \/ ResetIdx(w)
  BY <1>1 DEF ResetSync, ResetIdx, InReset
<1>2. CASE EnterBarrier(w) \/ Drive(w)
  BY <1>2 DEF EnterBarrier, Drive
<1>3. CASE Send(w) \/ TakeSync(w)
  BY <1>3 DEF Send, TakeSync
<1> QED
  BY <1>1, <1>2, <1>3 DEF WorkerStep

(* Workers of other processes do not move. *)
LEMMA WorkerMoves ==
  ASSUME RunTypeOK, NEW w \in Thread, WorkerStep(w), NEW v \in Thread, v # w
  PROVE  stage'[v] = stage[v] /\ sizeIdx'[v] = sizeIdx[v]
<1>1. RunStep(w) \/ UNCHANGED runVars
  <2>1. CASE ResetSync(w) \/ ResetIdx(w)
    BY <2>1 DEF ResetSync, ResetIdx
  <2>2. CASE EnterBarrier(w) \/ Drive(w)
    BY <2>2 DEF EnterBarrier, Drive, RunStep
  <2>3. CASE Send(w) \/ TakeSync(w)
    BY <2>3, ZenonT(30) DEF Send, TakeSync, EndHalf, RunStep
  <2> QED  BY <2>1, <2>2, <2>3 DEF WorkerStep
<1> QED
  BY <1>1, OthersStay DEF runVars

LEMMA PrgStarted ==
  ASSUME TypeOK, NEW p \in PrgThread, PrgStep(p) \/ Deliver(p), NEW q \in PrgThread,
         prgPc[q] # "start"
  PROVE  prgPc'[q] # "start"
<1>1. prgPc \in [PrgThread -> PrgPc]
  BY DEF TypeOK
<1> QED
  BY <1>1 DEF PrgStep, PrgStart, PrgPollEmpty, PrgPoll, PrgLoad, PrgStore, PrgSignal, PrgRefill, PrgExit,
              Deliver, vars, prgVars

LEMMA NextMainPhases ==
  ASSUME TypeOK, MainPhases, [Next]_vars
  PROVE  MainPhases'
<1>1. ASSUME NEW r \in Rank, MainStep(r) PROVE MainPhases'
  <2>0. UNCHANGED <<stage, sizeIdx, prgPc>>
    BY <1>1, MainFrame DEF runVars, prgVars
  <2>1. CASE MainRun(r)
    BY <2>0, <2>1, PrgFacts DEF MainRun, MainPhases
  <2>2. CASE MainStop(r)
    BY <2>0, <2>2, ThreadFacts DEF MainStop, MainPhases
  <2>3. CASE MainFree(r) \/ MainFinalize(r)
    BY <2>0, <2>3 DEF MainFree, MainFinalize, MainPhases, TypeOK
  <2> QED  BY <1>1, <2>1, <2>2, <2>3 DEF MainStep
<1>2. ASSUME NEW w \in Thread, WorkerStep(w) PROVE MainPhases'
  <2>1. \A v \in Thread : v # w => stage'[v] = stage[v] /\ sizeIdx'[v] = sizeIdx[v]
    BY <1>2, WorkerMoves DEF TypeOK
  <2> QED  BY <1>2, <2>1, WorkerFrame DEF MainPhases, mainVars
<1>3. ASSUME NEW p \in PrgThread, PrgStep(p) \/ Deliver(p) PROVE MainPhases'
  BY <1>3, PrgFrame, PrgStarted DEF MainPhases, runVars, mainVars
<1>4. CASE UNCHANGED vars
  BY <1>4 DEF vars, runVars, mainVars, prgVars, MainPhases
<1> QED
  BY <1>1, <1>2, <1>3, <1>4 DEF Next, Finished

-----------------------------------------------------------------------------
(* Receives. *)

ReceiveVars == <<prgPc, numRecvCompleted, posted, rxCq>>

LEMMA ReceiveFrame ==
  ASSUME [Next]_vars
  PROVE  (\E p \in PrgThread : PrgStep(p) \/ Deliver(p)) \/ UNCHANGED ReceiveVars
<1> USE DEF ReceiveVars, prgVars, netVars, localVars
<1>1. ASSUME NEW r \in Rank, MainStep(r) PROVE UNCHANGED ReceiveVars
  BY <1>1, MainFrame
<1>2. ASSUME NEW w \in Thread, WorkerStep(w) PROVE UNCHANGED ReceiveVars
  BY <1>2, WorkerFrame
<1>3. CASE UNCHANGED vars
  BY <1>3 DEF vars
<1> QED
  BY <1>1, <1>2, <1>3 DEF Next, Finished

(* Poll moves completions from the queue to the thread, refill posts them  *)
(* again, delivery moves a receive to the completion queue.                *)
LEMMA NextReceives ==
  ASSUME TypeOK, DispatchPhases, RecvBudget, [Next]_vars
  PROVE  DispatchPhases' /\ RecvBudget'
<1>0. /\ prgPc \in [PrgThread -> PrgPc] /\ numRecvCompleted \in [PrgThread -> Nat]
      /\ posted \in [PrgThread -> Nat] /\ rxCq \in [PrgThread -> Nat]
  BY DEF TypeOK
<1> USE <1>0 DEF DispatchPhases, RecvBudget, netVars, localVars, prgVars
<1>1. ASSUME NEW p \in PrgThread, PrgStep(p) PROVE DispatchPhases' /\ RecvBudget'
  <2>1. CASE PrgStart(p)
    BY <2>1, ConstFacts DEF PrgStart
  <2>2. CASE PrgPoll(p)
    <3> DEFINE n == IF rxCq[p] < numToPoll THEN rxCq[p] ELSE numToPoll
    <3> HIDE DEF n
    <3> QED  BY <2>2, ConstFacts DEF PrgPoll
  <2>3. CASE PrgLoad(p) \/ PrgStore(p) \/ PrgSignal(p) \/ PrgExit(p)
    BY <2>3, ZenonT(30) DEF PrgLoad, PrgStore, PrgSignal, PrgExit
  <2>4. CASE PrgRefill(p)
    BY <2>4, SMTT(30) DEF PrgRefill
  <2>5. CASE PrgPollEmpty(p)
    BY <2>5 DEF PrgPollEmpty, vars
  <2> HIDE DEF DispatchPhases, RecvBudget
  <2> QED  BY <1>1, <2>1, <2>2, <2>3, <2>4, <2>5 DEF PrgStep
<1>2. ASSUME NEW p \in PrgThread, Deliver(p) PROVE DispatchPhases' /\ RecvBudget'
  <2>1. /\ posted' = [posted EXCEPT ![p] = @ - 1] /\ rxCq' = [rxCq EXCEPT ![p] = @ + 1]
        /\ posted[p] > 0
        /\ UNCHANGED <<prgPc, numRecvCompleted>>
    BY <1>2, ZenonT(30) DEF Deliver
  <2>2. DispatchPhases'
    BY <2>1
  <2>3. RecvBudget'
    BY <2>1, SMTT(30)
  <2> HIDE DEF DispatchPhases, RecvBudget
  <2> QED  BY <2>2, <2>3, ZenonT(30)
<1>3. CASE UNCHANGED ReceiveVars
  BY <1>3 DEF ReceiveVars
<1> HIDE DEF DispatchPhases, RecvBudget
<1> QED
  BY <1>1, <1>2, <1>3, ReceiveFrame

-----------------------------------------------------------------------------
(* Whom a progress thread signals. *)

LEMMA NextOwnClass ==
  ASSUME TypeOK, OwnClass, [Next]_vars
  PROVE  OwnClass'
<1>0. /\ prgPc \in [PrgThread -> PrgPc] /\ worker_idx \in [PrgThread -> Worker]
      /\ next_worker_idx \in [PrgThread -> Worker]
  BY DEF TypeOK
<1>1. ASSUME NEW r \in Rank, MainStep(r) PROVE OwnClass'
  BY <1>1, MainFrame DEF prgVars, localVars, OwnClass
<1>2. ASSUME NEW w \in Thread, WorkerStep(w) PROVE OwnClass'
  <2>0. UNCHANGED <<prgPc, worker_idx>>
    BY <1>2, WorkerFrame DEF localVars
  <2>1. CASE ResetIdx(w)
    <3> DEFINE id == resetPos[w[1]] - tx_thread_num
    <3> HIDE DEF id
    <3>1. ASSUME NEW p \in PrgThread, prgPc[p] # "start"
          PROVE  next_worker_idx'[p] % rx_thread_num = p[2]
      BY <1>0, <2>1, <3>1, PrgFacts, OwnId, ZenonT(30) DEF OwnClass, ResetIdx
    <3> QED  BY <2>0, <3>1 DEF OwnClass
  <2>2. CASE ~ResetIdx(w)
    BY <1>2, <2>0, <2>2 DEF OwnClass, WorkerStep, ResetSync, EnterBarrier, Drive, Send, TakeSync, prgVars
  <2> QED  BY <2>1, <2>2
<1>3. ASSUME NEW p \in PrgThread, PrgStep(p) PROVE OwnClass'
  <2> USE <1>0 DEF localVars
  <2>1. CASE PrgStart(p)
    BY <2>1, PrgFacts, OwnId DEF PrgStart, OwnClass
  <2>2. CASE PrgLoad(p)
    BY <2>2 DEF PrgLoad, OwnClass
  <2>3. CASE PrgStore(p)
    BY <2>3, PrgFacts, Increment DEF PrgStore, OwnClass
  <2>4. CASE PrgPoll(p) \/ PrgSignal(p) \/ PrgRefill(p) \/ PrgExit(p)
    BY <2>4, ZenonT(30) DEF PrgPoll, PrgSignal, PrgRefill, PrgExit, OwnClass
  <2>5. CASE PrgPollEmpty(p)
    BY <2>5, ZenonT(30) DEF PrgPollEmpty, vars, prgVars, OwnClass
  <2> QED  BY <1>3, <2>1, <2>2, <2>3, <2>4, <2>5 DEF PrgStep
<1>4. ASSUME NEW p \in PrgThread, Deliver(p) PROVE OwnClass'
  BY <1>4, ZenonT(30) DEF Deliver, localVars, OwnClass
<1>5. CASE UNCHANGED vars
  BY <1>5, Zenon DEF vars, prgVars, localVars, OwnClass
<1> QED
  BY <1>1, <1>2, <1>3, <1>4, <1>5 DEF Next, Finished

-----------------------------------------------------------------------------
(* The inductive invariant and what follows from it. *)

LEMMA InitIInv == Init => IInv
<1> SUFFICES ASSUME Init PROVE IInv
  OBVIOUS
<1> QED
  BY InitTypeOK, InitRunInv DEF IInv, Init, RunInit, MainPhases, DispatchPhases, RecvBudget, OwnClass

LEMMA NextIInv == IInv /\ [Next]_vars => IInv'
BY NextTypeOK, NextRunInv, StepIsRun, NextMainPhases, NextReceives, NextOwnClass DEF IInv

LEMMA InductiveInvariant == Spec => []IInv
BY InitIInv, NextIInv, PTL DEF Spec

(* A worker in a loop is past a proc_barrier, which every worker of every  *)
(* process has called, so every main is past its start-up.                 *)
LEMMA InvReceiversReady == IInv => ReceiversReady
<1> SUFFICES ASSUME IInv, NEW w \in Thread, stage[w] \in Loop, NEW p \in PrgThread
             PROVE  prgPc[p] # "start"
  BY DEF ReceiversReady
<1> DEFINE u == <<p[1], 0>>
<1>1. u \in Thread /\ u[1] = p[1] /\ p[1] \in Rank
  BY PrgFacts, ThreadFacts
<1> HIDE DEF u
<1> QED
  BY <1>1, EverybodyStarted DEF MainPhases, IInv

(* A process that frees its queues has workers that returned. *)
LEMMA InvFreeSafe == IInv => FreeSafe
<1> SUFFICES ASSUME IInv, NEW r \in Rank, mainPc[r] \in {"freed", "done"}, NEW w \in Thread
             PROVE  stage[w] \in {"bar4", "exit"}
  BY DEF FreeSafe
<1>1. stage[<<r, 0>>] = "exit" /\ <<r, 0>> \in Thread
  BY ThreadFacts DEF IInv, MainPhases
<1> QED
  BY <1>1, InvNobodyLeftBehind DEF NobodyLeftBehind, IInv

(* Receives are neither lost nor duplicated. *)
THEOREM ReceivesKept == Spec => []RecvBudget
<1>1. IInv => RecvBudget
  BY DEF IInv
<1> QED  BY <1>1, InductiveInvariant, PTL

(* Progress threads keep to their own workers. *)
THEOREM ClassesKept == Spec => []OwnClass
<1>1. IInv => OwnClass
  BY DEF IInv
<1> QED  BY <1>1, InductiveInvariant, PTL

(* Nobody sends before all receives are posted. *)
THEOREM ReceiversComeFirst == Spec => []ReceiversReady
BY InvReceiversReady, InductiveInvariant, PTL

(* No queue pair is destroyed under a worker that still uses it. *)
THEOREM FreesAreSafe == Spec => []FreeSafe
BY InvFreeSafe, InductiveInvariant, PTL

-----------------------------------------------------------------------------
(* Classes of workers and those who send to them. *)

LEMMA ClassFacts ==
  /\ \A p \in PrgThread : \A w \in Class(p) :
       w \in Thread /\ w[1] = p[1] /\ w[2] % rx_thread_num = p[2] /\ w[2] \in Nat
  /\ \A w \in Thread : \E p \in PrgThread : w \in Class(p)
  /\ \A p, q \in PrgThread : \A w \in Thread : w \in Class(p) /\ w \in Class(q) => p = q
  /\ \A p \in PrgThread, i \in Worker : i % rx_thread_num = p[2] => <<p[1], i>> \in Class(p)
<1>0. \A t \in Worker : t \in Nat /\ t % rx_thread_num \in ProgressId
  BY ConstFacts DEF Worker, ProgressId
<1>1. ASSUME NEW w \in Thread PROVE \E p \in PrgThread : w \in Class(p)
  <2> DEFINE p == <<w[1], w[2] % rx_thread_num>>
  <2> HIDE DEF p
  <2> QED  BY <1>0, ThreadFacts, PrgFacts, Zenon DEF Class
<1>2. ASSUME NEW p \in PrgThread, NEW q \in PrgThread, NEW w \in Thread, w \in Class(p), w \in Class(q)
      PROVE  p = q
  BY <1>2, PrgFacts, Zenon DEF Class
<1>3. ASSUME NEW p \in PrgThread, NEW i \in Worker, i % rx_thread_num = p[2]
      PROVE  <<p[1], i>> \in Class(p)
  BY <1>3, PrgFacts, ThreadFacts, Zenon DEF Class
<1> QED
  BY <1>0, <1>1, <1>2, <1>3, ThreadFacts, Zenon DEF Class

LEMMA Members ==
  \A p \in PrgThread : (\A w \in Class(p) : w \in Thread) /\ (\A w \in Senders(p) : w \in Thread)
BY Zenon DEF Class, Senders

(* The partner process, for an even and an odd number of processes. *)
LEMMA TargetFacts ==
  /\ \A r \in Rank : target_rank(r) \in Rank
  /\ \A r, q \in Rank : target_rank(r) = target_rank(q) => r = q
<1> DEFINE h == Size \div 2
<1>1. h \in Nat /\ h < Size /\ Size \in Nat
  BY RunAssumption
<1>2. \A q \in Rank : q \in Nat /\ q < Size /\ target_rank(q) = (q + h) % Size
  BY <1>1 DEF Rank, target_rank
<1> HIDE DEF h
<1>3. ASSUME NEW q \in Rank PROVE target_rank(q) = IF q + h < Size THEN q + h ELSE q + h - Size
  <2>0. q \in Nat /\ q < Size /\ target_rank(q) = (q + h) % Size
    BY <1>2
  <2>1. ASSUME q + h < Size PROVE (q + h) % Size = q + h
    BY <1>1, <2>0, <2>1
  <2>2. ASSUME ~(q + h < Size) PROVE (q + h) % Size = q + h - Size
    BY <1>1, <2>0, <2>2
  <2> QED  BY <2>0, <2>1, <2>2
<1>4. ASSUME NEW q \in Rank PROVE target_rank(q) \in Rank
  BY <1>1, <1>3 DEF Rank
<1>5. ASSUME NEW r \in Rank, NEW q \in Rank, target_rank(r) = target_rank(q) PROVE r = q
  <2>1. CASE r + h < Size
    BY <1>1, <1>2, <1>5
  <2>2. CASE ~(r + h < Size)
    BY <1>1, <1>2, <1>5
  <2> QED  BY <2>1, <2>2, Zenon
<1> QED
  BY <1>4, <1>5, Zenon

(* No more workers send to a progress thread than it serves: each has its  *)
(* own counterpart there.                                                  *)
HomeOf(p) == [v \in Senders(p) |-> <<p[1], v[2]>>]

LEMMA SendersFit ==
  ASSUME NEW p \in PrgThread
  PROVE  /\ HomeOf(p) \in [Senders(p) -> Class(p)]
         /\ \A v, u \in Senders(p) : HomeOf(p)[v] = HomeOf(p)[u] => v = u
<1> DEFINE S == Senders(p)
           C == Class(p)
           f == [v \in S |-> <<p[1], v[2]>>]
<1>1. ASSUME NEW v \in S PROVE <<p[1], v[2]>> \in C
  BY ClassFacts, ThreadFacts, Zenon DEF Senders
<1>2. ASSUME NEW v \in S, NEW u \in S, f[v] = f[u] PROVE v = u
  <2>1. /\ v = <<v[1], v[2]>> /\ u = <<u[1], u[2]>> /\ v[1] \in Rank /\ u[1] \in Rank
        /\ target_rank(v[1]) = p[1] /\ target_rank(u[1]) = p[1]
    BY ThreadFacts, Zenon DEF Senders
  <2> QED  BY <1>2, <2>1, TargetFacts, Zenon
<1> QED
  BY <1>1, <1>2, Zenon DEF HomeOf

(* The next worker of a class is rx_thread_num further. *)
LEMMA ClassStep ==
  ASSUME NEW i \in Nat, NEW j \in Nat, i % rx_thread_num = j % rx_thread_num, i < j
  PROVE  i + rx_thread_num <= j
<1> DEFINE R == rx_thread_num
           q == i \div R
           Q == j \div R
<1>1. R \in Nat \ {0}
  BY ConstFacts
<1> HIDE DEF R
<1>2. q \in Int /\ i % R \in 0 .. R - 1 /\ i = R * q + (i % R)
  BY <1>1
<1>3. Q \in Int /\ j % R \in 0 .. R - 1 /\ j = R * Q + (j % R)
  BY <1>1
<1> HIDE DEF q, Q
<1>4. j - i = R * (Q - q) /\ Q - q \in Int
  BY <1>1, <1>2, <1>3 DEF R
<1>5. ASSUME j < i + R PROVE FALSE
  BY <1>1, <1>4, <1>5
<1> QED
  BY <1>1, <1>5 DEF R

-----------------------------------------------------------------------------
(* What a worker's step does to the workers. *)

Drives(w) ==
  RunEnter(w) \/ RunLeave(w) \/ RunEnterTeam(w) \/ RunLeaveTeam(w) \/ RunReport(w)

LEMMA WorkerKinds ==
  ASSUME NEW w \in Thread, WorkerStep(w)
  PROVE  \/ (Send(w) \/ TakeSync(w)) /\ InLoop(w) /\ EndHalf(w)
         \/ half' = half /\ Drives(w)
         \/ half' = half /\ UNCHANGED runVars
<1>1. CASE ResetSync(w) \/ ResetIdx(w)
  BY <1>1, Zenon DEF ResetSync, ResetIdx
<1>2. CASE EnterBarrier(w) \/ Drive(w)
  BY <1>2, Zenon DEF EnterBarrier, Drive, Drives, workVars
<1>3. CASE Send(w) \/ TakeSync(w)
  BY <1>3, Zenon DEF Send, TakeSync
<1> QED
  BY <1>1, <1>2, <1>3, Zenon DEF WorkerStep

LEMMA WorkerOthers ==
  ASSUME TypeOK, NEW w \in Thread, WorkerStep(w), NEW v \in Thread, v # w
  PROVE  /\ stage'[v] = stage[v] /\ sizeIdx'[v] = sizeIdx[v] /\ iter'[v] = iter[v]
         /\ half'[v] = half[v]
BY OthersStay, IterStays, WorkerKinds, Zenon DEF runVars, TypeOK, Drives, RunStep, EndHalf

LEMMA EndHalfFacts ==
  ASSUME TypeOK, NEW w \in Thread, EndHalf(w)
  PROVE  /\ stage' = stage /\ sizeIdx' = sizeIdx
         /\ half[w] => ~half'[w] /\ iter'[w] = iter[w] + 1
         /\ ~half[w] => half'[w] /\ iter' = iter
<1>1. CASE half[w]
  BY <1>1, ZenonT(30) DEF TypeOK, RunTypeOK, EndHalf, RunIterate
<1>2. CASE ~half[w]
  BY <1>2, Zenon DEF EndHalf, runVars, TypeOK
<1> QED
  BY <1>1, <1>2, Zenon

(* The half that ends is a send or a take. *)
LEMMA EndHalfCounts ==
  ASSUME TypeOK, NEW w \in Thread, InLoop(w), EndHalf(w)
  PROVE  /\ half[w] = ~IsSender(w[1]) => Sent'[w] = Sent[w] + 1 /\ Taken'[w] = Taken[w]
         /\ half[w] = IsSender(w[1]) => Sent'[w] = Sent[w] /\ Taken'[w] = Taken[w] + 1
<1>0. /\ iter[w] \in Nat /\ SKIP \in Nat /\ TOTAL \in Nat /\ sizeIdx[w] \in Nat
      /\ half[w] \in BOOLEAN /\ stage[w] \in {"warm", "timed"}
  BY RunAssumption DEF TypeOK, RunTypeOK, InLoop, Loop
<1>1. Before(sizeIdx[w]) \in Nat /\ Iterations(w) \in Nat
  BY <1>0 DEF Before, Iterations
<1>2. Done(w) \in Nat
  BY <1>1 DEF Done
<1> DEFINE s == IF half[w] /\ IsSender(w[1]) THEN 1 ELSE 0
           t == IF half[w] /\ ~IsSender(w[1]) THEN 1 ELSE 0
<1>3. /\ Sent[w] = Done(w) + s /\ Taken[w] = Done(w) + t
      /\ Sent'[w] = Done(w)' + s' /\ Taken'[w] = Done(w)' + t'
  BY Zenon DEF Sent, Taken
<1>4. CASE half[w]
  <2>1. ~half'[w] /\ iter'[w] = iter[w] + 1 /\ stage' = stage /\ sizeIdx' = sizeIdx
    BY <1>4, EndHalfFacts, Zenon
  <2>2. Iterations(w)' = Iterations(w) + 1
    <3>1. CASE stage[w] = "warm"
      BY <2>1, <3>1, Zenon DEF Iterations
    <3>2. CASE stage[w] = "timed"
      BY <1>0, <2>1 DEF Iterations
    <3> QED  BY <1>0, <3>1, <3>2
  <2>3. Done(w)' = Done(w) + 1
    BY <1>1, <2>1, <2>2 DEF Done
  <2>4. s' = 0 /\ t' = 0
    BY <2>1, Zenon
  <2>5. CASE IsSender(w[1])
    <3>1. s = 1 /\ t = 0 /\ half[w] # ~IsSender(w[1])
      BY <1>4, <2>5, Zenon
    <3> HIDE DEF s, t
    <3> QED  BY <1>2, <1>3, <2>3, <2>4, <3>1
  <2>6. CASE ~IsSender(w[1])
    <3>1. s = 0 /\ t = 1 /\ half[w] # IsSender(w[1])
      BY <1>4, <2>6, Zenon
    <3> HIDE DEF s, t
    <3> QED  BY <1>2, <1>3, <2>3, <2>4, <3>1
  <2> QED  BY <2>5, <2>6, Zenon
<1>5. CASE ~half[w]
  <2>1. half'[w] /\ iter' = iter /\ stage' = stage /\ sizeIdx' = sizeIdx
    BY <1>5, EndHalfFacts, Zenon
  <2>2. Done(w)' = Done(w)
    BY <2>1, Zenon DEF Done, Iterations
  <2>3. s = 0 /\ t = 0
    BY <1>5, Zenon
  <2>4. CASE IsSender(w[1])
    <3>1. s' = 1 /\ t' = 0 /\ half[w] # IsSender(w[1])
      BY <1>5, <2>1, <2>4, Zenon
    <3> HIDE DEF s, t
    <3> QED  BY <1>2, <1>3, <2>2, <2>3, <3>1
  <2>5. CASE ~IsSender(w[1])
    <3>1. s' = 0 /\ t' = 1 /\ half[w] # ~IsSender(w[1])
      BY <1>5, <2>1, <2>5, Zenon
    <3> HIDE DEF s, t
    <3> QED  BY <1>2, <1>3, <2>2, <2>3, <3>1
  <2> QED  BY <2>4, <2>5, Zenon
<1> QED
  BY <1>4, <1>5, Zenon

(* Whoever does not end a half has sent and taken what it had. *)
LEMMA OthersCounts ==
  ASSUME TypeOK, RunInv, WorkPhases, NEW w \in Thread, WorkerStep(w),
         NEW v \in Thread, v # w \/ ~(Send(w) \/ TakeSync(w))
  PROVE  Sent'[v] = Sent[v] /\ Taken'[v] = Taken[v]
<1>1. ASSUME Done(v)' = Done(v), half'[v] = half[v] PROVE Sent'[v] = Sent[v] /\ Taken'[v] = Taken[v]
  BY <1>1, Zenon DEF Sent, Taken
<1>2. CASE v # w
  BY <1>1, <1>2, WorkerOthers, Zenon DEF Done, Iterations
<1>3. CASE v = w /\ half' = half /\ Drives(w)
  BY <1>1, <1>3, DriveKeeps, Zenon DEF Drives, WorkPhases
<1>4. CASE v = w /\ half' = half /\ UNCHANGED runVars
  BY <1>1, <1>4, Zenon DEF Done, Iterations, runVars
<1> QED
  BY <1>2, <1>3, <1>4, WorkerKinds, Zenon

LEMMA CountTypes ==
  ASSUME TypeOK, NEW w \in Thread, LoopBounded(w)
  PROVE  /\ Done(w) \in Nat /\ Sent[w] \in Nat /\ Taken[w] \in Nat /\ Given[w] \in Nat
         /\ Sent[w] = Done(w) \/ (half[w] /\ Sent[w] = Done(w) + 1)
         /\ Taken[w] = Done(w) \/ (half[w] /\ Taken[w] = Done(w) + 1)
         /\ Handed[w] = Taken[w] + syncs[w] - Given[w] /\ syncs[w] \in Nat
<1>1. Done(w) \in Nat /\ Done(w) + 0 = Done(w)
  BY DoneRange DEF TypeOK
<1>2. /\ Sent[w] = Done(w) \/ (half[w] /\ Sent[w] = Done(w) + 1)
      /\ Taken[w] = Done(w) \/ (half[w] /\ Taken[w] = Done(w) + 1)
  BY <1>1, ZenonT(30) DEF Sent, Taken
<1>3. Given[w] \in Nat
  BY ConstFacts, Zenon DEF Given
<1>4. Handed[w] = Taken[w] + syncs[w] - Given[w] /\ syncs[w] \in Nat
  BY Zenon DEF Handed, TypeOK
<1> QED
  BY <1>1, <1>2, <1>3, <1>4

LEMMA ResetFacts ==
  ASSUME TypeOK, NEW w \in Thread, ResetSync(w) \/ ResetIdx(w)
  PROVE  /\ w = <<w[1], 0>> /\ w[1] \in Rank /\ stage[w] \in Reset /\ half' = half /\ UNCHANGED runVars
         /\ resetPos[w[1]] \in Nat /\ resetPos'[w[1]] = resetPos[w[1]] + 1
         /\ \A r \in Rank : r # w[1] => resetPos'[r] = resetPos[r]
<1>1. /\ w[2] = 0 /\ stage[w] \in Reset /\ half' = half /\ UNCHANGED runVars
      /\ resetPos' = [resetPos EXCEPT ![w[1]] = @ + 1]
  BY ZenonT(30) DEF ResetSync, ResetIdx, InReset
<1> QED
  BY <1>1, ThreadFacts DEF TypeOK

(* resetPos in the other steps of workers. *)
LEMMA PosFacts ==
  ASSUME TypeOK, NEW w \in Thread, WorkerStep(w), ~ResetSync(w), ~ResetIdx(w), NEW r \in Rank
  PROVE  /\ resetPos'[r] = resetPos[r] \/ (w = <<r, 0>> /\ EnterBarrier(w) /\ resetPos'[r] = 0)
         /\ EnterBarrier(w) /\ w = <<r, 0>> => resetPos'[r] = 0
<1>0. w = <<w[1], w[2]>> /\ w[1] \in Rank /\ resetPos \in [Rank -> 0 .. ResetLength]
  BY ThreadFacts DEF TypeOK
<1>1. CASE EnterBarrier(w)
  <2>1. CASE w[1] = r /\ w[2] = 0
    BY <1>0, <1>1, <2>1, Zenon DEF EnterBarrier
  <2>2. CASE ~(w[1] = r /\ w[2] = 0)
    BY <1>0, <1>1 DEF EnterBarrier
  <2> QED  BY <2>1, <2>2, Zenon
<1>2. CASE Drive(w) \/ Send(w) \/ TakeSync(w)
  <2>1. CASE EnterBarrier(w)
    BY <1>1, <2>1, Zenon
  <2> QED  BY <1>2, <2>1, Zenon DEF Drive, Send, TakeSync, workVars
<1> QED
  BY <1>1, <1>2, Zenon DEF WorkerStep

-----------------------------------------------------------------------------
(* Phases of the loops and the dispatch counts are preserved. *)

LEMMA NextWorkPhases ==
  ASSUME TypeOK, RunInv, WorkPhases, [Next]_vars
  PROVE  WorkPhases'
<1> DEFINE At(v) == LoopBounded(v) /\ (half[v] => InLoop(v))
           Pos(r) == stage[<<r, 0>>] \notin Reset => resetPos[r] = 0
<1>0. (\A v \in Thread : At(v)) /\ (\A r \in Rank : Pos(r))
  BY Zenon DEF WorkPhases
<1>1. ASSUME \A v \in Thread : At(v)', \A r \in Rank : Pos(r)' PROVE WorkPhases'
  BY <1>1, Zenon DEF WorkPhases
<1>2. ASSUME UNCHANGED <<runVars, workVars>> PROVE WorkPhases'
  BY <1>2, Zenon DEF WorkPhases, InLoop, LoopBounded, LoopBound, runVars, workVars
<1>3. ASSUME NEW w \in Thread, WorkerStep(w) PROVE WorkPhases'
  <2>1. ASSUME NEW v \in Thread, v # w PROVE At(v)'
    BY <1>0, <1>3, <2>1, WorkerOthers, Zenon DEF InLoop, LoopBounded, LoopBound
  <2>2. At(w)'
    <3>0. At(w) /\ LoopBounded(w)
      BY <1>0, Zenon
    <3>1. CASE InLoop(w) /\ EndHalf(w)
      <4>1. CASE half[w]
        <5>1. ~half'[w] /\ iter'[w] = iter[w] + 1 /\ stage' = stage
          BY <3>1, <4>1, EndHalfFacts, Zenon
        <5>2. LoopBounded(w)'
          <6>1. iter'[w] <= LoopBound(w)
            <7> HIDE DEF LoopBound
            <7> QED  BY <3>1, <5>1, RunAssumption DEF InLoop, LoopBound, TypeOK, RunTypeOK
          <6> QED  BY <5>1, <6>1, Zenon DEF LoopBounded, LoopBound
        <5> QED  BY <5>1, <5>2, Zenon
      <4>2. CASE ~half[w]
        BY <3>0, <3>1, <4>2, EndHalfFacts, Zenon DEF InLoop, LoopBounded, LoopBound
      <4> QED  BY <4>1, <4>2, Zenon
    <3>2. CASE half' = half /\ Drives(w)
      BY <3>0, <3>2, DriveKeeps, Zenon DEF Drives
    <3>3. CASE half' = half /\ UNCHANGED runVars
      BY <3>0, <3>3, Zenon DEF InLoop, LoopBounded, LoopBound, runVars
    <3> QED  BY <1>3, <3>1, <3>2, <3>3, WorkerKinds, Zenon
  <2>3. ASSUME NEW r \in Rank, stage'[<<r, 0>>] \notin Reset PROVE resetPos'[r] = 0
    <3>0. <<r, 0>> \in Thread /\ Pos(r)
      BY <1>0, ThreadFacts, Zenon
    <3>1. CASE ResetSync(w) \/ ResetIdx(w)
      <4>1. /\ w = <<w[1], 0>> /\ stage[w] \in Reset /\ stage' = stage
            /\ \A q \in Rank : q # w[1] => resetPos'[q] = resetPos[q]
        BY <3>1, ResetFacts, Zenon DEF runVars
      <4> QED  BY <2>3, <3>0, <4>1, Zenon
    <3>2. CASE ~ResetSync(w) /\ ~ResetIdx(w)
      <4>1. /\ resetPos'[r] = resetPos[r] \/ resetPos'[r] = 0
            /\ EnterBarrier(w) /\ w = <<r, 0>> => resetPos'[r] = 0
        BY <1>3, <3>2, PosFacts, Zenon
      <4>2. CASE stage[<<r, 0>>] \notin Reset
        BY <3>0, <4>1, <4>2, Zenon
      <4>3. CASE stage[<<r, 0>>] \in Reset
        <5>1. w = <<r, 0>>
          BY <1>3, <2>3, <3>0, <4>3, WorkerOthers, Zenon
        <5>2. ~Send(w) /\ ~TakeSync(w)
          BY <4>3, <5>1, ZenonT(30) DEF Send, TakeSync, InLoop, Loop, Reset
        <5>3. EnterBarrier(w)
          BY <1>3, <3>2, <4>3, <5>1, <5>2, StageFacts, Zenon DEF WorkerStep, Drive, RunLeave, RunEnterTeam,
                                                                 RunLeaveTeam, RunReport, Reset
        <5> QED  BY <4>1, <5>1, <5>3, Zenon
      <4> QED  BY <4>2, <4>3, Zenon
    <3> QED  BY <3>1, <3>2, Zenon
  <2> QED  BY <1>1, <2>1, <2>2, <2>3, Zenon
<1>4. ASSUME NEW r \in Rank, MainStep(r) PROVE WorkPhases'
  BY <1>2, <1>4, MainFrame, Zenon
<1>5. ASSUME NEW p \in PrgThread, PrgStep(p) \/ Deliver(p) PROVE WorkPhases'
  <2>1. UNCHANGED <<runVars, workVars>>
    BY <1>5, ZenonT(30) DEF PrgStep, PrgStart, PrgPollEmpty, PrgPoll, PrgLoad, PrgStore, PrgSignal, PrgRefill,
                            PrgExit, Deliver, vars
  <2> QED  BY <1>2, <2>1, Zenon
<1>6. CASE UNCHANGED vars
  BY <1>2, <1>6, Zenon DEF vars
<1> QED
  BY <1>3, <1>4, <1>5, <1>6, Zenon DEF Next, Finished

LEMMA NextDispatchCounts ==
  ASSUME TypeOK, DispatchPhases, DispatchCounts, [Next]_vars
  PROVE  DispatchCounts'
<1>0. /\ prgPc \in [PrgThread -> PrgPc] /\ numRecvCompleted \in [PrgThread -> Nat]
      /\ dispatched \in [PrgThread -> Nat] /\ rxCq \in [PrgThread -> Nat]
  BY DEF TypeOK
<1>1. ASSUME UNCHANGED <<prgPc, numRecvCompleted, dispatched>> PROVE DispatchCounts'
  BY <1>1, Zenon DEF DispatchCounts
<1> DEFINE At(q) == /\ prgPc[q] \in {"start", "poll", "exit"} => dispatched[q] = 0
                    /\ prgPc[q] \in {"load", "store", "signal"} => dispatched[q] < numRecvCompleted[q]
                    /\ prgPc[q] = "refill" => dispatched[q] = numRecvCompleted[q]
<1>2. ASSUME NEW p \in PrgThread, At(p)',
             \A q \in PrgThread : q # p => /\ prgPc'[q] = prgPc[q] /\ dispatched'[q] = dispatched[q]
                                           /\ numRecvCompleted'[q] = numRecvCompleted[q]
      PROVE  DispatchCounts'
  <2>1. ASSUME NEW q \in PrgThread PROVE At(q)'
    <3>1. CASE q = p
      BY <1>2, <3>1, Zenon
    <3>2. CASE q # p
      BY <1>2, Zenon DEF DispatchCounts
    <3> QED  BY <3>1, <3>2, Zenon
  <2> QED  BY <2>1, Zenon DEF DispatchCounts
<1>3. ASSUME NEW p \in PrgThread, PrgStep(p) PROVE DispatchCounts'
  <2>0. At(p) /\ (prgPc[p] \in {"start", "poll", "exit"} => numRecvCompleted[p] = 0)
    BY Zenon DEF DispatchCounts, DispatchPhases
  <2>1. CASE PrgStart(p)
    BY <1>0, <1>2, <2>0, <2>1, Zenon DEF PrgStart, localVars
  <2>2. CASE PrgPoll(p)
    BY <1>0, <1>2, <2>0, <2>2, ConstFacts DEF PrgPoll
  <2>3. CASE PrgLoad(p)
    BY <1>0, <1>2, <2>0, <2>3, Zenon DEF PrgLoad
  <2>4. CASE PrgStore(p)
    BY <1>0, <1>2, <2>0, <2>4, Zenon DEF PrgStore, localVars
  <2>5. CASE PrgSignal(p)
    <3>1. CASE dispatched[p] + 1 < numRecvCompleted[p]
      BY <1>0, <1>2, <2>5, <3>1, Zenon DEF PrgSignal
    <3>2. CASE ~(dispatched[p] + 1 < numRecvCompleted[p])
      BY <1>0, <1>2, <2>0, <2>5 DEF PrgSignal
    <3> QED  BY <3>1, <3>2, Zenon
  <2>6. CASE PrgRefill(p)
    BY <1>0, <1>2, <2>6, Zenon DEF PrgRefill
  <2>7. CASE PrgExit(p)
    BY <1>0, <1>2, <2>0, <2>7, Zenon DEF PrgExit, localVars
  <2>8. CASE PrgPollEmpty(p)
    BY <1>1, <2>8, Zenon DEF PrgPollEmpty, vars, prgVars, localVars
  <2> QED
    BY <1>3, <2>1, <2>2, <2>3, <2>4, <2>5, <2>6, <2>7, <2>8, Zenon DEF PrgStep
<1>4. ASSUME NEW p \in PrgThread, Deliver(p) PROVE DispatchCounts'
  BY <1>1, <1>4, Zenon DEF Deliver, localVars
<1>5. ASSUME NEW w \in Thread, WorkerStep(w) PROVE DispatchCounts'
  BY <1>1, <1>5, WorkerFrame, Zenon DEF localVars
<1>6. ASSUME NEW r \in Rank, MainStep(r) PROVE DispatchCounts'
  BY <1>1, <1>6, MainFrame, Zenon DEF prgVars, localVars
<1>7. CASE UNCHANGED vars
  BY <1>1, <1>7, Zenon DEF vars, prgVars, localVars
<1> QED
  BY <1>3, <1>4, <1>5, <1>6, <1>7, Zenon DEF Next, Finished

LEMMA PendingFacts ==
  ASSUME TypeOK, DispatchPhases, DispatchCounts, NEW p \in PrgThread
  PROVE  /\ Pending(p) \in Nat /\ net[p] \in Nat /\ rxCq[p] \in Nat
         /\ prgPc[p] \in {"load", "store", "signal"} => Pending(p) > 0
BY DEF DispatchCounts, TypeOK, PrgPc, Pending

-----------------------------------------------------------------------------
(* Prefilled work. *)

GivenStages == {"bar3", "timed", "tbar", "report", "last", "bar4", "exit"}

LEMMA GivenFacts ==
  ASSUME NEW v \in Thread
  PROVE  /\ <<v[1], 0>> \in Thread /\ v[1] \in Rank /\ v[2] \in Nat /\ v[2] < tx_thread_num
         /\ v = <<v[1], v[2]>>
         /\ Given[v] = IF Prefilled(v) THEN prefilled_work ELSE 0
         /\ Given'[v] = IF Prefilled(v)' THEN prefilled_work ELSE 0
         /\ Prefilled(v) <=> \/ stage[<<v[1], 0>>] = "resetP" /\ v[2] < resetPos[v[1]]
                             \/ stage[<<v[1], 0>>] \in GivenStages
         /\ Prefilled(v)' <=> \/ stage'[<<v[1], 0>>] = "resetP" /\ v[2] < resetPos'[v[1]]
                              \/ stage'[<<v[1], 0>>] \in GivenStages
BY ConstFacts, ThreadFacts DEF Worker, Given, Prefilled, GivenStages

(* Only the store itself makes work prefilled, and only the end of a       *)
(* message size that is not the last makes it unfilled again.              *)
LEMMA PrefilledStays ==
  ASSUME TypeOK, WorkPhases, NEW w \in Thread, WorkerStep(w), NEW v \in Thread,
         ~(ResetSync(w) /\ v = <<w[1], resetPos[w[1]]>>)
  PROVE  \/ Prefilled(v)' <=> Prefilled(v)
         \/ Prefilled(v) /\ ~Prefilled(v)' /\ sizeIdx[w] + 1 < SizeCount
<1> DEFINE z == <<v[1], 0>>
<1>0. /\ z \in Thread /\ v[1] \in Rank /\ v[2] \in Nat /\ v[2] < tx_thread_num
      /\ v = <<v[1], v[2]>> /\ stage \in [Thread -> Stage] /\ resetPos[v[1]] \in 0 .. ResetLength
      /\ tx_thread_num \in Nat /\ ResetLength > tx_thread_num
  BY GivenFacts, ConstFacts DEF TypeOK, RunTypeOK, ResetLength
<1>1. /\ Prefilled(v) <=> (stage[z] = "resetP" /\ v[2] < resetPos[v[1]]) \/ stage[z] \in GivenStages
      /\ Prefilled(v)' <=> (stage'[z] = "resetP" /\ v[2] < resetPos'[v[1]]) \/ stage'[z] \in GivenStages
  BY GivenFacts, Zenon
<1> HIDE DEF z
<1>2. ASSUME stage'[z] = stage[z], resetPos'[v[1]] = resetPos[v[1]]
      PROVE  Prefilled(v)' <=> Prefilled(v)
  BY <1>1, <1>2, Zenon
<1>3. CASE ResetSync(w) \/ ResetIdx(w)
  <2>1. /\ w = <<w[1], 0>> /\ w[1] \in Rank /\ stage' = stage
        /\ resetPos[w[1]] \in Nat /\ resetPos'[w[1]] = resetPos[w[1]] + 1
        /\ \A r \in Rank : r # w[1] => resetPos'[r] = resetPos[r]
    BY <1>3, ResetFacts, Zenon DEF runVars
  <2>2. CASE v[1] # w[1]
    BY <1>0, <1>2, <2>1, <2>2, Zenon
  <2>3. CASE v[1] = w[1]
    <3>1. v[2] # resetPos[w[1]]
      <4>1. CASE ResetSync(w)
        BY <1>0, <2>3, <4>1, Zenon
      <4>2. CASE ResetIdx(w)
        BY <1>0, <4>2 DEF ResetIdx
      <4> QED  BY <1>3, <4>1, <4>2, Zenon
    <3> QED  BY <1>0, <1>1, <2>1, <3>1
  <2> QED  BY <2>2, <2>3, Zenon
<1>4. CASE ~ResetSync(w) /\ ~ResetIdx(w) /\ w # z
  BY <1>0, <1>2, <1>4, WorkerOthers, PosFacts, Zenon DEF z
<1>5. CASE ~ResetSync(w) /\ ~ResetIdx(w) /\ w = z
  <2>0. /\ resetPos'[v[1]] = resetPos[v[1]] \/ EnterBarrier(w)
        /\ stage[z] \notin Reset => resetPos[v[1]] = 0
    BY <1>0, <1>5, PosFacts, Zenon DEF WorkPhases, z
  <2>1. CASE EnterBarrier(w)
    <3>1. /\ stage[z] \in {"reset0", "warm", "resetP", "last"} /\ stage'[z] = ToBarrier[stage[z]]
          /\ stage[z] = "resetP" => v[2] < resetPos[v[1]]
      <4>1. ASSUME stage[z] = "resetP" PROVE v[2] < resetPos[v[1]]
        BY <1>0, <1>5, <2>1, <4>1 DEF z, EnterBarrier, InReset, Reset
      <4> QED  BY <1>0, <1>5, <2>1, <4>1, StageFacts, Zenon DEF EnterBarrier, RunEnter
    <3>2. CASE stage[z] = "resetP"
      BY <1>1, <3>1, StageFacts, ZenonT(30) DEF GivenStages
    <3>3. CASE stage[z] = "last"
      BY <1>1, <3>1, StageFacts, ZenonT(30) DEF GivenStages
    <3>4. CASE stage[z] = "reset0" \/ stage[z] = "warm"
      BY <1>1, <3>1, StageFacts, ZenonT(30) DEF GivenStages
    <3> QED  BY <3>1, <3>2, <3>3, <3>4, Zenon
  <2>2. CASE Drive(w)
    <3>1. CASE RunLeave(w)
      <4>1. stage[z] \in {"bar1", "bar2", "bar3", "bar4"} /\ stage'[z] = FromBarrier[stage[z]]
        BY <1>0, <1>5, <3>1, StageFacts, ZenonT(30) DEF RunLeave
      <4>2. resetPos'[v[1]] = 0
        BY <1>5, <2>0, <4>1, StageFacts, Zenon DEF EnterBarrier, RunEnter, Reset
      <4>3. CASE stage[z] = "bar3" \/ stage[z] = "bar4"
        BY <1>1, <4>1, <4>3, StageFacts, ZenonT(30) DEF GivenStages
      <4>4. CASE stage[z] = "bar1" \/ stage[z] = "bar2"
        BY <1>0, <1>1, <4>1, <4>2, StageFacts DEF GivenStages
      <4> QED  BY <4>1, <4>3, <4>4, Zenon
    <3>2. CASE RunEnterTeam(w) \/ RunLeaveTeam(w)
      BY <1>0, <1>1, <1>5, <3>2, ZenonT(30) DEF GivenStages, RunEnterTeam, RunLeaveTeam
    <3>3. CASE RunReport(w)
      BY <1>0, <1>1, <1>5, <3>3, ZenonT(30) DEF GivenStages, RunReport
    <3> QED  BY <2>2, <3>1, <3>2, <3>3, Zenon DEF Drive
  <2>3. CASE Send(w) \/ TakeSync(w)
    BY <1>2, <2>3, EndHalfFacts, Zenon DEF Send, TakeSync
  <2> QED  BY <1>5, <2>1, <2>2, <2>3, Zenon DEF WorkerStep
<1> QED
  BY <1>3, <1>4, <1>5, Zenon

(* While a worker is in the warm-up, thread 0 is not past it. *)
LEMMA WarmUnfilled ==
  ASSUME TypeOK, RunInv, NEW v \in Thread, stage[v] = "warm"
  PROVE  Given[v] = 0
<1> DEFINE z == <<v[1], 0>>
<1>0. z \in Thread /\ stage[z] \in Stage /\ sizeIdx[v] \in Nat /\ sizeIdx[v] <= SizeCount - 1
  BY GivenFacts DEF TypeOK, RunTypeOK
<1>1. Prefilled(v) => stage[z] = "resetP" \/ stage[z] \in GivenStages
  BY GivenFacts, Zenon
<1> HIDE DEF z
<1>2. /\ procOut[v] <= procIn[z] /\ procOut[z] <= procIn[v]
      /\ sizeIdx[z] \in Nat /\ WorkerCounts(v) /\ WorkerCounts(z)
  BY <1>0, Apart, Zenon
<1>3. procIn[v] = 3 * sizeIdx[v] + 1 /\ procOut[v] = 3 * sizeIdx[v] + 1
  <2>1. CountsAre(v, 1, 1, 0, 0)
    BY <1>2 DEF WorkerCounts
  <2> QED  BY <2>1, Counted, Zenon
<1>4. ASSUME stage[z] \in {"resetP", "bar3"} PROVE FALSE
  <2>1. CountsAre(z, 2, 2, 0, 0) \/ CountsAre(z, 3, 2, 0, 0)
    BY <1>2, <1>4, Zenon DEF WorkerCounts
  <2>2. /\ procIn[z] = 3 * sizeIdx[z] + 2 \/ procIn[z] = 3 * sizeIdx[z] + 3
        /\ procOut[z] = 3 * sizeIdx[z] + 2
    BY <2>1, Counted, Zenon
  <2> QED  BY <1>0, <1>2, <1>3, <2>2
<1>5. ASSUME stage[z] \in {"timed", "tbar", "report", "last"} PROVE FALSE
  <2>1. CountsAre(z, 3, 3, 0, 0) \/ CountsAre(z, 3, 3, 1, 0) \/ CountsAre(z, 3, 3, 1, 1)
    BY <1>2, <1>5, Zenon DEF WorkerCounts
  <2>2. procIn[z] = 3 * sizeIdx[z] + 3 /\ procOut[z] = 3 * sizeIdx[z] + 3
    BY <2>1, Counted, Zenon
  <2> QED  BY <1>0, <1>2, <1>3, <2>2
<1>6. ASSUME stage[z] \in {"bar4", "exit"} PROVE FALSE
  <2>1. (CountsAre(z, 4, 3, 1, 1) \/ CountsAre(z, 4, 4, 1, 1)) /\ sizeIdx[z] = SizeCount - 1
    BY <1>2, <1>6, Zenon DEF WorkerCounts
  <2>2. procOut[z] = 3 * sizeIdx[z] + 3 \/ procOut[z] = 3 * sizeIdx[z] + 4
    BY <2>1 DEF CountsAre
  <2> QED  BY <1>0, <1>2, <1>3, <2>1, <2>2
<1>7. stage[z] # "resetP" /\ stage[z] \notin GivenStages
  BY <1>4, <1>5, <1>6, Zenon DEF GivenStages
<1> QED
  BY <1>1, <1>7, GivenFacts, Zenon

(* Steps that are not a worker's leave the work done and given alone. *)
LEMMA CountsStay ==
  ASSUME UNCHANGED <<runVars, half, resetPos>>
  PROVE  /\ Sent' = Sent /\ Taken' = Taken /\ Given' = Given
         /\ \A v \in Thread : Prefilled(v)' <=> Prefilled(v)
<1>1. ASSUME NEW v \in Thread
      PROVE  /\ Done(v)' = Done(v) /\ (Prefilled(v)' <=> Prefilled(v))
  BY Zenon DEF Done, Iterations, Prefilled, runVars
<1> QED
  BY <1>1, Zenon DEF Sent, Taken, Given

(* What a worker's step does to the syncs. *)
LEMMA SyncsFacts ==
  ASSUME TypeOK, NEW w \in Thread, WorkerStep(w), NEW v \in Thread
  PROVE  /\ TakeSync(w) /\ v = w => syncs[v] > 0 /\ syncs'[v] = syncs[v] - 1
         /\ ResetSync(w) /\ v = <<w[1], resetPos[w[1]]>> =>
              syncs'[v] = IF stage[w] = "reset0" THEN 0 ELSE prefilled_work
         /\ \/ TakeSync(w) /\ v = w
            \/ ResetSync(w) /\ v = <<w[1], resetPos[w[1]]>>
            \/ syncs'[v] = syncs[v]
BY ZenonT(30) DEF TypeOK, TakeSync, ResetSync, WorkerStep, ResetIdx, EnterBarrier, Drive, Send

LEMMA TakenSame ==
  ASSUME NEW v \in Thread, UNCHANGED runVars, half' = half
  PROVE  Taken'[v] = Taken[v]
BY Zenon DEF Taken, Done, Iterations, runVars

(* What a store of reset_counters leaves is what Given says. *)
LEMMA StoreFacts ==
  ASSUME TypeOK, NEW w \in Thread, ResetSync(w), NEW v \in Thread, v = <<w[1], resetPos[w[1]]>>
  PROVE  /\ syncs'[v] = Given'[v] /\ Taken'[v] = Taken[v]
         /\ v[1] = w[1] /\ w = <<w[1], 0>> /\ stage[w] \in Reset
<1>1. /\ w = <<w[1], 0>> /\ w[1] \in Rank /\ stage[w] \in Reset /\ half' = half /\ UNCHANGED runVars
      /\ resetPos[w[1]] \in Nat /\ resetPos'[w[1]] = resetPos[w[1]] + 1
  BY ResetFacts, Zenon
<1>2. syncs'[v] = IF stage[w] = "reset0" THEN 0 ELSE prefilled_work
  BY SyncsFacts, Zenon DEF WorkerStep
<1>3. /\ Given'[v] = IF Prefilled(v)' THEN prefilled_work ELSE 0
      /\ Prefilled(v)' <=> \/ stage'[<<v[1], 0>>] = "resetP" /\ v[2] < resetPos'[v[1]]
                           \/ stage'[<<v[1], 0>>] \in GivenStages
  BY GivenFacts, Zenon
<1>4. CASE stage[w] = "reset0"
  BY <1>1, <1>2, <1>3, <1>4, TakenSame, Zenon DEF GivenStages, runVars
<1>5. CASE stage[w] = "resetP"
  BY <1>1, <1>2, <1>3, <1>5, TakenSame DEF runVars
<1> QED
  BY <1>1, <1>4, <1>5, Zenon DEF Reset

(* Covered is preserved. *)
LEMMA NextCovered ==
  ASSUME TypeOK, RunInv, WorkPhases, Covered, [Next]_vars
  PROVE  Covered'
<1> DEFINE Filled == {"bar2", "resetP", "bar3"}
<1>0. /\ syncs \in [Thread -> Nat] /\ prefilled_work \in Nat
      /\ \A v \in Thread : Given[v] \in Nat /\ Given[v] \in {0, prefilled_work}
      /\ \A v \in Thread : stage[v] \in Filled => syncs[v] >= Given[v]
  <2>1. syncs \in [Thread -> Nat] /\ prefilled_work \in Nat
    BY ConstFacts DEF TypeOK
  <2> QED  BY <2>1, GivenFacts, Zenon DEF Covered
<1>1. SUFFICES ASSUME NEW v \in Thread, stage'[v] \in Filled PROVE syncs'[v] >= Given'[v]
  BY Zenon DEF Covered
<1>2. ASSUME UNCHANGED <<runVars, half, resetPos>>, syncs'[v] \in Nat, syncs'[v] >= syncs[v]
      PROVE  syncs'[v] >= Given'[v]
  <2>1. stage' = stage /\ Given' = Given
    BY <1>2, CountsStay, Zenon DEF runVars
  <2> QED  BY <1>0, <1>1, <1>2, <2>1
<1>3. ASSUME NEW w \in Thread, WorkerStep(w) PROVE syncs'[v] >= Given'[v]
  <2>1. CASE ResetSync(w) /\ v = <<w[1], resetPos[w[1]]>>
    <3>1. syncs'[v] = Given'[v]
      BY <2>1, StoreFacts, Zenon
    <3>2. Given'[v] \in Nat
      BY <1>0, GivenFacts, Zenon
    <3> QED  BY <3>1, <3>2
  <2>2. CASE ~(ResetSync(w) /\ v = <<w[1], resetPos[w[1]]>>)
    <3>1. Given'[v] = Given[v] \/ Given'[v] = 0
      BY <1>3, <2>2, GivenFacts, PrefilledStays, Zenon
    <3>2. syncs'[v] = syncs[v]
      <4>1. CASE TakeSync(w) /\ v = w
        <5>1. InLoop(v) /\ stage' = stage
          BY <4>1, EndHalfFacts, Zenon DEF TakeSync
        <5> QED  BY <1>1, <5>1, ZenonT(30) DEF InLoop, Loop
      <4> QED  BY <1>3, <2>2, <4>1, SyncsFacts, Zenon
    <3>3. stage[v] \in Filled \/ stage[v] = "warm"
      <4>0. stage \in [Thread -> Stage]
        BY DEF TypeOK, RunTypeOK
      <4>1. CASE v # w
        BY <1>1, <1>3, <4>1, WorkerOthers, Zenon
      <4>2. CASE v = w /\ EnterBarrier(w)
        BY <1>1, <4>0, <4>2, StageFacts, ZenonT(30) DEF EnterBarrier, RunEnter
      <4>3. CASE v = w /\ Drive(w)
        <5>1. CASE RunLeave(w)
          BY <1>1, <4>0, <5>1, StageFacts, ZenonT(30) DEF RunLeave
        <5>2. CASE RunEnterTeam(w) \/ RunLeaveTeam(w)
          BY <1>1, <4>0, <5>2, ZenonT(30) DEF RunEnterTeam, RunLeaveTeam
        <5>3. CASE RunReport(w)
          BY <1>1, <4>0, <5>3, ZenonT(30) DEF RunReport
        <5> QED  BY <4>3, <5>1, <5>2, <5>3, Zenon DEF Drive
      <4>4. CASE stage' = stage
        BY <1>1, <4>4, Zenon
      <4>5. ResetSync(w) \/ ResetIdx(w) \/ Send(w) \/ TakeSync(w) => stage' = stage
        BY ResetFacts, EndHalfFacts, Zenon DEF Send, TakeSync, runVars
      <4> QED  BY <1>3, <4>1, <4>2, <4>3, <4>4, <4>5, Zenon DEF WorkerStep
    <3>4. stage[v] = "warm" => Given[v] = 0
      BY WarmUnfilled, Zenon
    <3> QED  BY <1>0, <3>1, <3>2, <3>3, <3>4
  <2> QED  BY <2>1, <2>2, Zenon
<1>4. ASSUME NEW p \in PrgThread, PrgStep(p) PROVE syncs'[v] >= Given'[v]
  <2>1. CASE PrgSignal(p)
    <3>1. UNCHANGED <<runVars, half, resetPos>> /\ syncs' = [syncs EXCEPT ![<<p[1], worker_idx[p]>>] = @ + 1]
      BY <2>1, Zenon DEF PrgSignal, workVars
    <3> QED  BY <1>0, <1>2, <3>1
  <2>2. CASE ~PrgSignal(p)
    <3>1. UNCHANGED <<runVars, half, resetPos>> /\ syncs' = syncs
      BY <1>4, <2>2, Zenon DEF PrgStep, PrgStart, PrgPollEmpty, PrgPoll, PrgLoad, PrgStore, PrgRefill, PrgExit,
                               workVars, vars
    <3> QED  BY <1>0, <1>2, <3>1
  <2> QED  BY <2>1, <2>2, Zenon
<1>5. ASSUME UNCHANGED <<runVars, workVars, syncs>> PROVE syncs'[v] >= Given'[v]
  <2>1. UNCHANGED <<runVars, half, resetPos>> /\ syncs' = syncs
    BY <1>5, Zenon DEF workVars
  <2> QED  BY <1>0, <1>2, <2>1
<1>6. ASSUME NEW r \in Rank, MainStep(r) PROVE UNCHANGED <<runVars, workVars, syncs>>
  BY <1>6, Zenon DEF MainStep, MainRun, MainStop, MainFree, MainFinalize
<1>7. ASSUME NEW p \in PrgThread, Deliver(p) PROVE UNCHANGED <<runVars, workVars, syncs>>
  BY <1>7, Zenon DEF Deliver
<1>8. ASSUME UNCHANGED vars PROVE UNCHANGED <<runVars, workVars, syncs>>
  BY <1>8, Zenon DEF vars
<1> QED
  BY <1>3, <1>4, <1>5, <1>6, <1>7, <1>8, Zenon DEF Next, Finished

-----------------------------------------------------------------------------
(* Resets. *)

(* The second reset of a size: everybody has finished the warm-up. *)
LEMMA CountsAtP ==
  ASSUME WorkInv, NEW z \in Thread, stage[z] = "resetP", NEW u \in Thread
  PROVE  LET T == Before(sizeIdx[z]) + SKIP
         IN  /\ T \in Nat /\ Sent[u] = T /\ Taken[u] = T
             /\ syncs[u] >= Given[u] /\ syncs[u] \in Nat /\ Given[u] \in Nat
             /\ Handed[u] = T + syncs[u] - Given[u]
<1> DEFINE T == Before(sizeIdx[z]) + SKIP
<1>1. Sent[u] = Done(u) /\ Taken[u] = Done(u) /\ Done(u) \in Nat
      /\ Handed[u] = Taken[u] + syncs[u] - Given[u] /\ syncs[u] \in Nat /\ Given[u] \in Nat
  BY CountTypes, DoneAtResetP, Zenon DEF WorkPhases, WorkInv, IInv
<1> QED
  BY <1>1, DoneAtResetP, Zenon DEF Covered, WorkPhases, WorkInv, IInv

(* The first reset of a size: nobody is further than the process of z. *)
LEMMA CountsAt0 ==
  ASSUME WorkInv, NEW z \in Thread, z[2] = 0, stage[z] = "reset0", NEW u \in Thread
  PROVE  LET T == Before(sizeIdx[z])
         IN  /\ Sent[u] \in Nat /\ Sent[u] <= T /\ syncs[u] \in Nat
             /\ u[1] = z[1] => T \in Nat /\ Taken[u] = T /\ Handed[u] = T + syncs[u] /\ Given[u] = 0
<1> DEFINE T == Before(sizeIdx[z])
<1>0. TypeOK /\ RunInv /\ WorkPhases /\ z = <<z[1], 0>>
  BY ThreadFacts, Zenon DEF WorkInv, IInv
<1>1. LoopBounded(u) /\ (half[u] => InLoop(u))
  BY <1>0, Zenon DEF WorkPhases
<1>2. /\ Done(u) \in Nat /\ Sent[u] \in Nat /\ syncs[u] \in Nat
      /\ Sent[u] = Done(u) \/ (half[u] /\ Sent[u] = Done(u) + 1)
      /\ Taken[u] = Done(u) \/ (half[u] /\ Taken[u] = Done(u) + 1)
      /\ Handed[u] = Taken[u] + syncs[u] - Given[u]
  BY <1>0, <1>1, CountTypes, Zenon
<1>3. ASSUME u[1] = z[1] PROVE T \in Nat /\ Taken[u] = T /\ Handed[u] = T + syncs[u] /\ Given[u] = 0
  <2>1. Taken[u] = T /\ Done(u) = T /\ <<u[1], 0>> = z
    BY <1>0, <1>1, <1>2, <1>3, DoneAtReset0, Zenon
  <2>2. Given[u] = 0
    BY <2>1, GivenFacts, Zenon DEF GivenStages
  <2> QED  BY <1>2, <2>1, <2>2
<1> QED
  BY <1>0, <1>1, <1>2, <1>3, DoneAtReset0, Zenon

(* In both, the workers of a class of the process have taken as many       *)
(* messages as anybody has sent to it.                                     *)
ResetBound(p, T) ==
  /\ \A u \in Class(p) : /\ Taken[u] = T /\ syncs[u] >= Given[u]
                          /\ Handed[u] = T + syncs[u] - Given[u] /\ Handed[u] >= T
                          /\ syncs[u] \in Nat /\ Given[u] \in Nat
  /\ \A v \in Senders(p) : Sent[v] \in Nat /\ Sent[v] <= T

LEMMA ResetBounds ==
  ASSUME WorkInv, NEW p \in PrgThread, NEW z \in Thread, z[1] = p[1], z[2] = 0, stage[z] \in Reset
  PROVE  \E T \in Nat : ResetBound(p, T)
<1>0. (\A u \in Class(p) : u \in Thread /\ u[1] = z[1]) /\ (\A v \in Senders(p) : v \in Thread)
  BY ClassFacts, Members, Zenon
<1>1. CASE stage[z] = "reset0"
  <2> DEFINE T == Before(sizeIdx[z])
  <2> HIDE DEF T
  <2> QED  BY <1>0, <1>1, CountsAt0 DEF ResetBound
<1>2. CASE stage[z] = "resetP"
  <2> DEFINE T == Before(sizeIdx[z]) + SKIP
  <2> HIDE DEF T
  <2> QED  BY <1>0, <1>2, CountsAtP DEF ResetBound
<1> QED
  BY <1>1, <1>2, Zenon DEF Reset

(* A reset finds the classes of its process quiet and level.  The proofs   *)
(* of this section assume it; QuietInReset below establishes it.           *)
QuietResets ==
  NoLeftovers =>
    \A p \in PrgThread :
      stage[<<p[1], 0>>] \in Reset =>
        /\ net[p] = 0 /\ rxCq[p] = 0 /\ Pending(p) = 0
        /\ \A u \in Class(p) : syncs[u] = Given[u]
        /\ \A u, v \in Class(p) : Handed[u] = Handed[v]

-----------------------------------------------------------------------------
(* Messages handed out and under way. *)

(* The end of a size forgets prefilled work, if there was any. *)
LEMMA GivenStays ==
  ASSUME WorkInv, NEW w \in Thread, WorkerStep(w), NEW v \in Thread,
         ~(ResetSync(w) /\ v = <<w[1], resetPos[w[1]]>>)
  PROVE  /\ Given[v] \in Nat /\ Given'[v] \in Nat /\ Given'[v] <= Given[v]
         /\ NoLeftovers => Given'[v] = Given[v]
<1>1. \/ Prefilled(v)' <=> Prefilled(v)
      \/ Prefilled(v) /\ ~Prefilled(v)' /\ sizeIdx[w] + 1 < SizeCount
  BY PrefilledStays, Zenon DEF WorkInv, IInv
<1>2. sizeIdx[w] + 1 < SizeCount => (NoLeftovers => prefilled_work = 0)
  BY DEF NoLeftovers, TypeOK, RunTypeOK, WorkInv, IInv
<1>3. Given[v] \in {0, prefilled_work} /\ (Given'[v] = Given[v] \/ Given'[v] = 0)
  BY <1>1, GivenFacts, Zenon
<1>4. NoLeftovers => Given'[v] = Given[v]
  BY <1>1, <1>2, GivenFacts, Zenon
<1> QED
  BY <1>3, <1>4, ConstFacts

(* What a step of a worker does to what was handed to v: a store of        *)
(* reset_counters leaves what v has taken, other steps discard nothing.    *)
LEMMA HandedWorker ==
  ASSUME WorkInv, Flow, QuietResets, NEW w \in Thread, WorkerStep(w), NEW v \in Thread
  PROVE  /\ Handed'[v] \in Nat /\ (NoLeftovers => Handed'[v] = Handed[v])
         /\ IF ResetSync(w) /\ v = <<w[1], resetPos[w[1]]>>
            THEN Handed'[v] = Taken[v] ELSE Handed'[v] >= Handed[v]
<1>0. TypeOK /\ RunInv /\ WorkPhases /\ LoopBounded(v)
  BY Zenon DEF WorkInv, IInv, WorkPhases
<1>1. /\ Taken[v] \in Nat /\ Given[v] \in Nat /\ syncs[v] \in Nat /\ Handed[v] \in Nat
      /\ Handed[v] = Taken[v] + syncs[v] - Given[v]
      /\ Handed'[v] = Taken'[v] + syncs'[v] - Given'[v]
  BY <1>0, CountTypes, Zenon DEF Handed, Flow
<1>2. CASE ResetSync(w) /\ v = <<w[1], resetPos[w[1]]>>
  <2>1. /\ syncs'[v] = Given'[v] /\ Taken'[v] = Taken[v]
        /\ v[1] = w[1] /\ w = <<w[1], 0>> /\ stage[w] \in Reset
    BY <1>0, <1>2, StoreFacts, Zenon
  <2>2. PICK p \in PrgThread : v \in Class(p)
    BY ClassFacts, Zenon
  <2>3. p[1] = v[1]
    BY <2>2, ClassFacts, Zenon
  <2>4. NoLeftovers => syncs[v] = Given[v]
    BY <2>1, <2>2, <2>3, Zenon DEF QuietResets
  <2>5. Given'[v] \in Nat
    BY GivenFacts, ConstFacts, Zenon
  <2>6. NoLeftovers => Handed'[v] = Handed[v]
    BY <1>1, <2>1, <2>4, <2>5
  <2> QED  BY <1>1, <1>2, <2>1, <2>5, <2>6
<1>3. CASE ~(ResetSync(w) /\ v = <<w[1], resetPos[w[1]]>>)
  <2>1. /\ Given'[v] \in Nat /\ Given'[v] <= Given[v]
        /\ NoLeftovers => Given'[v] = Given[v]
    BY <1>3, GivenStays, Zenon
  <2>2. Taken'[v] + syncs'[v] = Taken[v] + syncs[v] /\ Taken'[v] \in Int /\ syncs'[v] \in Int
    <3>1. CASE TakeSync(w) /\ v = w
      <4>1. syncs'[v] = syncs[v] - 1
        BY <1>0, <3>1, SyncsFacts, Zenon
      <4>2. Taken'[v] = Taken[v] + 1
        BY <1>0, <3>1, EndHalfCounts, Zenon DEF TakeSync
      <4>3. Taken[v] \in Nat /\ syncs[v] \in Nat
        BY <1>1, Zenon
      <4> QED  BY <4>1, <4>2, <4>3
    <3>2. CASE Send(w) /\ v = w
      <4>1. Taken'[v] = Taken[v]
        BY <1>0, <3>2, EndHalfCounts, Zenon DEF Send
      <4>2. syncs'[v] = syncs[v]
        BY <3>2, Zenon DEF Send
      <4> QED  BY <1>1, <4>1, <4>2
    <3>3. CASE ~((Send(w) \/ TakeSync(w)) /\ v = w)
      <4>1. Taken'[v] = Taken[v]
        BY <1>0, <3>3, OthersCounts, Zenon
      <4>2. syncs'[v] = syncs[v]
        BY <1>0, <1>3, <3>3, SyncsFacts, Zenon
      <4> QED  BY <1>1, <4>1, <4>2
    <3> QED  BY <3>1, <3>2, <3>3, Zenon
  <2>3. Handed'[v] = Taken[v] + syncs[v] - Given'[v]
    BY <1>1, <2>1, <2>2
  <2> QED  BY <1>1, <1>3, <2>1, <2>3
<1> QED
  BY <1>2, <1>3, Zenon

(* A signal hands one message to the worker whose turn it is. *)
LEMMA HandedSignal ==
  ASSUME TypeOK, OwnClass, WorkPhases, NEW p \in PrgThread, PrgSignal(p)
  PROVE  /\ <<p[1], worker_idx[p]>> \in Class(p)
         /\ Handed'[<<p[1], worker_idx[p]>>] = Handed[<<p[1], worker_idx[p]>>] + 1
         /\ \A v \in Thread : v # <<p[1], worker_idx[p]>> => Handed'[v] = Handed[v]
<1> DEFINE x == <<p[1], worker_idx[p]>>
<1>1. x \in Class(p) /\ x \in Thread
  BY Members, ClassFacts, Zenon DEF TypeOK, OwnClass, PrgSignal
<1>2. syncs \in [Thread -> Nat] /\ syncs' = [syncs EXCEPT ![x] = @ + 1]
  BY Zenon DEF TypeOK, PrgSignal
<1>3. Taken' = Taken /\ Given' = Given
  BY CountsStay, Zenon DEF PrgSignal, workVars
<1> HIDE DEF x
<1>4. ASSUME NEW v \in Thread
      PROVE  Handed[v] = Taken[v] + syncs[v] - Given[v] /\ Handed'[v] = Taken'[v] + syncs'[v] - Given'[v]
  BY Zenon DEF Handed
<1>5. ASSUME NEW v \in Thread PROVE Taken[v] \in Nat /\ Given[v] \in Nat
  BY CountTypes, Zenon DEF WorkPhases
<1>6. Handed'[x] = Handed[x] + 1
  <2>1. Taken[x] \in Nat /\ Given[x] \in Nat /\ syncs[x] \in Nat
    BY <1>1, <1>2, <1>5, Zenon
  <2> QED  BY <1>1, <1>2, <1>3, <1>4, <2>1
<1>7. ASSUME NEW v \in Thread, v # x PROVE Handed'[v] = Handed[v]
  BY <1>2, <1>3, <1>4, <1>7, Zenon
<1> QED
  BY <1>1, <1>6, <1>7, Zenon DEF x

LEMMA HandedType ==
  ASSUME \A v \in Thread : Handed'[v] \in Nat, \A q \in PrgThread : Balanced(q)'
  PROVE  Flow'
BY Zenon DEF Flow, Handed

(* The steps that hand nothing out and move no worker. *)
LEMMA HandedStays ==
  ASSUME UNCHANGED <<runVars, half, resetPos, syncs>>
  PROVE  Sent' = Sent /\ Handed' = Handed /\ Taken' = Taken
BY CountsStay, Zenon DEF Handed

LEMMA BalancedNext ==
  ASSUME NEW q \in PrgThread,
         Total(Sent', Senders(q)) <= Total(Handed', Class(q)) + Backlog(q)',
         NoLeftovers => Total(Sent', Senders(q)) = Total(Handed', Class(q)) + Backlog(q)'
  PROVE  Balanced(q)'
BY Zenon DEF Balanced

(* Steps of progress threads and the adapter: only a signal changes a sum. *)
LEMMA PollArithmetic ==
  ASSUME NEW i \in Nat, NEW j \in Nat, NEW k \in Nat
  PROVE  i + j + (0 - 0) = i + (j - k) + (k - 0)
OBVIOUS

LEMMA QueueFlow ==
  ASSUME TypeOK, DispatchPhases, DispatchCounts, NEW p \in PrgThread, PrgStep(p) \/ Deliver(p), ~PrgSignal(p),
         NEW q \in PrgThread
  PROVE  Backlog(q)' = Backlog(q)
<1>0. /\ net \in [PrgThread -> Nat] /\ rxCq \in [PrgThread -> Nat]
      /\ numRecvCompleted \in [PrgThread -> Nat] /\ dispatched \in [PrgThread -> Nat]
  BY DEF TypeOK
<1>1. \A r \in PrgThread :
        /\ Backlog(r) = net[r] + rxCq[r] + (numRecvCompleted[r] - dispatched[r])
        /\ Backlog(r)' = net'[r] + rxCq'[r] + (numRecvCompleted'[r] - dispatched'[r])
  BY Zenon DEF Backlog, Pending
<1>2. ASSUME UNCHANGED <<net, rxCq, numRecvCompleted, dispatched>> PROVE Backlog(q)' = Backlog(q)
  BY <1>1, <1>2, Zenon
<1>3. CASE PrgStart(p) \/ PrgPollEmpty(p) \/ PrgLoad(p) \/ PrgStore(p) \/ PrgExit(p)
  BY <1>2, <1>3, Zenon DEF PrgStart, PrgPollEmpty, PrgLoad, PrgStore, PrgExit, localVars, netVars, prgVars, vars
<1>4. CASE PrgPoll(p)
  <2>1. PICK n \in Nat : /\ numRecvCompleted' = [numRecvCompleted EXCEPT ![p] = n]
                         /\ rxCq' = [rxCq EXCEPT ![p] = @ - n] /\ n <= rxCq[p]
    <3> DEFINE n == IF rxCq[p] < numToPoll THEN rxCq[p] ELSE numToPoll
    <3>1. n \in Nat /\ n <= rxCq[p]
      BY <1>0, ConstFacts
    <3> QED  BY <1>4, <3>1, Zenon DEF PrgPoll
  <2>2. dispatched[p] = 0 /\ numRecvCompleted[p] = 0
    BY <1>4, Zenon DEF PrgPoll, DispatchPhases, DispatchCounts
  <2>3. UNCHANGED <<net, dispatched>>
    BY <1>4, Zenon DEF PrgPoll
  <2>4. Backlog(p)' = Backlog(p)
    <3>1. net[p] \in Nat /\ rxCq[p] \in Nat
      BY <1>0, Zenon
    <3>2. Backlog(p) = net[p] + rxCq[p] + (0 - 0) /\ Backlog(p)' = net[p] + (rxCq[p] - n) + (n - 0)
      BY <1>0, <1>1, <2>1, <2>2, <2>3, Zenon
    <3> QED  BY <3>1, <3>2, PollArithmetic, Zenon
  <2> QED  BY <1>0, <1>1, <2>1, <2>3, <2>4, Zenon
<1>5. CASE PrgRefill(p)
  <2>1. /\ numRecvCompleted' = [numRecvCompleted EXCEPT ![p] = 0] /\ dispatched' = [dispatched EXCEPT ![p] = 0]
        /\ UNCHANGED <<net, rxCq>> /\ dispatched[p] = numRecvCompleted[p]
    BY <1>5, Zenon DEF PrgRefill, DispatchCounts
  <2>2. Backlog(p)' = Backlog(p)
    <3>1. net[p] \in Nat /\ rxCq[p] \in Nat /\ Backlog(p) = net[p] + rxCq[p] + (numRecvCompleted[p] - numRecvCompleted[p])
      BY <1>0, <1>1, <2>1, Zenon
    <3>2. Backlog(p)' = net[p] + rxCq[p] + (0 - 0)
      BY <1>0, <1>1, <2>1, Zenon
    <3> QED  BY <1>0, <3>1, <3>2
  <2> QED  BY <1>0, <1>1, <2>1, <2>2, Zenon
<1>6. CASE Deliver(p)
  <2>1. /\ net' = [net EXCEPT ![p] = @ - 1] /\ rxCq' = [rxCq EXCEPT ![p] = @ + 1]
        /\ UNCHANGED <<numRecvCompleted, dispatched>>
    BY <1>6, Zenon DEF Deliver, localVars
  <2>2. Backlog(p)' = Backlog(p)
    <3>1. Backlog(p)' = (net[p] - 1) + (rxCq[p] + 1) + (numRecvCompleted[p] - dispatched[p])
      BY <1>0, <1>1, <2>1, Zenon
    <3> QED  BY <1>0, <1>1, <3>1
  <2> QED  BY <1>0, <1>1, <2>1, <2>2, Zenon
<1> QED
  BY <1>3, <1>4, <1>5, <1>6, Zenon DEF PrgStep

-----------------------------------------------------------------------------
(* Round robin is preserved. *)

(* What RoundRobin says of one progress thread. *)
TurnOf(p) ==
  /\ prgPc[p] = "store" => worker_idx[p] = next_worker_idx[p]
  /\ prgPc[p] = "signal" => next_worker_idx[p] = incrementWorkerIdx(p[2], worker_idx[p])
  /\ \A w, u \in Class(p) :
       w[2] < u[2] => Handed[w] = Handed[u] + (IF w[2] < Turn(p) /\ Turn(p) <= u[2] THEN 1 ELSE 0)

(* A thread none of whose variables changes. *)
LEMMA TurnKept ==
  ASSUME NEW p \in PrgThread, TurnOf(p), \A v \in Class(p) : Handed'[v] = Handed[v],
         prgPc'[p] = prgPc[p], worker_idx'[p] = worker_idx[p], next_worker_idx'[p] = next_worker_idx[p]
  PROVE  TurnOf(p)'
<1>1. Turn(p)' = Turn(p) /\ Class(p)' = Class(p)
  BY Zenon DEF Turn
<1>2. \A w, u \in Class(p) :
        w[2] < u[2] => Handed'[w] = Handed'[u] + (IF w[2] < Turn(p)' /\ Turn(p)' <= u[2] THEN 1 ELSE 0)
  BY <1>1, Zenon DEF TurnOf
<1> QED
  BY <1>2, Zenon DEF TurnOf

(* A thread whose turn does not change. *)
LEMMA TurnMoved ==
  ASSUME NEW p \in PrgThread, TurnOf(p), Handed' = Handed, Turn(p)' = Turn(p),
         prgPc'[p] = "store" => worker_idx'[p] = next_worker_idx'[p],
         prgPc'[p] = "signal" => next_worker_idx'[p] = incrementWorkerIdx(p[2], worker_idx'[p])
  PROVE  TurnOf(p)'
BY Zenon DEF TurnOf

(* A class in which all were handed the same: the first worker's turn. *)
LEMMA TurnFirst ==
  ASSUME NEW p \in PrgThread, Handed \in [Thread -> Nat],
         \A w, u \in Class(p) : Handed[w] = Handed[u],
         \A v \in Class(p) : Handed'[v] = Handed[v],
         prgPc'[p] \notin {"store", "signal"}, next_worker_idx'[p] = p[2]
  PROVE  TurnOf(p)'
<1>1. ASSUME NEW w \in Class(p) PROVE Handed[w] \in Nat /\ w[2] \in Nat /\ p[2] \in Nat /\ ~(w[2] < p[2])
  BY ConstFacts, ClassFacts
<1>2. ASSUME NEW w \in Class(p), NEW u \in Class(p)
      PROVE  Handed'[w] = Handed'[u] + (IF w[2] < Turn(p)' /\ Turn(p)' <= u[2] THEN 1 ELSE 0)
  BY <1>1 DEF Turn
<1> QED
  BY <1>2, Zenon DEF TurnOf

(* The turn passes on. *)
LEMMA TurnPasses ==
  ASSUME TypeOK, OwnClass, WorkPhases, NEW p \in PrgThread, TurnOf(p), PrgSignal(p),
         Handed \in [Thread -> Nat]
  PROVE  TurnOf(p)'
<1> DEFINE i == worker_idx[p]
           j == incrementWorkerIdx(p[2], i)
           x == <<p[1], i>>
           R == rx_thread_num
<1>1. /\ prgPc[p] = "signal" /\ next_worker_idx[p] = j /\ Turn(p) = i
      /\ i \in Worker /\ i % R = p[2] /\ i \in Nat
  <2>1. prgPc[p] = "signal" /\ i \in Worker /\ i % R = p[2]
    BY Zenon DEF PrgSignal, TypeOK, OwnClass
  <2>2. i \in Nat
    BY <2>1 DEF Worker
  <2> QED  BY <2>1, <2>2, Zenon DEF TurnOf, Turn
<1>2. prgPc'[p] \in {"load", "refill"} /\ next_worker_idx'[p] = j /\ Turn(p)' = j
  <2>1. prgPc'[p] \in {"load", "refill"} /\ next_worker_idx'[p] = j
    BY <1>1, Zenon DEF PrgSignal, TypeOK
  <2> QED  BY <2>1, Zenon DEF Turn
<1>3. j = IF i + R >= tx_thread_num THEN p[2] ELSE i + R
  BY Zenon DEF incrementWorkerIdx
<1>4. ASSUME NEW w \in Class(p)
      PROVE  /\ w[2] \in Nat /\ w[2] < tx_thread_num /\ w[2] % R = p[2] /\ p[2] <= w[2] /\ p[2] \in Nat
             /\ Handed[w] \in Nat /\ (w[2] = i <=> w = x)
             /\ Handed'[w] = IF w[2] = i THEN Handed[w] + 1 ELSE Handed[w]
             /\ i < w[2] => i + R <= w[2]
  <2>1. w \in Thread /\ w[1] = p[1] /\ w[2] % R = p[2] /\ w[2] \in Nat /\ w = <<w[1], w[2]>> /\ w[2] \in Worker
    BY ClassFacts, ThreadFacts, Zenon
  <2>2. w[2] = i <=> w = x
    BY <2>1
  <2>3. w[2] < tx_thread_num
    BY <2>1, ConstFacts DEF Worker
  <2>4. i < w[2] => i + R <= w[2]
    BY <1>1, <2>1, ClassStep, Zenon
  <2>5. p[2] \in Nat /\ p[2] <= w[2]
    <3>1. R \in Nat \ {0}
      BY ConstFacts
    <3> QED  BY <2>1, <3>1
  <2> QED  BY <2>1, <2>2, <2>3, <2>4, <2>5, HandedSignal, Zenon
<1>5. ASSUME NEW w \in Class(p), NEW u \in Class(p), w[2] < u[2]
      PROVE  Handed'[w] = Handed'[u] + (IF w[2] < j /\ j <= u[2] THEN 1 ELSE 0)
  <2>1. Handed[w] = Handed[u] + (IF w[2] < i /\ i <= u[2] THEN 1 ELSE 0)
    BY <1>1, <1>5, Zenon DEF TurnOf
  <2>2. R \in Nat \ {0} /\ tx_thread_num \in Nat
    BY ConstFacts
  <2>3. /\ w[2] \in Nat /\ w[2] < tx_thread_num /\ p[2] <= w[2] /\ p[2] \in Nat
        /\ Handed[w] \in Nat /\ Handed'[w] = IF w[2] = i THEN Handed[w] + 1 ELSE Handed[w]
        /\ i < w[2] => i + R <= w[2]
    BY <1>4, Zenon
  <2>4. /\ u[2] \in Nat /\ u[2] < tx_thread_num /\ p[2] <= u[2]
        /\ Handed[u] \in Nat /\ Handed'[u] = IF u[2] = i THEN Handed[u] + 1 ELSE Handed[u]
        /\ i < u[2] => i + R <= u[2]
    BY <1>4, Zenon
  <2>5. i \in Nat
    BY <1>1, Zenon
  <2> HIDE DEF i, j, R
  <2>6. TurnRule(R, tx_thread_num, p[2], i, j, w[2], u[2], Handed[w], Handed[u])
    BY <2>2, <2>3, <2>4, <2>5, TurnArithmetic, Zenon
  <2> QED  BY <1>3, <1>5, <2>1, <2>3, <2>4, <2>6, Zenon DEF TurnRule
<1> HIDE DEF j, i, x
<1> QED
  BY <1>2, <1>5, Zenon DEF TurnOf

LEMMA WorkerRoundRobin ==
  ASSUME WorkInv, Flow, QuietResets, RoundRobin, NoLeftovers, NEW w \in Thread, WorkerStep(w), NEW p \in PrgThread
  PROVE  TurnOf(p)'
<1>0. TypeOK /\ DispatchPhases /\ DispatchCounts /\ TurnOf(p)
  BY Zenon DEF WorkInv, IInv, RoundRobin, TurnOf
<1>1. \A v \in Class(p) : Handed'[v] = Handed[v]
  BY HandedWorker, ClassFacts, Zenon
<1>2. CASE ~ResetIdx(w)
  BY <1>0, <1>1, <1>2, TurnKept, Zenon DEF WorkerStep, ResetSync, EnterBarrier, Drive, Send, TakeSync, prgVars,
                                           localVars
<1>3. CASE ResetIdx(w)
  <2> DEFINE id == resetPos[w[1]] - tx_thread_num
             q == <<w[1], id>>
  <2>1. /\ UNCHANGED <<prgPc, worker_idx>> /\ next_worker_idx' = [next_worker_idx EXCEPT ![q] = id]
        /\ next_worker_idx \in [PrgThread -> Worker]
    BY <1>0, <1>3, Zenon DEF ResetIdx, localVars, TypeOK
  <2>2. w = <<w[1], 0>> /\ stage[w] \in Reset
    BY <1>0, <1>3, ResetFacts, Zenon
  <2> HIDE DEF id
  <2>3. CASE p # q
    BY <1>0, <1>1, <2>1, <2>3, TurnKept, Zenon
  <2>4. CASE p = q
    <3>1. prgPc'[p] \notin {"store", "signal"}
      BY <1>0, <2>1, <2>2, <2>4, PendingFacts DEF QuietResets
    <3> QED  BY <1>1, <2>1, <2>2, <2>4, <3>1, TurnFirst, Zenon DEF Flow, QuietResets
  <2> QED  BY <2>3, <2>4, Zenon
<1> QED
  BY <1>2, <1>3, Zenon

LEMMA PrgRoundRobin ==
  ASSUME WorkInv, Flow, QuietResets, RoundRobin, NoLeftovers, NEW p \in PrgThread, PrgStep(p)
  PROVE  TurnOf(p)'
<1>0. /\ TypeOK /\ OwnClass /\ WorkPhases /\ MainPhases /\ TurnOf(p)
      /\ Handed \in [Thread -> Nat]
      /\ prgPc \in [PrgThread -> PrgPc] /\ worker_idx \in [PrgThread -> Worker]
      /\ next_worker_idx \in [PrgThread -> Worker]
  BY Zenon DEF TypeOK, WorkInv, IInv, RoundRobin, TurnOf, Flow
<1>1. ~PrgSignal(p) => Handed' = Handed
  <2>1. ~PrgSignal(p) => UNCHANGED <<runVars, half, resetPos, syncs>>
    BY Zenon DEF PrgStep, PrgStart, PrgPollEmpty, PrgPoll, PrgLoad, PrgStore, PrgRefill, PrgExit, workVars, vars
  <2> QED  BY <2>1, HandedStays, Zenon
<1>2. CASE PrgStart(p)
  <2>1. prgPc[p] = "start" /\ prgPc'[p] = "poll" /\ next_worker_idx'[p] = p[2]
    BY <1>0, <1>2, Zenon DEF PrgStart
  <2> DEFINE z == <<p[1], 0>>
  <2>2. z \in Thread /\ p[1] \in Rank /\ z[1] = p[1] /\ mainPc[p[1]] = "spawn"
    <3>1. p[1] \in Rank
      BY DEF PrgThread
    <3>2. z \in Thread /\ z[1] = p[1]
      BY <3>1, ConstFacts DEF Thread, Worker
    <3> QED  BY <1>0, <2>1, <3>1, <3>2, Zenon DEF MainPhases
  <2> HIDE DEF z
  <2>3. \A u, v \in Class(p) : Handed[u] = Handed[v]
    BY <1>0, <2>2, Zenon DEF QuietResets, z, Reset, MainPhases
  <2>4. prgPc'[p] \notin {"store", "signal"} /\ Handed' = Handed
    BY <1>1, <2>1, Zenon DEF PrgSignal
  <2> QED  BY <1>0, <2>1, <2>3, <2>4, TurnFirst, Zenon
<1>3. CASE PrgSignal(p)
  BY <1>0, <1>3, TurnPasses, Zenon
<1>4. CASE PrgLoad(p)
  <2>1. /\ prgPc[p] = "load" /\ prgPc'[p] = "store" /\ worker_idx'[p] = next_worker_idx[p]
        /\ next_worker_idx' = next_worker_idx
    BY <1>0, <1>4, Zenon DEF PrgLoad
  <2> QED  BY <1>0, <1>1, <2>1, TurnMoved, Zenon DEF Turn, PrgSignal
<1>5. CASE PrgStore(p)
  <2>1. prgPc[p] = "store" /\ worker_idx[p] = next_worker_idx[p]
    BY <1>0, <1>5, Zenon DEF PrgStore, TurnOf
  <2>2. /\ prgPc'[p] = "signal" /\ next_worker_idx'[p] = incrementWorkerIdx(p[2], worker_idx[p])
        /\ worker_idx' = worker_idx
    BY <1>0, <1>5, <2>1, Zenon DEF PrgStore, localVars
  <2> QED  BY <1>0, <1>1, <2>1, <2>2, TurnMoved, Zenon DEF Turn, PrgSignal
<1>6. CASE PrgPoll(p) \/ PrgRefill(p) \/ PrgExit(p)
  BY <1>0, <1>1, <1>6, TurnMoved, Zenon DEF Turn, PrgSignal, PrgPoll, PrgRefill, PrgExit
<1>7. CASE PrgPollEmpty(p)
  <2>1. UNCHANGED <<prgPc, worker_idx, next_worker_idx>> /\ prgPc[p] = "poll"
    BY <1>7, Zenon DEF PrgPollEmpty, vars, prgVars, localVars
  <2>2. Handed' = Handed
    BY <1>1, <2>1, Zenon DEF PrgSignal
  <2> QED  BY <1>0, <2>1, <2>2, TurnKept, Zenon
<1> QED
  BY <1>2, <1>3, <1>4, <1>5, <1>6, <1>7, Zenon DEF PrgStep

LEMMA NextRoundRobin ==
  ASSUME WorkInv, Flow, QuietResets, RoundRobin, NoLeftovers, [Next]_vars
  PROVE  RoundRobin'
<1>0. TypeOK /\ OwnClass /\ WorkPhases /\ \A q \in PrgThread : TurnOf(q)
  BY Zenon DEF WorkInv, IInv, RoundRobin, TurnOf
<1>1. SUFFICES ASSUME NEW q \in PrgThread PROVE TurnOf(q)'
  BY Zenon DEF RoundRobin, TurnOf
<1>2. ASSUME UNCHANGED <<runVars, workVars, syncs, prgVars>> PROVE TurnOf(q)'
  BY <1>0, <1>2, TurnKept, HandedStays, Zenon DEF workVars, prgVars, localVars
<1>3. ASSUME NEW r \in Rank, MainStep(r) PROVE TurnOf(q)'
  BY <1>2, <1>3, Zenon DEF MainStep, MainRun, MainStop, MainFree, MainFinalize
<1>4. ASSUME NEW p \in PrgThread, Deliver(p) PROVE TurnOf(q)'
  BY <1>2, <1>4, Zenon DEF Deliver, prgVars
<1>5. ASSUME UNCHANGED vars PROVE TurnOf(q)'
  BY <1>2, <1>5, Zenon DEF vars
<1>6. ASSUME NEW p \in PrgThread, PrgStep(p) PROVE TurnOf(q)'
  <2>1. CASE p = q
    BY <1>6, <2>1, PrgRoundRobin, Zenon
  <2>2. CASE p # q
    <3>1. \A v \in Class(q) : Handed'[v] = Handed[v]
      <4>1. CASE PrgSignal(p)
        <5>1. ASSUME NEW v \in Class(q) PROVE v \in Thread /\ v \notin Class(p)
          BY <2>2, ClassFacts, Zenon
        <5> QED  BY <1>0, <4>1, <5>1, HandedSignal, Zenon
      <4>2. CASE ~PrgSignal(p)
        <5>1. UNCHANGED <<runVars, half, resetPos, syncs>>
          BY <1>6, <4>2, Zenon DEF PrgStep, PrgStart, PrgPollEmpty, PrgPoll, PrgLoad, PrgStore, PrgRefill,
                                   PrgExit, workVars, vars
        <5> QED  BY <5>1, HandedStays, Zenon
      <4> QED  BY <4>1, <4>2, Zenon
    <3>2. prgPc'[q] = prgPc[q] /\ worker_idx'[q] = worker_idx[q] /\ next_worker_idx'[q] = next_worker_idx[q]
      <4>1. prgPc' = prgPc \/ \E x : prgPc' = [prgPc EXCEPT ![p] = x]
        BY <1>6, Zenon DEF PrgStep, PrgStart, PrgPollEmpty, PrgPoll, PrgLoad, PrgStore, PrgSignal, PrgRefill,
                           PrgExit, prgVars, vars
      <4>2. worker_idx' = worker_idx \/ \E x : worker_idx' = [worker_idx EXCEPT ![p] = x]
        BY <1>6, Zenon DEF PrgStep, PrgStart, PrgPollEmpty, PrgPoll, PrgLoad, PrgStore, PrgSignal, PrgRefill,
                           PrgExit, prgVars, localVars, vars
      <4>3. next_worker_idx' = next_worker_idx \/ \E x : next_worker_idx' = [next_worker_idx EXCEPT ![p] = x]
        BY <1>6, Zenon DEF PrgStep, PrgStart, PrgPollEmpty, PrgPoll, PrgLoad, PrgStore, PrgSignal, PrgRefill,
                           PrgExit, prgVars, vars
      <4> QED  BY <1>0, <2>2, <4>1, <4>2, <4>3, Zenon DEF TypeOK
    <3> QED  BY <1>0, <3>1, <3>2, TurnKept, Zenon
  <2> QED  BY <2>1, <2>2, Zenon
<1> QED
  BY <1>3, <1>4, <1>5, <1>6, WorkerRoundRobin, Zenon DEF Next, Finished

-----------------------------------------------------------------------------
(* The first state, the counts of single workers, and pairs of processes. *)

LEMMA InitWork == Init => WorkInv
<1> SUFFICES ASSUME Init PROVE WorkInv
  OBVIOUS
<1>1. /\ prgPc = [p \in PrgThread |-> "start"] /\ dispatched = [p \in PrgThread |-> 0]
      /\ half = [w \in Thread |-> FALSE] /\ resetPos = [r \in Rank |-> 0]
      /\ stage = [w \in Thread |-> "reset0"]
  BY Zenon DEF Init, RunInit
<1>2. DispatchCounts
  BY <1>1, Zenon DEF DispatchCounts
<1>3. WorkPhases
  BY <1>1, Zenon DEF WorkPhases, LoopBounded, Loop
<1> QED
  BY <1>1, <1>2, <1>3, InitIInv, Zenon DEF WorkInv, Covered

LEMMA NextWork == WorkInv /\ [Next]_vars => WorkInv'
<1> SUFFICES ASSUME WorkInv, [Next]_vars PROVE WorkInv'
  OBVIOUS
<1> QED
  BY NextIInv, NextDispatchCounts, NextWorkPhases, NextCovered, Zenon DEF WorkInv, IInv

LEMMA InitNothing ==
  ASSUME Init, NEW v \in Thread
  PROVE  Sent[v] = 0 /\ Handed[v] = 0
<1>1. Done(v) = 0
  BY RunAssumption DEF Done, Before, Iterations, Init, RunInit
<1>2. Given[v] = 0
  BY GivenFacts, Zenon DEF GivenStages, Init, RunInit
<1> QED  BY <1>1, <1>2 DEF Sent, Taken, Handed, Init

LEMMA InitRoundRobin == Init => RoundRobin
<1> SUFFICES ASSUME Init PROVE RoundRobin
  OBVIOUS
<1>1. ASSUME NEW p \in PrgThread, NEW w \in Class(p), NEW u \in Class(p)
      PROVE  Handed[w] = Handed[u] + (IF w[2] < Turn(p) /\ Turn(p) <= u[2] THEN 1 ELSE 0)
  BY InitNothing, ClassFacts DEF Turn, Init
<1> QED
  BY <1>1, Zenon DEF RoundRobin, Init

LEMMA InvFair == TokenInv => FairShare
<1>1. SUFFICES ASSUME TokenInv, NoLeftovers, NEW p \in PrgThread, NEW w \in Class(p), NEW u \in Class(p),
                      w[2] < u[2]
               PROVE  Handed[w] - Handed[u] \in {0, 1}
  BY Zenon DEF FairShare
<1>2. Handed[w] = Handed[u] + (IF w[2] < Turn(p) /\ Turn(p) <= u[2] THEN 1 ELSE 0)
  <2>1. \A x, y \in Class(p) :
          x[2] < y[2] => Handed[x] = Handed[y] + (IF x[2] < Turn(p) /\ Turn(p) <= y[2] THEN 1 ELSE 0)
    BY <1>1, Zenon DEF RoundRobin, TokenInv
  <2> QED  BY <1>1, <2>1, Zenon
<1> QED
  BY <1>1, <1>2, ClassFacts DEF TokenInv, Flow

LEMMA PairFacts ==
  ASSUME Size % 2 = 0, NEW r \in Rank
  PROVE  /\ target_rank(r) \in Rank /\ target_rank(target_rank(r)) = r
         /\ IsSender(target_rank(r)) <=> ~IsSender(r)
<1> DEFINE h == Size \div 2
<1>1. h \in Nat \ {0} /\ Size = h + h
  BY RunAssumption
<1> HIDE DEF h
<1>2. ASSUME NEW q \in Rank
      PROVE  /\ q \in Nat /\ q < h + h /\ (IsSender(q) <=> q < h)
             /\ target_rank(q) = IF q < h THEN q + h ELSE q - h
  <2>0. q \in Nat /\ q < h + h /\ target_rank(q) = (q + h) % (h + h) /\ (IsSender(q) <=> q < h)
    BY <1>1 DEF Rank, target_rank, IsSender
  <2> QED  BY <1>1, <2>0, HalfRing, Zenon
<1> DEFINE t == target_rank(r)
<1> HIDE DEF t
<1> QED
  BY <1>1, <1>2, TargetFacts

(* A worker that sends first starts with a token, the other one without;   *)
(* from there on it is messages handed to it, prefilled work and messages  *)
(* sent that make the difference.                                          *)
First == [w \in Thread |-> IF IsSender(w[1]) THEN 1 ELSE 0]

LEMMA HeldFacts ==
  ASSUME TypeOK, NEW w \in Thread, LoopBounded(w), Handed[w] \in Nat
  PROVE  /\ Held[w] + Sent[w] = Handed[w] + Given[w] + First[w]
         /\ Held[w] \in Nat /\ Sent[w] \in Nat /\ Given[w] \in Nat /\ First[w] \in Nat
<1>1. half[w] \in BOOLEAN /\ IsSender(w[1]) \in BOOLEAN
  BY DEF IsSender, TypeOK
<1>2. /\ Held[w] = syncs[w] + (IF half[w] = ~IsSender(w[1]) THEN 1 ELSE 0)
      /\ Sent[w] = Done(w) + (IF half[w] /\ IsSender(w[1]) THEN 1 ELSE 0)
      /\ Taken[w] = Done(w) + (IF half[w] /\ ~IsSender(w[1]) THEN 1 ELSE 0)
      /\ First[w] = IF IsSender(w[1]) THEN 1 ELSE 0
  BY Zenon DEF Held, Sent, Taken, First
<1>3. \/ Held[w] = syncs[w] + 1 /\ Sent[w] = Done(w) + 0 /\ Taken[w] = Done(w) + 0 /\ First[w] = 1
      \/ Held[w] = syncs[w] + 0 /\ Sent[w] = Done(w) + 1 /\ Taken[w] = Done(w) + 0 /\ First[w] = 1
      \/ Held[w] = syncs[w] + 1 /\ Sent[w] = Done(w) + 0 /\ Taken[w] = Done(w) + 1 /\ First[w] = 0
      \/ Held[w] = syncs[w] + 0 /\ Sent[w] = Done(w) + 0 /\ Taken[w] = Done(w) + 0 /\ First[w] = 0
  <2>1. CASE half[w] = TRUE /\ IsSender(w[1]) = TRUE
    BY <1>2, <2>1, Zenon
  <2>2. CASE half[w] = TRUE /\ IsSender(w[1]) = FALSE
    BY <1>2, <2>2, Zenon
  <2>3. CASE half[w] = FALSE /\ IsSender(w[1]) = TRUE
    BY <1>2, <2>3, Zenon
  <2>4. CASE half[w] = FALSE /\ IsSender(w[1]) = FALSE
    BY <1>2, <2>4, Zenon
  <2> QED  BY <1>1, <2>1, <2>2, <2>3, <2>4, Zenon
<1> QED
  BY <1>3, CountTypes

-----------------------------------------------------------------------------
(* Sums of counts over the workers of a class, and over its senders.       *)

LEMMA TotalSame ==
  ASSUME NEW S, NEW f, NEW g, \A w \in S : g[w] = f[w]
  PROVE  Total(g, S) = Total(f, S)
BY Zenon DEF Total, Units

(* What the arguments below use of the sums over a finite set S, *)
SumLaws(S) ==
  /\ \A f : (\A w \in S : f[w] \in Nat) => Total(f, S) \in Nat
  /\ \A f, g : (\A w \in S : f[w] \in Nat) /\ (\A w \in S : g[w] \in Nat /\ g[w] >= f[w])
               => Total(f, S) <= Total(g, S)
  /\ \A f : (\A w \in S : f[w] \in Nat)
           => \A x \in S : Total(f, S) = Total(f, S \ {x}) + f[x] /\ Total(f, S \ {x}) \in Nat
  /\ \A f, g, h : (\A w \in S : f[w] \in Nat) /\ (\A w \in S : g[w] \in Nat) /\ (\A w \in S : h[w] = f[w] + g[w])
                  => Total(h, S) = Total(f, S) + Total(g, S)
  /\ \A f : \A n \in Nat : (\A w \in S : f[w] = n) => Total(f, S) = Cardinality(S) * n
  /\ Cardinality(S) \in Nat

(* and of the classes: no more workers send to a progress thread than it   *)
(* serves.  ClassLaws is proved at the end, with the theorems on finite    *)
(* sets, and a hypothesis before.                                          *)
ClassLaws ==
  \A p \in PrgThread : /\ SumLaws(Class(p)) /\ SumLaws(Senders(p))
                       /\ Cardinality(Senders(p)) <= Cardinality(Class(p))

LEMMA ClassSums ==
  ASSUME ClassLaws, NEW p \in PrgThread
  PROVE  /\ SumLaws(Class(p)) /\ SumLaws(Senders(p))
         /\ Class(p) \subseteq Thread /\ Senders(p) \subseteq Thread
BY Zenon DEF ClassLaws, Class, Senders

LEMMA SumType ==
  ASSUME NEW S, SumLaws(S), NEW f, \A w \in S : f[w] \in Nat
  PROVE  Total(f, S) \in Nat
BY Zenon DEF SumLaws

LEMMA SumGrows ==
  ASSUME NEW S, SumLaws(S), NEW f, NEW g, \A w \in S : f[w] \in Nat,
         \A w \in S : g[w] \in Nat /\ g[w] >= f[w]
  PROVE  Total(f, S) <= Total(g, S)
BY Zenon DEF SumLaws

LEMMA SumChange ==
  ASSUME NEW S, SumLaws(S), NEW f, NEW g, NEW x \in S,
         \A w \in S : f[w] \in Nat, \A w \in S : g[w] \in Nat,
         \A w \in S : w # x => g[w] = f[w]
  PROVE  Total(g, S) = Total(f, S) + g[x] - f[x]
<1>1. /\ Total(f, S) = Total(f, S \ {x}) + f[x] /\ Total(f, S \ {x}) \in Nat
      /\ Total(g, S) = Total(g, S \ {x}) + g[x] /\ f[x] \in Nat /\ g[x] \in Nat
  BY Zenon DEF SumLaws
<1> QED
  BY <1>1, TotalSame

LEMMA SumAdd ==
  ASSUME NEW S, SumLaws(S), NEW f, NEW g, NEW h, \A w \in S : f[w] \in Nat, \A w \in S : g[w] \in Nat,
         \A w \in S : h[w] = f[w] + g[w]
  PROVE  /\ Total(h, S) = Total(f, S) + Total(g, S)
         /\ Total(f, S) \in Nat /\ Total(g, S) \in Nat
BY Zenon DEF SumLaws

LEMMA SumConst ==
  ASSUME NEW S, SumLaws(S), NEW f, NEW n \in Nat, \A w \in S : f[w] = n
  PROVE  Total(f, S) = Cardinality(S) * n /\ Cardinality(S) \in Nat
BY Zenon DEF SumLaws

(* Between n copies of a bound and of another. *)
LEMMA SumUpper ==
  ASSUME NEW S, SumLaws(S), NEW f, NEW n \in Nat, \A w \in S : f[w] \in Nat /\ f[w] <= n
  PROVE  Total(f, S) <= Cardinality(S) * n
<1> DEFINE g == [w \in S |-> n]
<1>1. \A w \in S : g[w] = n /\ g[w] \in Nat /\ g[w] >= f[w]
  OBVIOUS
<1> HIDE DEF g
<1>2. Total(f, S) <= Total(g, S) /\ Total(g, S) = Cardinality(S) * n
  BY <1>1, SumGrows, SumConst, Zenon
<1> QED
  BY <1>2, Zenon

LEMMA SumLower ==
  ASSUME NEW S, SumLaws(S), NEW f, NEW n \in Nat, \A w \in S : f[w] \in Nat /\ f[w] >= n
  PROVE  /\ Cardinality(S) * n <= Total(f, S)
         /\ Total(f, S) = Cardinality(S) * n => \A w \in S : f[w] = n
<1> DEFINE const == [w \in S |-> n]
<1>1. \A w \in S : const[w] = n /\ const[w] \in Nat
  OBVIOUS
<1> HIDE DEF const
<1>2. ASSUME NEW g, \A w \in S : g[w] \in Nat /\ g[w] >= n
      PROVE  Cardinality(S) * n <= Total(g, S)
  <2>1. Total(const, S) <= Total(g, S) /\ Total(const, S) = Cardinality(S) * n
    BY <1>1, <1>2, SumGrows, SumConst, Zenon
  <2> QED  BY <2>1, Zenon
<1>3. ASSUME NEW x \in S, f[x] # n PROVE Total(f, S) # Cardinality(S) * n
  <2> DEFINE g == [w \in S |-> IF w = x THEN n ELSE f[w]]
  <2>1. g[x] = n /\ \A w \in S : g[w] \in Nat /\ g[w] >= n
    OBVIOUS
  <2>2. \A w \in S \ {x} : g[w] = f[w]
    OBVIOUS
  <2> HIDE DEF g
  <2>3. Total(g, S \ {x}) = Total(f, S \ {x})
    BY <2>2, TotalSame, Zenon
  <2>4. /\ Total(f, S) = Total(f, S \ {x}) + f[x] /\ Total(f, S \ {x}) \in Nat
        /\ Total(g, S) = Total(g, S \ {x}) + g[x] /\ f[x] \in Nat /\ f[x] >= n
    BY <2>1, Zenon DEF SumLaws
  <2>5. Cardinality(S) * n <= Total(g, S) /\ Cardinality(S) * n \in Int
    <3>1. Cardinality(S) \in Nat
      BY Zenon DEF SumLaws
    <3> QED  BY <1>2, <2>1, <3>1
  <2> QED  BY <1>3, <2>1, <2>3, <2>4, <2>5
<1> QED
  BY <1>2, <1>3, Zenon

(* A class whose workers were handed at least T messages each is owed none *)
(* when its senders have sent at most T.                                   *)
LEMMA ClassOwed ==
  ASSUME ClassLaws, NEW p \in PrgThread, NEW T \in Nat, NEW f, NEW h,
         \A u \in Class(p) : h[u] \in Nat /\ h[u] >= T,
         \A v \in Senders(p) : f[v] \in Nat /\ f[v] <= T
  PROVE  /\ Total(f, Senders(p)) <= Total(h, Class(p))
         /\ Total(f, Senders(p)) \in Nat /\ Total(h, Class(p)) \in Nat
         /\ Total(f, Senders(p)) = Total(h, Class(p)) => \A u \in Class(p) : h[u] = T
<1> DEFINE C == Class(p)
           S == Senders(p)
           c == Cardinality(C)
           s == Cardinality(S)
<1>1. SumLaws(C) /\ SumLaws(S)
  BY ClassSums, Zenon
<1>2. s <= c /\ s \in Nat /\ c \in Nat
  BY Zenon DEF ClassLaws, SumLaws
<1>3. Total(f, S) <= s * T
  BY <1>1, SumUpper, Zenon
<1>4. /\ c * T <= Total(h, C)
      /\ Total(h, C) = c * T => \A u \in C : h[u] = T
  BY <1>1, SumLower, Zenon
<1>5. Total(h, C) \in Nat /\ Total(f, S) \in Nat
  BY <1>1, SumType, Zenon
<1> HIDE DEF C, S, c, s
<1>6. s * T <= c * T /\ s * T \in Nat /\ c * T \in Nat
  BY <1>2
<1>7. Total(f, S) <= Total(h, C) /\ (Total(f, S) = Total(h, C) => Total(h, C) = c * T)
  BY <1>3, <1>4, <1>5, <1>6, OwedArithmetic, Zenon
<1> QED
  BY <1>4, <1>5, <1>7, Zenon DEF C, S

-----------------------------------------------------------------------------
(* Quiet classes. *)

(* Such a class has nothing under way. *)
LEMMA QuietClass ==
  ASSUME ClassLaws, TypeOK, DispatchPhases, DispatchCounts, Flow, NoLeftovers, NEW p \in PrgThread, NEW T \in Nat,
         \A u \in Class(p) : Handed[u] >= T,
         \A v \in Senders(p) : Sent[v] \in Nat /\ Sent[v] <= T
  PROVE  /\ net[p] = 0 /\ rxCq[p] = 0 /\ Pending(p) = 0
         /\ \A u \in Class(p) : Handed[u] = T
<1>1. \A u \in Class(p) : Handed[u] \in Nat /\ Handed[u] >= T
  BY Members, Zenon DEF Flow
<1>2. /\ Total(Sent, Senders(p)) <= Total(Handed, Class(p))
      /\ Total(Sent, Senders(p)) \in Nat /\ Total(Handed, Class(p)) \in Nat
      /\ Total(Sent, Senders(p)) = Total(Handed, Class(p)) => \A u \in Class(p) : Handed[u] = T
  BY <1>1, ClassOwed, Zenon
<1>3. Total(Sent, Senders(p)) = Total(Handed, Class(p)) + (net[p] + rxCq[p] + Pending(p))
  BY Zenon DEF Flow, Balanced, Backlog
<1>4. Pending(p) \in Nat /\ net[p] \in Nat /\ rxCq[p] \in Nat
  BY PendingFacts, Zenon
<1>5. /\ net[p] = 0 /\ rxCq[p] = 0 /\ Pending(p) = 0
      /\ Total(Sent, Senders(p)) = Total(Handed, Class(p))
  BY <1>2, <1>3, <1>4, QuietArithmetic, Zenon
<1> QED
  BY <1>2, <1>5, Zenon

(* In the second reset of a size every class is quiet. *)
LEMMA QuietP ==
  ASSUME ClassLaws, WorkInv, Flow, NoLeftovers, NEW z \in Thread, stage[z] = "resetP", NEW p \in PrgThread
  PROVE  /\ net[p] = 0 /\ rxCq[p] = 0 /\ Pending(p) = 0
         /\ \A u \in Class(p) : syncs[u] = Given[u]
<1> DEFINE T == Before(sizeIdx[z]) + SKIP
<1>1. \A u \in Thread : /\ T \in Nat /\ Sent[u] = T
                        /\ syncs[u] >= Given[u] /\ syncs[u] \in Nat /\ Given[u] \in Nat
                        /\ Handed[u] = T + syncs[u] - Given[u]
  BY CountsAtP, Zenon
<1>2. T \in Nat
  BY <1>1, Zenon
<1> HIDE DEF T
<1>3. (\A u \in Class(p) : u \in Thread) /\ (\A v \in Senders(p) : v \in Thread)
  BY Members, Zenon
<1>4. ASSUME NEW u \in Thread
      PROVE  Handed[u] >= T /\ Sent[u] \in Nat /\ Sent[u] <= T /\ (Handed[u] = T => syncs[u] = Given[u])
  <2>1. T <= T /\ T + syncs[u] - Given[u] >= T /\ (T + syncs[u] - Given[u] = T => syncs[u] = Given[u])
    BY <1>1, <1>2, CountArithmetic, Zenon
  <2> QED  BY <1>1, <1>2, <2>1, Zenon
<1>5. /\ net[p] = 0 /\ rxCq[p] = 0 /\ Pending(p) = 0
      /\ \A u \in Class(p) : Handed[u] = T
  BY <1>2, <1>3, <1>4, QuietClass, Zenon DEF WorkInv, IInv
<1> QED
  BY <1>3, <1>4, <1>5, Zenon

(* In either reset the classes of the process are quiet. *)
LEMMA QuietInReset ==
  ASSUME ClassLaws, WorkInv, Flow, NoLeftovers, NEW p \in PrgThread, NEW z \in Thread, z = <<p[1], 0>>, stage[z] \in Reset
  PROVE  /\ net[p] = 0 /\ rxCq[p] = 0 /\ Pending(p) = 0
         /\ \A u \in Class(p) : syncs[u] = Given[u]
         /\ \A u, v \in Class(p) : Handed[u] = Handed[v]
<1>1. PICK T \in Nat : ResetBound(p, T)
  BY ResetBounds, Zenon
<1>2. /\ net[p] = 0 /\ rxCq[p] = 0 /\ Pending(p) = 0
      /\ \A u \in Class(p) : Handed[u] = T
  BY <1>1, QuietClass, Zenon DEF ResetBound, WorkInv, IInv
<1>3. ASSUME NEW u \in Class(p)
      PROVE  syncs[u] = Given[u]
  <2>1. /\ Handed[u] = T + syncs[u] - Given[u] /\ Handed[u] = T
        /\ syncs[u] \in Nat /\ Given[u] \in Nat /\ T \in Nat
    BY <1>1, <1>2, Zenon DEF ResetBound
  <2> QED  BY <2>1, CountArithmetic, Zenon
<1> QED
  BY <1>2, <1>3, Zenon

-----------------------------------------------------------------------------
(* Flow is preserved. *)

LEMMA BalancedNow ==
  ASSUME ClassLaws, TypeOK, DispatchPhases, DispatchCounts, WorkPhases, Flow, NEW q \in PrgThread
  PROVE  /\ Total(Sent, Senders(q)) <= Total(Handed, Class(q)) + Backlog(q)
         /\ NoLeftovers => Total(Sent, Senders(q)) = Total(Handed, Class(q)) + Backlog(q)
         /\ Total(Sent, Senders(q)) \in Nat /\ Total(Handed, Class(q)) \in Nat /\ Backlog(q) \in Nat
         /\ \A v \in Senders(q) : Sent[v] \in Nat
         /\ \A v \in Class(q) : Handed[v] \in Nat
<1>1. Backlog(q) \in Nat
  BY PendingFacts DEF Backlog
<1> QED
  BY <1>1, SumType, CountTypes, ClassSums, Zenon DEF Flow, WorkPhases, Balanced

LEMMA BalanceArithmetic ==
  \A s, h, k, b \in Nat : s <= h + b /\ h <= k => s <= k + b
OBVIOUS

(* Nothing sent, nothing discarded. *)
LEMMA BalancedGrows ==
  ASSUME ClassLaws, TypeOK, DispatchPhases, DispatchCounts, WorkPhases, Flow, NEW q \in PrgThread,
         \A v \in Senders(q) : Sent'[v] = Sent[v],
         \A v \in Class(q) : Handed'[v] \in Nat /\ Handed'[v] >= Handed[v],
         NoLeftovers => \A v \in Class(q) : Handed'[v] = Handed[v],
         Backlog(q)' = Backlog(q)
  PROVE  Balanced(q)'
<1>1. /\ Total(Sent, Senders(q)) <= Total(Handed, Class(q)) + Backlog(q)
      /\ NoLeftovers => Total(Sent, Senders(q)) = Total(Handed, Class(q)) + Backlog(q)
      /\ Total(Sent, Senders(q)) \in Nat /\ Total(Handed, Class(q)) \in Nat /\ Backlog(q) \in Nat
      /\ \A v \in Class(q) : Handed[v] \in Nat
  BY BalancedNow, Zenon
<1>2. Total(Sent', Senders(q)) <= Total(Handed', Class(q)) + Backlog(q)'
  BY <1>1, BalanceArithmetic, TotalSame, SumGrows, SumType, ClassSums, Zenon
<1> QED
  BY <1>1, <1>2, BalancedNext, TotalSame, Zenon

(* A store of reset_counters: whatever it discards, the workers of the     *)
(* class have taken what was sent to it.                                   *)
LEMMA StoreFlow ==
  ASSUME ClassLaws, WorkInv, Flow, QuietResets, NEW w \in Thread, ResetSync(w), NEW q \in PrgThread, Backlog(q)' = Backlog(q),
         \A v \in Thread : Sent'[v] = Sent[v]
  PROVE  Balanced(q)'
<1>0. /\ TypeOK /\ DispatchPhases /\ DispatchCounts /\ WorkPhases /\ WorkerStep(w)
      /\ \A v \in Senders(q) : v \in Thread
      /\ \A v \in Class(q) : v \in Thread /\ v[1] = q[1]
  <2>1. \A v \in Class(q) : v \in Thread /\ v[1] = q[1]
    BY ClassFacts, Zenon
  <2> QED  BY <2>1, Members, Zenon DEF WorkerStep, WorkInv, IInv
<1>1. \A v \in Class(q) : /\ Handed'[v] \in Nat /\ (NoLeftovers => Handed'[v] = Handed[v])
                          /\ v = <<w[1], resetPos[w[1]]>> => Handed'[v] = Taken[v]
                          /\ v # <<w[1], resetPos[w[1]]>> => Handed'[v] >= Handed[v]
  BY <1>0, HandedWorker, Zenon
<1>2. w = <<w[1], 0>> /\ stage[w] \in Reset
  BY <1>0, ResetFacts, Zenon
<1>3. CASE q[1] # w[1]
  <2>1. ASSUME NEW v \in Class(q) PROVE v # <<w[1], resetPos[w[1]]>>
    BY <1>0, <1>3
  <2> QED  BY <1>0, <1>1, <2>1, BalancedGrows, Zenon
<1>4. CASE q[1] = w[1]
  <2>1. PICK T \in Nat : ResetBound(q, T)
    BY <1>2, <1>4, ResetBounds, Zenon
  <2>2. /\ NoLeftovers => Total(Sent, Senders(q)) = Total(Handed, Class(q)) + Backlog(q)
        /\ Backlog(q) \in Nat
    BY <1>0, BalancedNow, ZenonT(30)
  <2>3. Total(Sent', Senders(q)) <= Total(Handed', Class(q)) + Backlog(q)'
    BY <1>0, <1>1, <2>1, <2>2, ClassOwed DEF ResetBound
  <2> QED  BY <1>0, <1>1, <2>2, <2>3, BalancedNext, TotalSame, Zenon
<1> QED
  BY <1>3, <1>4, Zenon

(* A send is one more sent and one more under way. *)
LEMMA SendFlow ==
  ASSUME ClassLaws, WorkInv, Flow, QuietResets, NEW w \in Thread, Send(w), NEW q \in PrgThread
  PROVE  Balanced(q)'
<1> DEFINE p == <<target_rank(w[1]), w[2] % rx_thread_num>>
<1>0. /\ TypeOK /\ RunInv /\ DispatchPhases /\ DispatchCounts /\ WorkPhases /\ WorkerStep(w)
      /\ \A v \in Senders(q) : v \in Thread
      /\ \A v \in Class(q) : v \in Thread
      /\ SumLaws(Senders(q)) /\ SumLaws(Class(q))
  BY ClassSums, Zenon DEF WorkerStep, WorkInv, IInv
<1>1. Sent'[w] = Sent[w] + 1 /\ \A v \in Senders(q) : v # w => Sent'[v] = Sent[v]
  BY <1>0, OthersCounts, EndHalfCounts, Zenon DEF Send
<1>2. \A v \in Class(q) : Handed'[v] \in Nat /\ Handed'[v] >= Handed[v] /\ (NoLeftovers => Handed'[v] = Handed[v])
  <2>1. ~ResetSync(w)
    BY Zenon DEF ResetSync, InReset, Send, InLoop, Loop, Reset
  <2> QED  BY <1>0, <2>1, HandedWorker, Zenon
<1>3. p \in PrgThread /\ w \in Senders(p)
  <2>1. w[1] \in Rank /\ w[2] \in Worker
    BY ThreadFacts, Zenon
  <2>2. target_rank(w[1]) \in Rank /\ w[2] % rx_thread_num \in ProgressId
    BY <2>1, TargetFacts, ConstFacts DEF Worker, ProgressId
  <2>3. p \in PrgThread
    BY <2>2 DEF PrgThread
  <2> QED  BY <2>3 DEF Senders
<1>4. net \in [PrgThread -> Nat] /\ net' = [net EXCEPT ![p] = @ + 1] /\ UNCHANGED <<rxCq, numRecvCompleted, dispatched>>
  BY <1>0, Zenon DEF Send, isend, TypeOK, prgVars, localVars
<1>5. w \in Senders(q) => q = p
  <2>1. q = <<q[1], q[2]>>
    BY DEF PrgThread
  <2> QED  BY <2>1, Zenon DEF Senders
<1> HIDE DEF p
<1>6. CASE q # p
  <2>1. Backlog(q)' = Backlog(q)
    BY <1>4, <1>6, Zenon DEF Backlog, Pending
  <2>2. \A v \in Senders(q) : Sent'[v] = Sent[v]
    BY <1>1, <1>5, <1>6, Zenon
  <2> QED  BY <1>0, <1>2, <2>1, <2>2, BalancedGrows, Zenon
<1>7. CASE q = p
  <2>1. /\ Total(Sent, Senders(q)) <= Total(Handed, Class(q)) + Backlog(q)
        /\ NoLeftovers => Total(Sent, Senders(q)) = Total(Handed, Class(q)) + Backlog(q)
        /\ Total(Sent, Senders(q)) \in Nat /\ Total(Handed, Class(q)) \in Nat /\ Backlog(q) \in Nat
        /\ \A v \in Senders(q) : Sent[v] \in Nat
        /\ \A v \in Class(q) : Handed[v] \in Nat
    BY <1>0, BalancedNow, Zenon
  <2>2. w \in Senders(q)
    BY <1>3, <1>7, ZenonT(30)
  <2>3. Sent'[w] \in Nat /\ Sent[w] \in Nat
    BY <1>1, <2>1, <2>2
  <2>4. \A v \in Senders(q) : Sent'[v] \in Nat
    BY <1>1, <2>1, <2>3, Zenon
  <2>5. Total(Sent', Senders(q)) = Total(Sent, Senders(q)) + (Sent[w] + 1) - Sent[w]
    <3>1. Total(Sent', Senders(q)) = Total(Sent, Senders(q)) + Sent'[w] - Sent[w]
      BY <1>0, <1>1, <2>1, <2>2, <2>4, SumChange, Zenon
    <3> QED  BY <1>1, <3>1, Zenon
  <2>6. Backlog(q)' = Backlog(q) + 1
    <3>1. /\ Backlog(q) = net[q] + rxCq[q] + Pending(q) /\ Backlog(q)' = (net[q] + 1) + rxCq[q] + Pending(q)
      BY <1>4, <1>7, Zenon DEF Backlog, Pending
    <3>2. Pending(q) \in Nat /\ net[q] \in Nat /\ rxCq[q] \in Nat
      BY <1>0, PendingFacts, Zenon
    <3> QED  BY <3>1, <3>2
  <2>7. Total(Handed, Class(q)) <= Total(Handed', Class(q)) /\ Total(Handed', Class(q)) \in Nat
    BY <1>0, <1>2, <2>1, SumGrows, SumType, Zenon
  <2>8. NoLeftovers => Total(Handed', Class(q)) = Total(Handed, Class(q))
    BY <1>2, TotalSame, Zenon
  <2>9. SendRule(Total(Sent, Senders(q)), Total(Handed, Class(q)), Backlog(q), Total(Handed', Class(q)), Sent[w])
    BY <2>1, <2>3, <2>7, SendArithmetic, Zenon
  <2>10. /\ Total(Sent', Senders(q)) <= Total(Handed', Class(q)) + Backlog(q)'
         /\ NoLeftovers => Total(Sent', Senders(q)) = Total(Handed', Class(q)) + Backlog(q)'
    BY <2>1, <2>5, <2>6, <2>7, <2>8, <2>9, Zenon DEF SendRule
  <2> QED  BY <2>10, BalancedNext, Zenon
<1> QED
  BY <1>6, <1>7, Zenon

LEMMA SignalFlow ==
  ASSUME ClassLaws, WorkInv, Flow, NEW p \in PrgThread, PrgSignal(p)
  PROVE  Flow'
<1>0. TypeOK /\ OwnClass /\ DispatchPhases /\ DispatchCounts /\ WorkPhases
  BY Zenon DEF WorkInv, IInv
<1>1. PICK x \in Class(p) : /\ Handed'[x] = Handed[x] + 1
                            /\ \A v \in Thread : v # x => Handed'[v] = Handed[v]
  BY <1>0, HandedSignal, Zenon
<1>2. Sent' = Sent
  BY CountsStay, Zenon DEF PrgSignal, workVars
<1>3. \A v \in Thread : Handed[v] \in Nat /\ Handed'[v] \in Nat
  <2>1. Handed \in [Thread -> Nat] /\ x \in Thread
    BY Members, Zenon DEF Flow
  <2> QED  BY <1>1, <2>1
<1>4. ASSUME NEW q \in PrgThread PROVE Balanced(q)'
  <2>1. Class(q) \subseteq Thread /\ SumLaws(Class(q))
    BY ClassSums, Zenon
  <2>2. CASE q # p
    <3>1. x \notin Class(q)
      BY <2>2, ClassFacts, Zenon
    <3>2. ASSUME NEW v \in Class(q) PROVE Handed'[v] \in Nat /\ Handed'[v] = Handed[v] /\ Handed'[v] >= Handed[v]
      BY <1>1, <1>3, <2>1, <3>1
    <3> QED  BY <1>0, <1>2, <2>2, <3>2, BalancedGrows, Zenon DEF Pending, Backlog, TypeOK, PrgSignal, netVars
  <2>3. CASE q = p
    <3>1. /\ Total(Sent, Senders(q)) <= Total(Handed, Class(q)) + Backlog(q)
          /\ NoLeftovers => Total(Sent, Senders(q)) = Total(Handed, Class(q)) + Backlog(q)
          /\ Total(Sent, Senders(q)) \in Nat /\ Total(Handed, Class(q)) \in Nat /\ Backlog(q) \in Nat
      BY <1>0, BalancedNow, Zenon
    <3>2. Backlog(q)' = Backlog(q) - 1
      <4>1. /\ Backlog(q)' = net[q] + rxCq[q] + (numRecvCompleted[q] - (dispatched[q] + 1))
            /\ Backlog(q) = net[q] + rxCq[q] + (numRecvCompleted[q] - dispatched[q])
        BY <1>0, <2>3, Zenon DEF Pending, Backlog, TypeOK, PrgSignal, netVars
      <4>2. net[q] \in Nat /\ rxCq[q] \in Nat /\ numRecvCompleted[q] \in Nat /\ dispatched[q] \in Nat
        BY <1>0, ZenonT(30) DEF TypeOK
      <4> QED  BY <4>1, <4>2
    <3>3. Total(Handed', Class(q)) = Total(Handed, Class(q)) + Handed'[x] - Handed[x]
      BY <1>1, <1>3, <2>1, <2>3, SumChange
    <3>4. Handed[x] \in Nat
      BY <1>3, Members, ZenonT(30)
    <3>5. Total(Handed', Class(q)) + Backlog(q)' = Total(Handed, Class(q)) + Backlog(q)
      BY <1>1, <3>1, <3>2, <3>3, <3>4
    <3> QED  BY <1>2, <3>1, <3>5, BalancedNext, Zenon
  <2> QED  BY <2>2, <2>3, Zenon
<1> QED
  BY <1>3, <1>4, HandedType, Zenon

LEMMA WorkerFlow ==
  ASSUME ClassLaws, WorkInv, Flow, QuietResets, NEW w \in Thread, WorkerStep(w)
  PROVE  Flow'
<1>0. /\ TypeOK /\ RunInv /\ DispatchPhases /\ DispatchCounts /\ WorkPhases
      /\ \A q \in PrgThread : (\A v \in Senders(q) : v \in Thread) /\ (\A v \in Class(q) : v \in Thread)
  BY Members, Zenon DEF WorkInv, IInv
<1>1. ASSUME NEW q \in PrgThread PROVE Balanced(q)'
  <2>1. CASE Send(w)
    BY <2>1, SendFlow, Zenon
  <2>2. CASE ~Send(w)
    <3>1. UNCHANGED <<net, rxCq, numRecvCompleted, dispatched>>
      BY <2>2, Zenon DEF WorkerStep, ResetSync, ResetIdx, EnterBarrier, Drive, TakeSync, prgVars, localVars,
                         netVars
    <3>2. Backlog(q)' = Backlog(q)
      BY <3>1, Zenon DEF Backlog, Pending
    <3>3. ASSUME NEW v \in Thread PROVE Sent'[v] = Sent[v]
      <4>1. CASE TakeSync(w) /\ v = w
        BY <1>0, <4>1, EndHalfCounts, Zenon DEF TakeSync
      <4>2. CASE ~(TakeSync(w) /\ v = w)
        BY <1>0, <2>2, <4>2, OthersCounts, Zenon
      <4> QED  BY <4>1, <4>2, Zenon
    <3>4. CASE ResetSync(w)
      BY <3>2, <3>3, <3>4, StoreFlow, Zenon
    <3>5. CASE ~ResetSync(w)
      <4>1. ASSUME NEW v \in Class(q)
            PROVE  Handed'[v] \in Nat /\ Handed'[v] >= Handed[v] /\ (NoLeftovers => Handed'[v] = Handed[v])
        BY <1>0, <3>5, HandedWorker, Zenon
      <4> QED  BY <1>0, <3>2, <3>3, <4>1, BalancedGrows, Zenon
    <3> QED  BY <3>4, <3>5, Zenon
  <2> QED  BY <2>1, <2>2, Zenon
<1> QED
  BY <1>1, HandedType, HandedWorker, Zenon

LEMMA NextFlow ==
  ASSUME ClassLaws, WorkInv, Flow, QuietResets, [Next]_vars
  PROVE  Flow'
<1>0. /\ TypeOK /\ DispatchPhases /\ DispatchCounts /\ WorkPhases
      /\ \A q \in PrgThread : \A v \in Class(q) : v \in Thread
      /\ \A v \in Thread : Handed[v] \in Nat /\ Handed[v] >= Handed[v]
  BY Members DEF WorkInv, IInv, Flow
<1>1. ASSUME UNCHANGED <<runVars, half, resetPos, syncs>>, \A q \in PrgThread : Backlog(q)' = Backlog(q)
      PROVE  Flow'
  <2>1. Sent' = Sent /\ Handed' = Handed
    BY <1>1, HandedStays, Zenon
  <2>2. ASSUME NEW q \in PrgThread PROVE Balanced(q)'
    BY <1>0, <1>1, <2>1, BalancedGrows, Zenon
  <2> QED  BY <1>0, <2>1, <2>2, HandedType, Zenon
<1>2. ASSUME UNCHANGED <<runVars, workVars, syncs, prgVars, netVars>> PROVE Flow'
  BY <1>1, <1>2, Zenon DEF Backlog, Pending, workVars, prgVars, localVars, netVars
<1>3. ASSUME NEW r \in Rank, MainStep(r) PROVE UNCHANGED <<runVars, workVars, syncs, prgVars, netVars>>
  BY <1>3, Zenon DEF MainStep, MainRun, MainStop, MainFree, MainFinalize
<1>4. ASSUME UNCHANGED vars PROVE UNCHANGED <<runVars, workVars, syncs, prgVars, netVars>>
  BY <1>4, Zenon DEF vars
<1>5. ASSUME NEW p \in PrgThread, PrgStep(p) \/ Deliver(p), ~PrgSignal(p) PROVE Flow'
  <2>1. UNCHANGED <<runVars, half, resetPos, syncs>>
    BY <1>5, Zenon DEF PrgStep, PrgStart, PrgPollEmpty, PrgPoll, PrgLoad, PrgStore, PrgRefill, PrgExit, Deliver,
                       workVars, vars
  <2> QED  BY <1>0, <1>1, <1>5, <2>1, QueueFlow, Zenon
<1> QED
  BY <1>2, <1>3, <1>4, <1>5, SignalFlow, WorkerFlow, Zenon DEF Next, Finished

LEMMA InitFlow ==
  ASSUME ClassLaws, Init
  PROVE  Flow
<1>1. \A v \in Thread : Sent[v] = 0 /\ Handed[v] = 0
  BY InitNothing, Zenon
<1>2. Handed \in [Thread -> Nat]
  <2>1. \A v \in Thread : Handed[v] \in Nat
    BY <1>1
  <2> QED  BY <2>1, Zenon DEF Handed
<1>3. ASSUME NEW f, NEW S, SumLaws(S), \A v \in S : f[v] = 0 PROVE Total(f, S) = 0
  <2>1. Total(f, S) = Cardinality(S) * 0 /\ Cardinality(S) \in Nat
    BY <1>3, SumConst, Zenon
  <2> QED  BY <2>1
<1>4. ASSUME NEW p \in PrgThread PROVE Balanced(p)
  <2>1. Total(Sent, Senders(p)) = 0 /\ Total(Handed, Class(p)) = 0
    BY <1>1, <1>3, ClassSums, Zenon
  <2>2. Backlog(p) = 0 + 0 + (0 - 0)
    BY Zenon DEF Pending, Backlog, Init
  <2> QED  BY <2>1, <2>2 DEF Balanced
<1> QED
  BY <1>2, <1>4, Zenon DEF Flow

-----------------------------------------------------------------------------
(* The inductive invariant of the counts, and what it says of the resets.  *)

LEMMA ResetsQuiet ==
  ASSUME ClassLaws, WorkInv, Flow
  PROVE  QuietResets
BY QuietInReset, PrgFacts, ConstFacts DEF QuietResets, Thread, Worker

(* TokenInv is inductive. *)
LEMMA InitTokens ==
  ASSUME ClassLaws, Init
  PROVE  TokenInv
BY InitWork, InitFlow, InitRoundRobin, Zenon DEF TokenInv

LEMMA NextTokens ==
  ASSUME ClassLaws, TokenInv, [Next]_vars
  PROVE  TokenInv'
BY NextFlow, NextRoundRobin, ResetsQuiet, NextWork, Zenon DEF TokenInv

LEMMA InvQuiet ==
  ASSUME ClassLaws, TokenInv
  PROVE  QuietAtReset
<1>1. SUFFICES ASSUME NoLeftovers, NEW w \in Thread, NEW p \in PrgThread,
                      w[2] = 0, resetPos[w[1]] = 0,
                      stage[w] = "resetP" \/ (stage[w] = "reset0" /\ p[1] = w[1])
               PROVE  /\ net[p] = 0 /\ rxCq[p] = 0 /\ Pending(p) = 0
                      /\ p[1] = w[1] => \A u \in Class(p) : syncs[u] = 0
  BY Zenon DEF QuietAtReset
<1>2. WorkInv /\ Flow /\ w = <<w[1], 0>>
  BY <1>1, ThreadFacts, Zenon DEF TokenInv
<1>3. CASE stage[w] = "resetP"
  <2>1. /\ net[p] = 0 /\ rxCq[p] = 0 /\ Pending(p) = 0
        /\ \A u \in Class(p) : syncs[u] = Given[u]
    BY <1>1, <1>2, <1>3, QuietP, Zenon
  <2>2. ASSUME p[1] = w[1], NEW u \in Class(p) PROVE syncs[u] = 0
    <3>1. u \in Thread /\ u[1] = w[1]
      BY <2>2, ClassFacts, Zenon
    <3>2. <<u[1], 0>> = w /\ ~(u[2] < resetPos[u[1]])
      BY <1>1, <1>2, <3>1, GivenFacts
    <3> QED  BY <1>3, <2>1, <3>1, <3>2, GivenFacts, Zenon DEF GivenStages
  <2> QED  BY <2>1, <2>2, Zenon
<1>4. CASE stage[w] = "reset0" /\ p[1] = w[1]
  <2>1. /\ net[p] = 0 /\ rxCq[p] = 0 /\ Pending(p) = 0
        /\ \A u \in Class(p) : syncs[u] = Given[u] /\ Given[u] = 0
    <3>1. w = <<p[1], 0>> /\ stage[w] \in Reset /\ w[2] = 0
      BY <1>1, <1>2, <1>4, Zenon DEF Reset
    <3>2. \A u \in Class(p) : u \in Thread /\ u[1] = w[1]
      BY <1>4, ClassFacts, Zenon
    <3>3. \A u \in Class(p) : Given[u] = 0
      BY <1>2, <1>4, <3>1, <3>2, CountsAt0, Zenon
    <3> QED  BY <1>1, <1>2, <3>1, <3>3, QuietInReset, Zenon
  <2> QED  BY <2>1, Zenon
<1> QED
  BY <1>1, <1>3, <1>4, Zenon

-----------------------------------------------------------------------------
(* Tokens.  With an even number of processes they come in pairs that send  *)
(* to each other, one of each pair as the sender.                          *)

(* The workers that send to a progress thread are the class of its         *)
(* counterpart, and the other way round.                                   *)
LEMMA PairClasses ==
  ASSUME ClassLaws, Size % 2 = 0, NEW p \in PrgThread
  PROVE  /\ Opposite(p) \in PrgThread /\ Opposite(p)[1] = target_rank(p[1])
         /\ IsSender(Opposite(p)[1]) <=> ~IsSender(p[1])
         /\ Senders(p) = Class(Opposite(p)) /\ Senders(Opposite(p)) = Class(p)
         /\ Cardinality(Class(Opposite(p))) = Cardinality(Class(p)) /\ Cardinality(Class(p)) \in Nat
<1> DEFINE q == Opposite(p)
<1>1. /\ target_rank(p[1]) \in Rank /\ target_rank(target_rank(p[1])) = p[1]
      /\ IsSender(target_rank(p[1])) <=> ~IsSender(p[1])
  BY PairFacts, PrgFacts, Zenon
<1>2. q \in PrgThread /\ q[1] = target_rank(p[1]) /\ q[2] = p[2]
  BY <1>1, PrgFacts DEF Opposite
<1> HIDE DEF q
<1>3. ASSUME NEW w \in Thread
      PROVE  /\ target_rank(w[1]) = p[1] <=> w[1] = q[1]
             /\ target_rank(w[1]) = q[1] <=> w[1] = p[1]
  <2>1. target_rank(target_rank(w[1])) = w[1]
    BY PairFacts, ThreadFacts, Zenon
  <2> QED  BY <1>1, <1>2, <2>1, Zenon
<1>4. Senders(p) = Class(q) /\ Senders(q) = Class(p)
  <2>1. ASSUME NEW w PROVE (w \in Senders(p) <=> w \in Class(q)) /\ (w \in Senders(q) <=> w \in Class(p))
    BY <1>2, <1>3, Zenon DEF Senders, Class
  <2> QED  BY <2>1, Zenon
<1>5. /\ Cardinality(Class(q)) <= Cardinality(Class(p)) /\ Cardinality(Class(p)) <= Cardinality(Class(q))
      /\ Cardinality(Class(q)) \in Nat /\ Cardinality(Class(p)) \in Nat
  BY <1>2, <1>4, Zenon DEF ClassLaws, SumLaws
<1>6. Cardinality(Class(q)) = Cardinality(Class(p))
  BY <1>5
<1> QED
  BY <1>1, <1>2, <1>4, <1>5, <1>6, Zenon DEF q

(* Added up over a class. *)
LEMMA ClassTokens ==
  ASSUME ClassLaws, TypeOK, WorkPhases, Flow, NEW p \in PrgThread
  PROVE  LET C == Class(p)
         IN  /\ Total(Held, C) + Total(Sent, C) = Total(Handed, C) + Total(Given, C) + Total(First, C)
             /\ Total(Held, C) \in Nat /\ Total(Sent, C) \in Nat /\ Total(Handed, C) \in Nat
             /\ Total(Given, C) \in Nat /\ Total(First, C) \in Nat
<1> DEFINE C == Class(p)
           All == [w \in Thread |-> Held[w] + Sent[w]]
           More == [w \in Thread |-> Handed[w] + Given[w]]
<1>1. SumLaws(C) /\ \A w \in C : w \in Thread
  BY ClassSums, Zenon
<1>2. /\ \A w \in C : Held[w] + Sent[w] = Handed[w] + Given[w] + First[w]
      /\ (\A w \in C : Held[w] \in Nat) /\ (\A w \in C : Sent[w] \in Nat)
      /\ (\A w \in C : Given[w] \in Nat) /\ (\A w \in C : First[w] \in Nat)
      /\ (\A w \in C : Handed[w] \in Nat)
  BY <1>1, HeldFacts, Zenon DEF WorkPhases, Flow
<1>3. (\A w \in C : All[w] = Held[w] + Sent[w]) /\ (\A w \in C : More[w] = Handed[w] + Given[w])
  BY <1>1, Zenon
<1> HIDE DEF All, More, C
<1>4. /\ Total(All, C) = Total(Held, C) + Total(Sent, C)
      /\ Total(Held, C) \in Nat /\ Total(Sent, C) \in Nat
  <2>1. SumLaws(C)
    BY <1>1, Zenon
  <2>2. \A w \in C : Held[w] \in Nat
    BY <1>2, Zenon
  <2>3. \A w \in C : Sent[w] \in Nat
    BY <1>2, Zenon
  <2>4. \A w \in C : All[w] = Held[w] + Sent[w]
    BY <1>3, Zenon
  <2> QED
    BY <2>1, <2>2, <2>3, <2>4, SumAdd, ZenonT(30)
<1>5. /\ Total(More, C) = Total(Handed, C) + Total(Given, C)
      /\ Total(Handed, C) \in Nat /\ Total(Given, C) \in Nat
  <2>1. SumLaws(C)
    BY <1>1, Zenon
  <2>2. \A w \in C : Handed[w] \in Nat
    BY <1>2, Zenon
  <2>3. \A w \in C : Given[w] \in Nat
    BY <1>2, Zenon
  <2>4. \A w \in C : More[w] = Handed[w] + Given[w]
    BY <1>3, Zenon
  <2> QED
    BY <2>1, <2>2, <2>3, <2>4, SumAdd, Zenon
<1>6. Total(All, C) = Total(More, C) + Total(First, C) /\ Total(First, C) \in Nat
  <2>1. SumLaws(C)
    BY <1>1, Zenon
  <2>2. \A w \in C : More[w] \in Nat
    BY <1>2, <1>3
  <2>3. \A w \in C : First[w] \in Nat
    BY <1>2, Zenon
  <2>4. \A w \in C : All[w] = More[w] + First[w]
    BY <1>2, <1>3
  <2> QED
    BY <2>1, <2>2, <2>3, <2>4, SumAdd, ZenonT(30)
<1> QED
  BY <1>4, <1>5, <1>6, Zenon DEF C

(* While nothing or everything is prefilled, the tokens of two opposite    *)
(* classes are what their senders and the reset have brought in.           *)
LEMMA PairBalance ==
  ASSUME ClassLaws, Size % 2 = 0, TokenInv, NEW p \in PrgThread, NEW n \in Nat,
         \A w \in Class(p) : Given[w] = n, \A w \in Class(Opposite(p)) : Given[w] = n
  PROVE  PairTokens(p) >= LoopTokens(p, n) /\ (NoLeftovers => PairTokens(p) = LoopTokens(p, n))
<1> DEFINE q == Opposite(p)
           C == Class(p)
           D == Class(q)
           N == Cardinality(C)
<1>0. TypeOK /\ WorkPhases /\ Flow /\ DispatchPhases /\ DispatchCounts
  BY Zenon DEF TokenInv, WorkInv, IInv
<1>1. /\ q \in PrgThread /\ (IsSender(q[1]) <=> ~IsSender(p[1]))
      /\ Senders(p) = D /\ Senders(q) = C /\ Cardinality(D) = N /\ N \in Nat
  BY PairClasses, Zenon
<1>2. PairTokens(p) = (Backlog(p) + Total(Held, C)) + (Backlog(q) + Total(Held, D))
  BY Zenon DEF PairTokens, Tokens
<1>3. LoopTokens(p, n) = N * (1 + 2 * n)
  BY Zenon DEF LoopTokens
<1>4. (\A w \in C : Given[w] = n) /\ (\A w \in D : Given[w] = n)
  OBVIOUS
<1> HIDE DEF q
<1>5. /\ \A w \in C : w \in Thread /\ w[1] = p[1]
      /\ \A w \in D : w \in Thread /\ w[1] = q[1]
      /\ SumLaws(C) /\ SumLaws(D)
  BY <1>1, ClassFacts, ClassSums, Zenon
<1> HIDE DEF C, D
<1>6. Total(Given, C) = N * n /\ Total(Given, D) = N * n
  <2>1. \A S : SumLaws(S) /\ Cardinality(S) = N /\ (\A w \in S : Given[w] = n) => Total(Given, S) = N * n
    BY SumConst, Zenon
  <2> QED  BY <1>1, <1>4, <1>5, <2>1, Zenon
<1>7. Total(First, C) + Total(First, D) = N
  <2>0. 0 \in Nat /\ 1 \in Nat /\ N * 0 = 0 /\ N * 1 = N /\ N + 0 = N /\ 0 + N = N
    BY <1>1
  <2>1. \A S : SumLaws(S) /\ Cardinality(S) = N =>
          /\ (\A w \in S : First[w] = 0) => Total(First, S) = 0
          /\ (\A w \in S : First[w] = 1) => Total(First, S) = N
    BY <2>0, SumConst, ZenonT(30)
  <2>2. CASE IsSender(p[1])
    BY <1>1, <1>5, <2>0, <2>1, Zenon DEF First
  <2>3. CASE ~IsSender(p[1])
    BY <1>1, <1>5, <2>0, <2>1, Zenon DEF First
  <2> QED  BY <2>2, <2>3, Zenon
<1>8. /\ Total(Held, C) + Total(Sent, C) = Total(Handed, C) + Total(Given, C) + Total(First, C)
      /\ Total(Held, C) \in Nat /\ Total(Sent, C) \in Nat /\ Total(Handed, C) \in Nat
      /\ Total(First, C) \in Nat
  BY <1>0, ClassTokens, Zenon DEF C
<1>9. /\ Total(Held, D) + Total(Sent, D) = Total(Handed, D) + Total(Given, D) + Total(First, D)
      /\ Total(Held, D) \in Nat /\ Total(Sent, D) \in Nat /\ Total(Handed, D) \in Nat
      /\ Total(First, D) \in Nat
  BY <1>0, <1>1, ClassTokens, Zenon DEF D
<1>10. /\ Backlog(p) \in Nat /\ Total(Sent, D) <= Total(Handed, C) + Backlog(p)
       /\ NoLeftovers => Total(Sent, D) = Total(Handed, C) + Backlog(p)
  BY <1>0, <1>1, BalancedNow, Zenon DEF C
<1>11. /\ Backlog(q) \in Nat /\ Total(Sent, C) <= Total(Handed, D) + Backlog(q)
       /\ NoLeftovers => Total(Sent, C) = Total(Handed, D) + Backlog(q)
  BY <1>0, <1>1, BalancedNow, Zenon DEF D
<1> HIDE DEF N
<1> DEFINE g == N * n
<1>12. /\ Total(Held, C) + Total(Sent, C) = Total(Handed, C) + g + Total(First, C)
       /\ Total(Held, D) + Total(Sent, D) = Total(Handed, D) + g + Total(First, D)
       /\ g \in Nat /\ N \in Nat
  <2>1. N * n \in Nat
    BY <1>1
  <2> QED  BY <1>1, <1>6, <1>8, <1>9, <2>1, Zenon
<1> HIDE DEF g
<1>13. PairRule(N, g, Backlog(p), Total(Held, C), Total(Sent, C), Total(Handed, C), Total(First, C),
                Backlog(q), Total(Held, D), Total(Sent, D), Total(Handed, D), Total(First, D))
  BY <1>8, <1>9, <1>10, <1>11, <1>12, PairArithmetic, Zenon
<1>14. /\ (Backlog(p) + Total(Held, C)) + (Backlog(q) + Total(Held, D)) >= N + (g + g)
       /\ NoLeftovers => (Backlog(p) + Total(Held, C)) + (Backlog(q) + Total(Held, D)) = N + (g + g)
  BY <1>7, <1>10, <1>11, <1>12, <1>13, Zenon DEF PairRule
<1> QED
  BY <1>1, <1>2, <1>3, <1>14 DEF g

LEMMA InvTokens ==
  ASSUME ClassLaws, Size % 2 = 0, TokenInv
  PROVE  TokensConserved
<1>1. ASSUME NEW p \in PrgThread, NEW S, Together(p[1], S), NEW w \in Class(p) \cup Class(Opposite(p))
      PROVE  w \in Thread /\ stage[<<w[1], 0>>] \in S
  <2> DEFINE q == Opposite(p)
  <2>1. q \in PrgThread /\ q[1] = target_rank(p[1])
    BY PairClasses, Zenon
  <2> HIDE DEF q
  <2>2. w \in Thread /\ (w[1] = p[1] \/ w[1] = target_rank(p[1]))
    BY <2>1, ClassFacts, Zenon DEF q
  <2> DEFINE z == <<w[1], 0>>
  <2> HIDE DEF z
  <2> QED  BY <1>1, <2>2, GivenFacts, Zenon DEF Together
<1>2. ASSUME NEW w \in Thread, stage[<<w[1], 0>>] \in WarmStages PROVE Given[w] = 0
  BY <1>2, GivenFacts, Zenon DEF WarmStages, GivenStages
<1>3. ASSUME NEW w \in Thread, stage[<<w[1], 0>>] \in TimedStages PROVE Given[w] = prefilled_work
  BY <1>3, GivenFacts, Zenon DEF TimedStages, GivenStages
<1>4. ASSUME NEW p \in PrgThread, Together(p[1], WarmStages)
      PROVE  PairTokens(p) >= LoopTokens(p, 0) /\ (NoLeftovers => PairTokens(p) = LoopTokens(p, 0))
  BY <1>1, <1>2, <1>4, PairBalance, Zenon
<1>5. ASSUME NEW p \in PrgThread, Together(p[1], TimedStages)
      PROVE  /\ PairTokens(p) >= LoopTokens(p, prefilled_work)
             /\ NoLeftovers => PairTokens(p) = LoopTokens(p, prefilled_work)
  BY <1>1, <1>3, <1>5, PairBalance, ConstFacts, Zenon
<1> QED
  BY <1>4, <1>5, Zenon DEF TokensConserved

-----------------------------------------------------------------------------
(* What counting finite sets is needed for: the laws of the sums. *)

INSTANCE FiniteSetTheorems

(* n units for each member of S. *)
LEMMA BoxSize ==
  ASSUME NEW S, IsFiniteSet(S), NEW n \in Nat
  PROVE  IsFiniteSet(S \X (1 .. n)) /\ Cardinality(S \X (1 .. n)) = Cardinality(S) * n
<1>1. IsFiniteSet(1 .. n) /\ Cardinality(1 .. n) = n
  BY FS_Interval
<1> QED
  BY <1>1, FS_Product, Zenon

LEMMA UnitsFinite ==
  ASSUME NEW S, IsFiniteSet(S), NEW f, \A w \in S : f[w] \in Nat
  PROVE  IsFiniteSet(Units(f, S)) /\ Total(f, S) \in Nat
<1> DEFINE g == [w \in S |-> {w} \X (1 .. f[w])]
<1>1. g \in Surjection(S, {{w} \X (1 .. f[w]) : w \in S})
  BY Zenon DEF Surjection
<1>2. IsFiniteSet({{w} \X (1 .. f[w]) : w \in S})
  BY <1>1, FS_Surjection, Zenon
<1>3. \A w \in S : IsFiniteSet({w} \X (1 .. f[w]))
  BY BoxSize, FS_Singleton, Zenon
<1> QED
  BY <1>2, <1>3, FS_CardinalityType, FS_UNION, Zenon DEF Total, Units

(* Two disjoint sets of units. *)
LEMMA UnitsUnion ==
  ASSUME NEW A, NEW B, IsFiniteSet(A), IsFiniteSet(B), A \cap B = {}
  PROVE  Cardinality(A \cup B) = Cardinality(A) + Cardinality(B)
<1>1. Cardinality(A \cup B) = Cardinality(A) + Cardinality(B) - Cardinality(A \cap B)
  BY FS_Union, Zenon
<1>2. Cardinality(A \cap B) = 0 /\ Cardinality(A) \in Nat /\ Cardinality(B) \in Nat
  BY FS_EmptySet, FS_CardinalityType, ZenonT(30)
<1> QED
  BY <1>1, <1>2

LEMMA TotalSplit ==
  ASSUME NEW S, IsFiniteSet(S), NEW f, \A w \in S : f[w] \in Nat, NEW x \in S
  PROVE  Total(f, S) = Total(f, S \ {x}) + f[x] /\ Total(f, S \ {x}) \in Nat
<1>1. IsFiniteSet(Units(f, S \ {x})) /\ Total(f, S \ {x}) \in Nat
  BY UnitsFinite, FS_RemoveElement, Zenon
<1>2. IsFiniteSet({x}) /\ Cardinality({x}) = 1 /\ f[x] \in Nat
  BY FS_Singleton, Zenon
<1>3. IsFiniteSet({x} \X (1 .. f[x])) /\ Cardinality({x} \X (1 .. f[x])) = Cardinality({x}) * f[x]
  BY <1>2, BoxSize, Zenon
<1>4. Units(f, S) = Units(f, S \ {x}) \cup ({x} \X (1 .. f[x])) /\ Units(f, S \ {x}) \cap ({x} \X (1 .. f[x])) = {}
  BY UnitsSplit, Zenon
<1>5. Total(f, S) = Total(f, S \ {x}) + Cardinality({x} \X (1 .. f[x]))
  BY <1>1, <1>3, <1>4, UnitsUnion, Zenon DEF Total
<1>6. Cardinality({x}) * f[x] = f[x]
  <2> DEFINE n == f[x]
             c == Cardinality({x})
  <2>1. n \in Nat /\ c = 1
    BY <1>2, Zenon
  <2> HIDE DEF n, c
  <2>2. c * n = n
    BY <2>1, SMT
  <2> QED
    BY <2>2, Zenon DEF n, c
<1> QED
  BY <1>1, <1>3, <1>5, <1>6, Zenon

LEMMA TotalAdd ==
  ASSUME NEW S, IsFiniteSet(S), NEW f, NEW g, NEW h, \A w \in S : f[w] \in Nat, \A w \in S : g[w] \in Nat,
         \A w \in S : h[w] = f[w] + g[w]
  PROVE  Total(h, S) = Total(f, S) + Total(g, S)
<1> DEFINE G == Units(g, S)
           A == After(f, h, S)
           move == Move(f, g, S)
<1>1. /\ Units(h, S) = Units(f, S) \cup A /\ Units(f, S) \cap A = {}
      /\ move \in [G -> A]
      /\ \A c, d \in G : move[c] = move[d] => c = d
      /\ \A c \in A : \E d \in G : move[d] = c
  <2>1. Follows(f, g, h, S)
    BY UnitsAdd, Zenon
  <2> QED  BY <2>1, Zenon DEF Follows
<1>2. IsFiniteSet(Units(f, S)) /\ IsFiniteSet(G)
  BY UnitsFinite, Zenon
<1> HIDE DEF G, A, move
<1>3. ExistsBijection(G, A)
  BY <1>1, Zenon DEF ExistsBijection, Bijection, Injection, Surjection, IsInjective
<1>4. IsFiniteSet(A) /\ Cardinality(A) = Cardinality(G)
  BY <1>2, <1>3, FS_Bijection, Zenon
<1>5. Cardinality(Units(f, S) \cup A) = Cardinality(Units(f, S)) + Cardinality(A)
  BY <1>1, <1>2, <1>4, UnitsUnion, Zenon
<1> QED
  BY <1>1, <1>4, <1>5, Zenon DEF Total, G

LEMMA FiniteSums ==
  ASSUME NEW S, IsFiniteSet(S)
  PROVE  SumLaws(S)
<1>1. \A f, g : (\A w \in S : f[w] \in Nat) /\ (\A w \in S : g[w] \in Nat /\ g[w] >= f[w])
               => Total(f, S) <= Total(g, S)
  BY UnitsGrow, UnitsFinite, FS_Subset, Zenon DEF Total
<1>2. \A f, g, h : (\A w \in S : f[w] \in Nat) /\ (\A w \in S : g[w] \in Nat) /\ (\A w \in S : h[w] = f[w] + g[w])
                   => Total(h, S) = Total(f, S) + Total(g, S)
  BY TotalAdd, Zenon
<1>3. \A f : \A n \in Nat : (\A w \in S : f[w] = n) => Total(f, S) = Cardinality(S) * n
  <2>1. ASSUME NEW f, NEW n \in Nat, \A w \in S : f[w] = n PROVE Cardinality(Units(f, S)) = Cardinality(S \X (1 .. n))
    BY <2>1, UnitsConst, Zenon
  <2> QED  BY <2>1, BoxSize, Zenon DEF Total
<1> QED
  BY <1>1, <1>2, <1>3, UnitsFinite, TotalSplit, FS_CardinalityType, Zenon DEF SumLaws

LEMMA ClassLawsHold == ClassLaws
<1> SUFFICES ASSUME NEW p \in PrgThread
             PROVE  /\ SumLaws(Class(p)) /\ SumLaws(Senders(p))
                    /\ Cardinality(Senders(p)) <= Cardinality(Class(p))
  BY Zenon DEF ClassLaws
<1>1. 0 \in Int /\ Size - 1 \in Int /\ tx_thread_num - 1 \in Int
  BY RunAssumption
<1>2. IsFiniteSet(Class(p)) /\ IsFiniteSet(Senders(p))
  BY <1>1, FS_Subset, FS_Interval, FS_Product, Zenon DEF Class, Senders, Thread, Rank, Worker
<1> QED
  BY <1>2, FiniteSums, FS_Injection, SendersFit, Zenon DEF Injection, IsInjective

-----------------------------------------------------------------------------
(* The theorems on the counts. *)

LEMMA TokenInvariant == Spec => []TokenInv
<1>1. Init => TokenInv
  BY ClassLawsHold, InitTokens, Zenon
<1>2. TokenInv /\ [Next]_vars => TokenInv'
  BY ClassLawsHold, NextTokens, Zenon
<1> QED
  BY <1>1, <1>2, PTL DEF Spec

(* The resets of reset_counters discard nothing: when thread 0 starts one, *)
(* every message sent to its process (in the second reset, to any process) *)
(* has been received, handed out and taken.                                *)
THEOREM ResetsAreQuiet == Spec => []QuietAtReset
<1>1. TokenInv => QuietAtReset
  BY ClassLawsHold, InvQuiet, Zenon
<1> QED
  BY <1>1, TokenInvariant, PTL

(* incrementWorkerIdx deals messages round robin: in a class nobody is     *)
(* ever ahead of an earlier worker or two messages behind it, whatever the *)
(* resets store in between.                                                *)
THEOREM SharesAreFair == Spec => []FairShare
BY TokenInvariant, InvFair, PTL

(* Messages are neither lost nor made up, for any number of pairs of       *)
(* processes, workers, progress threads, sizes, iterations and prefilled   *)
(* messages: in a loop opposite classes have one token per sender and the  *)
(* prefilled ones, or more if an earlier loop left some over.              *)
THEOREM TokensAreConserved ==
  ASSUME Size % 2 = 0
  PROVE  Spec => []TokensConserved
<1>1. TokenInv => TokensConserved
  BY ClassLawsHold, InvTokens, Zenon
<1> QED  BY <1>1, TokenInvariant, PTL
=============================================================================
