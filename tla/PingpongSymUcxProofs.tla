------------------------ MODULE PingpongSymUcxProofs ------------------------
(***************************************************************************)
(* The safety of the symmetric UCX benchmark for every even number of      *)
(* processes and every number of workers, sizes, iterations and slots: it  *)
(* implements its driver and its start-up, and no message is lost, made up *)
(* or overwritten by a reset.                                              *)
(***************************************************************************)
EXTENDS PingpongSymUcx, RunVaryMsgProofs

-----------------------------------------------------------------------------
(* Pairs of workers. *)

LEMMA TargetFacts ==
  ASSUME NEW r \in Rank
  PROVE  /\ target_rank(r) \in Rank /\ target_rank(r) # r /\ target_rank(target_rank(r)) = r
         /\ IsSender(target_rank(r)) <=> ~IsSender(r)
<1> DEFINE h == Size \div 2
<1>1. h \in Nat \ {0} /\ Size = h + h /\ r \in Nat /\ r < h + h
  BY RunAssumption, SymUcxAssumption DEF Rank
<1> HIDE DEF h
<1>2. \A q \in Rank : target_rank(q) = (q + h) % (h + h) /\ (IsSender(q) <=> q < h)
  BY <1>1 DEF h, target_rank, IsSender
<1>3. \A q \in 0 .. h + h - 1 :
        (q < h => (q + h) % (h + h) = q + h) /\ (~(q < h) => (q + h) % (h + h) = q - h)
  <2> SUFFICES ASSUME NEW q \in 0 .. h + h - 1
               PROVE  /\ q < h => (q + h) % (h + h) = q + h
                      /\ ~(q < h) => (q + h) % (h + h) = q - h
    OBVIOUS
  <2>1. ASSUME q < h PROVE (q + h) % (h + h) = q + h
    BY <1>1, <2>1
  <2>2. ASSUME ~(q < h) PROVE (q + h) % (h + h) = q - h
    BY <1>1, <2>2
  <2> QED  BY <2>1, <2>2
<1>4. Rank = 0 .. h + h - 1
  BY <1>1 DEF Rank
<1>5. \A q \in Rank : target_rank(q) = IF q < h THEN q + h ELSE q - h
  BY <1>2, <1>3, <1>4
<1>6. target_rank(r) \in Rank /\ target_rank(r) # r
  BY <1>1, <1>4, <1>5
<1>7. target_rank(target_rank(r)) = r
  BY <1>1, <1>4, <1>5, <1>6
<1>8. IsSender(target_rank(r)) <=> ~IsSender(r)
  <2>1. (IsSender(r) <=> r < h) /\ (IsSender(target_rank(r)) <=> target_rank(r) < h)
    BY <1>2, <1>6
  <2>2. target_rank(r) < h <=> ~(r < h)
    BY <1>1, <1>5
  <2> QED  BY <2>1, <2>2
<1> QED
  BY <1>6, <1>7, <1>8

LEMMA PartnerFacts ==
  ASSUME NEW w \in Thread
  PROVE  /\ Partner(w) \in Thread /\ Partner(w) # w /\ Partner(Partner(w)) = w
         /\ Partner(w)[1] = target_rank(w[1]) /\ Partner(w)[1] \in Rank
         /\ Partner(w)[2] = w[2] /\ w[2] \in Worker /\ w[1] \in Rank
         /\ IsSender(Partner(w)[1]) <=> ~IsSender(w[1])
<1>1. w = <<w[1], w[2]>> /\ w[1] \in Rank /\ w[2] \in Worker
  BY ThreadFacts
<1>2. /\ target_rank(w[1]) \in Rank /\ target_rank(w[1]) # w[1]
      /\ target_rank(target_rank(w[1])) = w[1]
      /\ IsSender(target_rank(w[1])) <=> ~IsSender(w[1])
  BY <1>1, TargetFacts
<1>3. Partner(w) \in Thread /\ Partner(w)[1] = target_rank(w[1]) /\ Partner(w)[2] = w[2]
  BY <1>1, <1>2, ThreadFacts DEF Partner
<1>4. Partner(Partner(w)) = <<target_rank(target_rank(w[1])), w[2]>>
  BY <1>3 DEF Partner
<1> QED
  BY <1>1, <1>2, <1>3, <1>4

-----------------------------------------------------------------------------
(* The benchmark implements its driver. *)

LEMMA WorkerRuns ==
  ASSUME NEW w \in Thread, WorkerStep(w)
  PROVE  RunStep(w) \/ UNCHANGED runVars
<1>1. CASE ResetSync(w) \/ SendRetry(w) \/ Poll(w)
  BY <1>1 DEF ResetSync, SendRetry, Poll
<1>2. CASE EnterBarrier(w)
  BY <1>2 DEF EnterBarrier, RunStep
<1>3. CASE Drive(w)
  BY <1>3 DEF Drive, RunStep
<1>4. CASE Send(w) \/ TakeSync(w)
  BY <1>4 DEF Send, TakeSync, EndHalf, RunStep
<1> QED
  BY <1>1, <1>2, <1>3, <1>4 DEF WorkerStep

LEMMA StepIsRun == [Next]_vars => [RunNext]_runVars
<1> SUFFICES ASSUME [Next]_vars PROVE [RunNext]_runVars
  OBVIOUS
<1>1. ASSUME NEW r \in Rank, MainStep(r) PROVE UNCHANGED runVars
  BY <1>1 DEF MainStep, MainStart, MainHandler, MainRun, MainLeave, MainFinalize
<1>2. ASSUME NEW w \in Thread, Arrive(w) \/ Complete(w) PROVE UNCHANGED runVars
  BY <1>2 DEF Arrive, Complete
<1>3. CASE UNCHANGED vars
  BY <1>3 DEF vars
<1> QED
  BY <1>1, <1>2, <1>3, WorkerRuns DEF Next, Finished, RunNext

(* Refinement: the workers execute RUN_VARY_MSG, and nobody else touches   *)
(* its state.                                                              *)
THEOREM ImplementsRun == Spec => RunSpec
<1>1. Init => RunInit
  BY DEF Init
<1> QED  BY <1>1, StepIsRun, PTL DEF Spec, RunSpec

-----------------------------------------------------------------------------
(* Type correctness. *)

LEMMA InitWorkType == Init => WorkTypeOK
<1> SUFFICES ASSUME Init PROVE WorkTypeOK
  OBVIOUS
<1>1. RunTypeOK
  BY InitRunInv DEF Init, RunInv
<1> QED
  BY <1>1, RunAssumption DEF Init, WorkTypeOK

(* What uct_worker_progress does to the counters of its worker. *)
LEMMA ProgressFacts ==
  ASSUME WorkTypeOK, Room, NEW w \in Thread, NEW n \in Nat, NEW sent \in {0, 1},
         progress(w, n, sent)
  PROVE  /\ n <= arrived[w] /\ arrived'[w] = arrived[w] - n /\ syncs'[w] = syncs[w] + n
         /\ arrived' \in [Thread -> Nat] /\ syncs' \in [Thread -> Nat]
         /\ slots' \in [Thread -> Nat] /\ completed' \in [Thread -> Nat]
         /\ slots'[w] = slots[w] + sent - completed[w] /\ completed'[w] = 0
         /\ \A v \in Thread : v # w => /\ arrived'[v] = arrived[v] /\ syncs'[v] = syncs[v]
                                       /\ slots'[v] = slots[v] /\ completed'[v] = completed[v]
<1>1. /\ arrived \in [Thread -> Nat] /\ syncs \in [Thread -> Nat]
      /\ slots \in [Thread -> Nat] /\ completed \in [Thread -> Nat] /\ net \in [Thread -> Nat]
  BY DEF WorkTypeOK
<1>2. completed[w] <= slots[w]
  BY <1>1 DEF Room
<1>3. n <= arrived[w] /\ arrived[w] - n \in Nat /\ slots[w] + sent - completed[w] \in Nat
  BY <1>1, <1>2 DEF progress
<1>4. /\ arrived' = [arrived EXCEPT ![w] = arrived[w] - n]
      /\ syncs' = [syncs EXCEPT ![w] = syncs[w] + n]
      /\ slots' = [slots EXCEPT ![w] = slots[w] + sent - completed[w]]
      /\ completed' = [completed EXCEPT ![w] = 0]
  BY DEF progress
<1>5. arrived' \in [Thread -> Nat] /\ syncs' \in [Thread -> Nat]
      /\ slots' \in [Thread -> Nat] /\ completed' \in [Thread -> Nat]
  BY <1>1, <1>3, <1>4
<1> QED
  BY <1>1, <1>3, <1>4, <1>5

LEMMA NextWorkType ==
  ASSUME WorkTypeOK, Room, [Next]_vars
  PROVE  WorkTypeOK'
<1>0. RunTypeOK'
  BY NextRunType, StepIsRun DEF WorkTypeOK
<1> USE <1>0 DEF mainVars, workVars, netVars
<1>1. ASSUME NEW r \in Rank, MainStep(r) PROVE WorkTypeOK'
  <2>1. CASE MainHandler(r)
    <3>1. PICK t \in Worker : handlers' = [handlers EXCEPT ![r] = @ \cup {t}]
      BY <2>1, ZenonT(30) DEF MainHandler
    <3> QED  BY <2>1, <3>1 DEF MainHandler, WorkTypeOK
  <2>2. CASE MainStart(r) \/ MainRun(r) \/ MainLeave(r) \/ MainFinalize(r)
    BY <2>2 DEF MainStart, MainRun, MainLeave, MainFinalize, WorkTypeOK
  <2> QED  BY <1>1, <2>1, <2>2 DEF MainStep
<1>2. ASSUME NEW w \in Thread, WorkerStep(w) PROVE WorkTypeOK'
  <2>1. CASE ResetSync(w)
    <3>1. w[1] \in Rank /\ resetPos[w[1]] \in 0 .. tx_thread_num /\ tx_thread_num \in Nat
      BY ThreadFacts, RunAssumption DEF WorkTypeOK
    <3>2. /\ syncs' = [syncs EXCEPT ![<<w[1], resetPos[w[1]]>>] = 0]
          /\ resetPos' = [resetPos EXCEPT ![w[1]] = resetPos[w[1]] + 1]
          /\ resetPos[w[1]] + 1 \in 0 .. tx_thread_num
      BY <2>1, <3>1 DEF ResetSync
    <3>3. syncs' \in [Thread -> Nat]
      BY <3>2, ZenonT(30) DEF WorkTypeOK
    <3>4. resetPos' \in [Rank -> 0 .. tx_thread_num]
      BY <3>2, ZenonT(30) DEF WorkTypeOK
    <3>5. UNCHANGED <<mainPc, handlers, half, net, slots, completed, arrived>>
      BY <2>1 DEF ResetSync
    <3> QED  BY <3>3, <3>4, <3>5 DEF WorkTypeOK
  <2>2. CASE EnterBarrier(w)
    <3>1. /\ resetPos' = [resetPos EXCEPT ![w[1]] = IF w[2] = 0 THEN 0 ELSE resetPos[w[1]]]
          /\ w[1] \in Rank /\ 0 \in 0 .. tx_thread_num
      BY <2>2, ThreadFacts, RunAssumption DEF EnterBarrier
    <3>2. resetPos' \in [Rank -> 0 .. tx_thread_num]
      BY <3>1 DEF WorkTypeOK
    <3>3. UNCHANGED <<mainPc, handlers, half, syncs, net, slots, completed, arrived>>
      BY <2>2 DEF EnterBarrier
    <3> QED  BY <3>2, <3>3 DEF WorkTypeOK
  <2>3. CASE Drive(w)
    BY <2>3 DEF Drive, WorkTypeOK
  <2>4. CASE Send(w)
    <3>1. PICK n \in 0 .. arrived[w] : progress(w, n, 1)
      BY <2>4 DEF Send
    <3>2. n \in Nat
      BY <3>1 DEF WorkTypeOK
    <3>3. /\ arrived' \in [Thread -> Nat] /\ syncs' \in [Thread -> Nat]
          /\ slots' \in [Thread -> Nat] /\ completed' \in [Thread -> Nat]
      BY <3>1, <3>2, ProgressFacts
    <3>4. net' \in [Thread -> Nat] /\ half' \in [Thread -> BOOLEAN] /\ UNCHANGED <<mainVars, resetPos>>
      BY <2>4 DEF Send, EndHalf, WorkTypeOK
    <3> QED  BY <3>3, <3>4 DEF WorkTypeOK
  <2>5. CASE SendRetry(w) \/ Poll(w)
    <3>1. PICK n \in 0 .. arrived[w] : progress(w, n, 0)
      BY <2>5 DEF SendRetry, Poll
    <3>2. n \in Nat
      BY <3>1 DEF WorkTypeOK
    <3>3. /\ arrived' \in [Thread -> Nat] /\ syncs' \in [Thread -> Nat]
          /\ slots' \in [Thread -> Nat] /\ completed' \in [Thread -> Nat]
      BY <3>1, <3>2, ProgressFacts
    <3> QED  BY <2>5, <3>3 DEF SendRetry, Poll, WorkTypeOK
  <2>6. CASE TakeSync(w)
    BY <2>6 DEF TakeSync, EndHalf, WorkTypeOK
  <2> QED  BY <1>2, <2>1, <2>2, <2>3, <2>4, <2>5, <2>6 DEF WorkerStep
<1>3. ASSUME NEW w \in Thread, Arrive(w) PROVE WorkTypeOK'
  <2>1. /\ Partner(w) \in Thread /\ net[w] - 1 \in Nat /\ arrived[Partner(w)] + 1 \in Nat
        /\ net' = [net EXCEPT ![w] = net[w] - 1]
        /\ arrived' = [arrived EXCEPT ![Partner(w)] = arrived[Partner(w)] + 1]
    BY <1>3, PartnerFacts DEF Arrive, WorkTypeOK
  <2>2. net' \in [Thread -> Nat] /\ arrived' \in [Thread -> Nat]
    BY <2>1 DEF WorkTypeOK
  <2>3. UNCHANGED <<mainPc, handlers, half, resetPos, syncs, slots, completed>>
    BY <1>3 DEF Arrive
  <2> QED  BY <2>2, <2>3 DEF WorkTypeOK
<1>4. ASSUME NEW w \in Thread, Complete(w) PROVE WorkTypeOK'
  BY <1>4 DEF Complete, WorkTypeOK
<1>5. CASE UNCHANGED vars
  BY <1>5 DEF vars, WorkTypeOK
<1> QED
  BY <1>1, <1>2, <1>3, <1>4, <1>5 DEF Next, Finished

LEMMA NextRoom ==
  ASSUME WorkTypeOK, Room, [Next]_vars
  PROVE  Room'
<1>0. /\ net \in [Thread -> Nat] /\ slots \in [Thread -> Nat] /\ completed \in [Thread -> Nat]
      /\ arrived \in [Thread -> Nat]
  BY DEF WorkTypeOK
<1>1. ASSUME UNCHANGED <<net, slots, completed>> PROVE Room'
  BY <1>1 DEF Room
<1>2. ASSUME NEW w \in Thread, NEW n \in Nat, NEW sent \in {0, 1}, progress(w, n, sent),
             net' = [net EXCEPT ![w] = @ + sent] \/ (sent = 0 /\ net' = net)
      PROVE  Room'
  <2>1. /\ slots'[w] = slots[w] + sent - completed[w] /\ completed'[w] = 0
        /\ \A v \in Thread : v # w => slots'[v] = slots[v] /\ completed'[v] = completed[v]
    BY <1>2, ProgressFacts
  <2>2. net'[w] = net[w] + sent /\ \A v \in Thread : v # w => net'[v] = net[v]
    BY <1>0, <1>2
  <2> QED  BY <1>0, <2>1, <2>2 DEF Room
<1>3. ASSUME NEW r \in Rank, MainStep(r) PROVE Room'
  BY <1>1, <1>3 DEF MainStep, MainStart, MainHandler, MainRun, MainLeave, MainFinalize, netVars
<1>4. ASSUME NEW w \in Thread, WorkerStep(w) PROVE Room'
  <2>1. CASE ResetSync(w) \/ EnterBarrier(w) \/ Drive(w) \/ TakeSync(w)
    BY <1>1, <2>1 DEF ResetSync, EnterBarrier, Drive, TakeSync, netVars
  <2>2. CASE Send(w)
    <3>1. PICK n \in 0 .. arrived[w] : progress(w, n, 1)
      BY <2>2 DEF Send
    <3>2. n \in Nat /\ net' = [net EXCEPT ![w] = @ + 1]
      BY <1>0, <2>2, <3>1 DEF Send
    <3> QED  BY <1>2, <3>1, <3>2, ZenonT(30)
  <2>3. CASE SendRetry(w) \/ Poll(w)
    <3>1. PICK n \in 0 .. arrived[w] : progress(w, n, 0)
      BY <2>3 DEF SendRetry, Poll
    <3>2. n \in Nat /\ net' = net
      BY <1>0, <2>3, <3>1 DEF SendRetry, Poll
    <3> QED  BY <1>2, <3>1, <3>2
  <2> QED  BY <1>4, <2>1, <2>2, <2>3 DEF WorkerStep
<1>5. ASSUME NEW w \in Thread, Arrive(w) \/ Complete(w) PROVE Room'
  BY <1>0, <1>5 DEF Arrive, Complete, Room
<1>6. CASE UNCHANGED vars
  BY <1>1, <1>6, ZenonT(30) DEF vars, netVars
<1> QED
  BY <1>3, <1>4, <1>5, <1>6 DEF Next, Finished

-----------------------------------------------------------------------------
(* Main and its workers. *)

PhaseAt(w) ==
  /\ mainPc[w[1]] = "handlers" => stage[w] = "reset0" /\ sizeIdx[w] = 0
  /\ half[w] => InLoop(w)
  /\ LoopBounded(w)

(* What a worker's step does to the rest of the program. *)
LEMMA WorkerFrame ==
  ASSUME WorkTypeOK, NEW w \in Thread, WorkerStep(w)
  PROVE  /\ mainPc[w[1]] = "team" /\ UNCHANGED mainVars
         /\ \A v \in Thread : v # w =>
              stage'[v] = stage[v] /\ sizeIdx'[v] = sizeIdx[v] /\ iter'[v] = iter[v]
         /\ \A v \in Thread : v # w => half'[v] = half[v]
<1>1. mainPc[w[1]] = "team" /\ UNCHANGED mainVars
  BY ZenonT(30) DEF WorkerStep, ResetSync, EnterBarrier, Drive, Send, SendRetry, Poll, TakeSync, InReset,
         Sending, Waiting, Running
<1>2. \A v \in Thread : v # w =>
        stage'[v] = stage[v] /\ sizeIdx'[v] = sizeIdx[v] /\ iter'[v] = iter[v]
  BY WorkerRuns, OthersStay, IterStays, ZenonT(30) DEF WorkTypeOK, runVars
<1>3. \A v \in Thread : v # w => half'[v] = half[v]
  BY DEF WorkTypeOK, WorkerStep, ResetSync, EnterBarrier, Drive, Send, SendRetry, Poll, TakeSync,
         EndHalf, workVars
<1> QED
  BY <1>1, <1>2, <1>3, ZenonT(30)

(* The steps of the lambda end a half; the others leave half alone. *)
Halves(w) == Send(w) \/ TakeSync(w)
Drives(w) ==
  RunEnter(w) \/ RunLeave(w) \/ RunEnterTeam(w) \/ RunLeaveTeam(w) \/ RunReport(w)

LEMMA WorkerKinds ==
  ASSUME NEW w \in Thread, WorkerStep(w)
  PROVE  \/ Halves(w) /\ InLoop(w) /\ EndHalf(w)
         \/ half' = half /\ Drives(w)
         \/ half' = half /\ UNCHANGED runVars
<1>1. CASE ResetSync(w) \/ SendRetry(w) \/ Poll(w)
  BY <1>1 DEF ResetSync, SendRetry, Poll, workVars
<1>2. CASE EnterBarrier(w) \/ Drive(w)
  BY <1>2 DEF EnterBarrier, Drive, Drives, workVars
<1>3. CASE Send(w) \/ TakeSync(w)
  BY <1>3 DEF Send, TakeSync, Halves, Sending, Waiting
<1> QED
  BY <1>1, <1>2, <1>3 DEF WorkerStep

LEMMA EndHalfFacts ==
  ASSUME WorkTypeOK, NEW w \in Thread, InLoop(w), EndHalf(w)
  PROVE  /\ half[w] => /\ ~half'[w] /\ iter'[w] = iter[w] + 1
                       /\ stage' = stage /\ sizeIdx' = sizeIdx
         /\ ~half[w] => /\ half'[w] /\ iter' = iter
                        /\ stage' = stage /\ sizeIdx' = sizeIdx
<1>1. half'[w] = ~half[w]
  BY DEF EndHalf, WorkTypeOK
<1>2. half[w] => /\ iter' = [iter EXCEPT ![w] = @ + 1]
                 /\ stage' = stage /\ sizeIdx' = sizeIdx
  BY DEF EndHalf, RunIterate
<1>3. ~half[w] => UNCHANGED runVars
  BY DEF EndHalf
<1>4. iter \in [Thread -> Nat]
  BY DEF WorkTypeOK, RunTypeOK
<1>5. half[w] => iter'[w] = iter[w] + 1
  BY <1>2, <1>4
<1> QED
  BY <1>1, <1>2, <1>3, <1>5, ZenonT(30) DEF runVars

LEMMA NextPhases ==
  ASSUME WorkInv, [Next]_vars
  PROVE  Phases'
<1>0. WorkTypeOK /\ RunInv /\ Phases /\ \A v \in Thread : PhaseAt(v)
  BY DEF WorkInv, Phases, PhaseAt
<1>1. ASSUME \A r \in Rank : mainPc'[r] # "handlers" => handlers'[r] = Worker,
             \A v \in Thread : PhaseAt(v)'
      PROVE  Phases'
  BY <1>1 DEF Phases, PhaseAt
<1>2. ASSUME UNCHANGED <<stage, sizeIdx, iter, half, mainPc>> PROVE \A v \in Thread : PhaseAt(v)'
  BY <1>0, <1>2 DEF PhaseAt, InLoop, LoopBounded, LoopBound
<1>3. ASSUME NEW r \in Rank, MainStep(r) PROVE Phases'
  <2>1. UNCHANGED <<stage, sizeIdx, iter, half>>
    BY <1>3 DEF MainStep, MainStart, MainHandler, MainRun, MainLeave, MainFinalize, runVars, workVars
  <2>2. \A v \in Thread : v[1] \in Rank
    BY ThreadFacts, ZenonT(30)
  <2>3. \A q \in Rank : mainPc'[q] = "handlers" => mainPc[q] = "handlers"
    BY <1>0, <1>3, ZenonT(30) DEF MainStep, MainStart, MainHandler, MainRun, MainLeave, MainFinalize, mainVars,
                      WorkTypeOK
  <2>4. \A v \in Thread : PhaseAt(v)'
    BY <1>0, <2>1, <2>2, <2>3 DEF PhaseAt, InLoop, LoopBounded, LoopBound
  <2>5. \A q \in Rank : mainPc'[q] # "handlers" => handlers'[q] = Worker
    <3>1. \A q \in Rank : mainPc[q] # "handlers" => handlers[q] = Worker
      BY <1>0 DEF Phases
    <3> QED  BY <1>0, <1>3, <3>1 DEF MainStep, MainStart, MainHandler, MainRun, MainLeave,
                                     MainFinalize, mainVars, WorkTypeOK
  <2> QED  BY <1>1, <2>4, <2>5
<1>4. ASSUME NEW w \in Thread, WorkerStep(w) PROVE Phases'
  <2>0. /\ mainPc[w[1]] = "team" /\ UNCHANGED <<mainPc, handlers>>
        /\ \A v \in Thread : v # w =>
             stage'[v] = stage[v] /\ sizeIdx'[v] = sizeIdx[v] /\ iter'[v] = iter[v]
        /\ \A v \in Thread : v # w => half'[v] = half[v]
    BY <1>0, <1>4, WorkerFrame DEF mainVars
  <2>1. \A v \in Thread : v # w => PhaseAt(v)'
    BY <1>0, <2>0 DEF PhaseAt, InLoop, LoopBounded, LoopBound
  <2>2. PhaseAt(w)'
    <3>0. PhaseAt(w) /\ mainPc'[w[1]] # "handlers"
      BY <1>0, <2>0
    <3>1. CASE InLoop(w) /\ EndHalf(w)
      <4>1. iter[w] \in Nat /\ SKIP \in Nat /\ TOTAL \in Nat
        BY <1>0, RunAssumption DEF WorkTypeOK, RunTypeOK
      <4>2. CASE half[w]
        <5>1. ~half'[w] /\ iter'[w] = iter[w] + 1 /\ stage' = stage
          BY <1>0, <3>1, <4>2, EndHalfFacts
        <5> QED  BY <3>0, <3>1, <4>1, <5>1 DEF PhaseAt, InLoop, LoopBounded, LoopBound
      <4>3. CASE ~half[w]
        <5>1. iter' = iter /\ stage' = stage
          BY <1>0, <3>1, <4>3, EndHalfFacts
        <5> QED  BY <3>0, <3>1, <5>1 DEF PhaseAt, InLoop, LoopBounded, LoopBound
      <4> QED  BY <4>2, <4>3
    <3>2. CASE half' = half /\ Drives(w)
      <4>1. ~InLoop(w) /\ LoopBounded(w)'
        BY <1>0, <3>0, <3>2, DriveKeeps DEF Drives, PhaseAt
      <4> QED  BY <3>0, <3>2, <4>1, ZenonT(30) DEF PhaseAt
    <3>3. CASE half' = half /\ UNCHANGED runVars
      BY <3>0, <3>3 DEF PhaseAt, InLoop, LoopBounded, LoopBound, runVars
    <3> QED  BY <1>4, <3>1, <3>2, <3>3, WorkerKinds
  <2>3. \A r \in Rank : mainPc'[r] # "handlers" => handlers'[r] = Worker
    BY <1>0, <2>0, ZenonT(30) DEF Phases
  <2> QED  BY <1>1, <2>1, <2>2, <2>3
<1>5. ASSUME NEW w \in Thread, Arrive(w) \/ Complete(w) PROVE Phases'
  BY <1>0, <1>1, <1>2, <1>5, ZenonT(30) DEF Arrive, Complete, runVars, workVars, mainVars, Phases
<1>6. CASE UNCHANGED vars
  BY <1>0, <1>1, <1>2, <1>6, ZenonT(30) DEF vars, runVars, workVars, mainVars, Phases
<1> QED
  BY <1>3, <1>4, <1>5, <1>6 DEF Next, Finished

-----------------------------------------------------------------------------
(* Messages sent and taken. *)

LEMMA CountTypes ==
  ASSUME WorkTypeOK, NEW w \in Thread
  PROVE  /\ Sent(w) \in Nat /\ Taken(w) \in Nat
         /\ net[w] \in Nat /\ arrived[w] \in Nat /\ syncs[w] \in Nat
<1>1. /\ sizeIdx[w] \in Nat /\ iter[w] \in Nat /\ SKIP \in Nat /\ TOTAL \in Nat
  BY RunAssumption DEF WorkTypeOK, RunTypeOK
<1>2. Before(sizeIdx[w]) \in Nat
  BY <1>1 DEF Before
<1>3. Iterations(w) \in Nat
  BY <1>1, SMTT(30) DEF Iterations
<1> QED
  BY <1>2, <1>3 DEF Sent, Taken, Done, WorkTypeOK

(* The half that ends is a send or a take. *)
LEMMA EndHalfCounts ==
  ASSUME WorkTypeOK, NEW w \in Thread, InLoop(w), EndHalf(w)
  PROVE  /\ half[w] = ~IsSender(w[1]) => Sent(w)' = Sent(w) + 1 /\ Taken(w)' = Taken(w)
         /\ half[w] = IsSender(w[1]) => Sent(w)' = Sent(w) /\ Taken(w)' = Taken(w) + 1
<1>0. /\ iter[w] \in Nat /\ SKIP \in Nat /\ TOTAL \in Nat /\ sizeIdx[w] \in Nat
      /\ half[w] \in BOOLEAN /\ IsSender(w[1]) \in BOOLEAN /\ stage[w] \in {"warm", "timed"}
  BY RunAssumption DEF WorkTypeOK, RunTypeOK, InLoop, Loop, IsSender
<1>1. Before(sizeIdx[w]) \in Nat /\ Iterations(w) \in Nat
  BY <1>0 DEF Before, Iterations
<1>2. CASE half[w]
  <2>1. ~half'[w] /\ iter'[w] = iter[w] + 1 /\ stage' = stage /\ sizeIdx' = sizeIdx
    BY <1>2, EndHalfFacts
  <2>2. Iterations(w)' = Iterations(w) + 1
    BY <1>0, <2>1 DEF Iterations
  <2>3. CASE IsSender(w[1])
    <3>1. half[w] # ~IsSender(w[1])
      BY <1>2, <2>3, ZenonT(30)
    <3>2. /\ Sent(w) = Before(sizeIdx[w]) + Iterations(w) + 1
          /\ Taken(w) = Before(sizeIdx[w]) + Iterations(w) + 0
          /\ Sent(w)' = Before(sizeIdx[w]) + Iterations(w)' + 0
          /\ Taken(w)' = Before(sizeIdx[w]) + Iterations(w)' + 0
      BY <1>2, <2>1, <2>3, Zenon DEF Sent, Taken, Done, IsSender, Before
    <3> QED  BY <1>1, <2>2, <3>1, <3>2
  <2>4. CASE ~IsSender(w[1])
    <3>1. half[w] # IsSender(w[1])
      BY <1>2, <2>4, ZenonT(30)
    <3>2. /\ Sent(w) = Before(sizeIdx[w]) + Iterations(w) + 0
          /\ Taken(w) = Before(sizeIdx[w]) + Iterations(w) + 1
          /\ Sent(w)' = Before(sizeIdx[w]) + Iterations(w)' + 0
          /\ Taken(w)' = Before(sizeIdx[w]) + Iterations(w)' + 0
      BY <1>2, <2>1, <2>4, Zenon DEF Sent, Taken, Done, IsSender, Before
    <3> QED  BY <1>1, <2>2, <3>1, <3>2
  <2> QED  BY <2>3, <2>4
<1>3. CASE ~half[w]
  <2>1. half'[w] /\ iter' = iter /\ stage' = stage /\ sizeIdx' = sizeIdx
    BY <1>3, EndHalfFacts
  <2>2. Iterations(w)' = Iterations(w)
    BY <2>1 DEF Iterations
  <2>3. CASE IsSender(w[1])
    <3>1. half[w] # IsSender(w[1])
      BY <1>3, <2>3, ZenonT(30)
    <3>2. /\ Sent(w) = Before(sizeIdx[w]) + Iterations(w) + 0
          /\ Taken(w) = Before(sizeIdx[w]) + Iterations(w) + 0
          /\ Sent(w)' = Before(sizeIdx[w]) + Iterations(w)' + 1
          /\ Taken(w)' = Before(sizeIdx[w]) + Iterations(w)' + 0
      BY <1>3, <2>1, <2>3, Zenon DEF Sent, Taken, Done, IsSender, Before
    <3> QED  BY <1>1, <2>2, <3>1, <3>2
  <2>4. CASE ~IsSender(w[1])
    <3>1. half[w] # ~IsSender(w[1])
      BY <1>3, <2>4, ZenonT(30)
    <3>2. /\ Sent(w) = Before(sizeIdx[w]) + Iterations(w) + 0
          /\ Taken(w) = Before(sizeIdx[w]) + Iterations(w) + 0
          /\ Sent(w)' = Before(sizeIdx[w]) + Iterations(w)' + 0
          /\ Taken(w)' = Before(sizeIdx[w]) + Iterations(w)' + 1
      BY <1>3, <2>1, <2>4, Zenon DEF Sent, Taken, Done, IsSender, Before
    <3> QED  BY <1>1, <2>2, <3>1, <3>2
  <2> QED  BY <2>3, <2>4
<1> QED
  BY <1>2, <1>3, ZenonT(30)

(* Whoever does not end a half has sent and taken what it had. *)
LEMMA OthersCounts ==
  ASSUME WorkInv, NEW w \in Thread, WorkerStep(w), NEW v \in Thread, v # w \/ half' = half
  PROVE  Sent(v)' = Sent(v) /\ Taken(v)' = Taken(v)
<1>0. WorkTypeOK /\ RunInv /\ PhaseAt(w)
  BY DEF WorkInv, Phases, PhaseAt
<1>1. CASE v # w
  <2>1. /\ stage'[v] = stage[v] /\ sizeIdx'[v] = sizeIdx[v] /\ iter'[v] = iter[v]
        /\ half'[v] = half[v]
    BY <1>0, <1>1, WorkerFrame, ZenonT(30)
  <2> QED  BY <2>1, ZenonT(30) DEF Sent, Taken, Done, Iterations
<1>2. CASE v = w /\ half' = half /\ Drives(w)
  <2>1. /\ ~InLoop(w)
        /\ Done(w)' = Done(w)
    <3>1. RunInv /\ LoopBounded(w)
      BY <1>0, Zenon DEF PhaseAt
    <3>2. RunEnter(w) \/ RunLeave(w) \/ RunEnterTeam(w) \/ RunLeaveTeam(w) \/ RunReport(w)
      BY <1>2, Zenon DEF Drives
    <3> QED  BY <3>1, <3>2, DriveKeeps, Zenon
  <2>2. ~half[w]
    BY <1>0, <2>1 DEF PhaseAt
  <2>3. /\ Sent(w) = Done(w) + 0 /\ Taken(w) = Done(w) + 0
        /\ Sent(w)' = Done(w)' + 0 /\ Taken(w)' = Done(w)' + 0
    BY <1>2, <2>2, ZenonT(30) DEF Sent, Taken, IsSender
  <2> QED  BY <1>2, <2>1, <2>3, ZenonT(30)
<1>3. CASE v = w /\ half' = half /\ UNCHANGED runVars
  BY <1>3 DEF Sent, Taken, Done, Iterations, runVars
<1>4. CASE v = w /\ InLoop(w) /\ EndHalf(w) /\ half' = half
  <2>1. half'[w] = ~half[w] /\ half[w] \in BOOLEAN
    BY <1>0, <1>4 DEF EndHalf, WorkTypeOK
  <2> QED  BY <1>4, <2>1, ZenonT(30)
<1> QED
  BY <1>1, <1>2, <1>3, <1>4, WorkerKinds, Zenon

-----------------------------------------------------------------------------
(* How far the workers are when one of them resets. *)

(* Outside the iterations, what is sent and what is taken is what is done. *)
LEMMA CountsOutside ==
  ASSUME WorkTypeOK, NEW w \in Thread, PhaseAt(w)
  PROVE  /\ Done(w) \in Nat
         /\ Sent(w) = Done(w) \/ (InLoop(w) /\ Sent(w) = Done(w) + 1)
         /\ Taken(w) = Done(w) \/ (InLoop(w) /\ Taken(w) = Done(w) + 1)
<1>1. Done(w) \in Nat
  BY DoneRange, Zenon DEF WorkTypeOK, PhaseAt
<1>2. Done(w) + 0 = Done(w)
  BY <1>1
<1> QED
  BY <1>1, <1>2, ZenonT(30) DEF Sent, Taken, PhaseAt

(* Thread 0 before the first barrier of a size: nobody has sent anything   *)
(* of this size, and its own team has taken everything of the last one.    *)
LEMMA AtReset0 ==
  ASSUME WorkInv, NEW z \in Thread, stage[z] = "reset0", NEW u \in Thread
  PROVE  /\ Sent(u) <= Before(sizeIdx[z])
         /\ u[1] = z[1] => Taken(u) = Before(sizeIdx[z])
<1>0. WorkTypeOK /\ RunInv /\ PhaseAt(u) /\ LoopBounded(u)
  BY ZenonT(30) DEF WorkInv, Phases, PhaseAt
<1>1. /\ Done(u) <= Before(sizeIdx[z])
      /\ InLoop(u) => Done(u) + 1 <= Before(sizeIdx[z])
      /\ u[1] = z[1] => Done(u) = Before(sizeIdx[z]) /\ ~InLoop(u)
  BY <1>0, DoneAtReset0, ZenonT(30)
<1> QED
  BY <1>0, <1>1, CountsOutside, ZenonT(30)

(* Between the two loops of a size everybody has done the warm-up and no   *)
(* more.                                                                   *)
LEMMA AtResetP ==
  ASSUME WorkInv, NEW z \in Thread, stage[z] = "resetP", NEW u \in Thread
  PROVE  Sent(u) = Before(sizeIdx[z]) + SKIP /\ Taken(u) = Before(sizeIdx[z]) + SKIP
<1>0. WorkTypeOK /\ RunInv /\ PhaseAt(u) /\ LoopBounded(u)
  BY ZenonT(30) DEF WorkInv, Phases, PhaseAt
<1>1. Done(u) = Before(sizeIdx[z]) + SKIP /\ ~InLoop(u)
  BY <1>0, DoneAtResetP, ZenonT(30)
<1> QED
  BY <1>0, <1>1, CountsOutside, ZenonT(30)

LEMMA InvQuietAtReset == WorkInv => QuietAtReset
<1> SUFFICES ASSUME WorkInv, NEW w \in Thread, stage[<<w[1], 0>>] \in Reset
             PROVE  syncs[w] = 0 /\ arrived[w] = 0 /\ net[Partner(w)] = 0
  BY DEF QuietAtReset
<1> DEFINE z == <<w[1], 0>>
           u == Partner(w)
<1>1. z \in Thread /\ z[1] = w[1] /\ u \in Thread /\ Partner(u) = w
  BY ThreadFacts, PartnerFacts, ZenonT(30)
<1>2. stage[z] = "reset0" \/ stage[z] = "resetP"
  BY ZenonT(30) DEF Reset
<1> HIDE DEF z, u
<1>3. Sent(u) <= Taken(w)
  <2>0. Sent(u) \in Nat /\ Taken(w) \in Nat
    BY <1>1, CountTypes, ZenonT(30) DEF WorkInv
  <2>1. CASE stage[z] = "reset0"
    BY <1>1, <2>1, AtReset0
  <2>2. CASE stage[z] = "resetP"
    <3>1. Sent(u) = Taken(w)
      BY <1>1, <2>2, AtResetP
    <3> QED  BY <2>0, <3>1
  <2> QED  BY <1>2, <2>1, <2>2, ZenonT(30)
<1>4. Sent(u) = Taken(w) + net[u] + arrived[w] + syncs[w]
  BY <1>1 DEF WorkInv, Flow
<1>5. /\ Sent(u) \in Nat /\ Taken(w) \in Nat /\ net[u] \in Nat /\ arrived[w] \in Nat
      /\ syncs[w] \in Nat
  BY <1>1, CountTypes DEF WorkInv
<1>6. syncs[w] = 0 /\ arrived[w] = 0 /\ net[u] = 0
  BY <1>3, <1>4, <1>5
<1> QED
  BY <1>6, ZenonT(30) DEF u

LEMMA InvOneBall == WorkInv => OneBall
<1> SUFFICES ASSUME WorkInv, NEW w \in Thread PROVE Holds(w) + Holds(Partner(w)) = 1
  BY DEF OneBall
<1> DEFINE u == Partner(w)
           D(v) == Before(sizeIdx[v]) + Iterations(v)
<1>1. /\ u \in Thread /\ Partner(u) = w /\ (IsSender(u[1]) <=> ~IsSender(w[1]))
      /\ WorkTypeOK /\ half[w] \in BOOLEAN /\ half[u] \in BOOLEAN
  BY PartnerFacts, ZenonT(30) DEF WorkInv, WorkTypeOK
<1> HIDE DEF u
<1>2. /\ Sent(w) = Taken(u) + net[w] + arrived[u] + syncs[u]
      /\ Sent(u) = Taken(w) + net[u] + arrived[w] + syncs[w]
  BY <1>1 DEF WorkInv, Flow, u
<1>3. /\ Sent(w) \in Nat /\ Taken(w) \in Nat /\ Sent(u) \in Nat /\ Taken(u) \in Nat
      /\ net[w] \in Nat /\ arrived[w] \in Nat /\ syncs[w] \in Nat
      /\ net[u] \in Nat /\ arrived[u] \in Nat /\ syncs[u] \in Nat
  BY <1>1, CountTypes
<1>4. ASSUME NEW v \in Thread
      PROVE  Turn(v) \in {0, 1} /\ Sent(v) + Turn(v) = Taken(v) + (IF IsSender(v[1]) THEN 1 ELSE 0)
  <2>0. /\ sizeIdx[v] \in Nat /\ iter[v] \in Nat /\ SKIP \in Nat /\ TOTAL \in Nat
        /\ half[v] \in BOOLEAN /\ IsSender(v[1]) \in BOOLEAN
    BY <1>1, RunAssumption, SMTT(30) DEF WorkTypeOK, RunTypeOK, IsSender
  <2>1. D(v) \in Nat
    BY <2>0 DEF Before, Iterations
  <2>2. /\ Sent(v) = D(v) + (IF half[v] /\ IsSender(v[1]) THEN 1 ELSE 0)
        /\ Taken(v) = D(v) + (IF half[v] /\ ~IsSender(v[1]) THEN 1 ELSE 0)
    BY Zenon DEF Sent, Taken, Done
  <2> HIDE DEF D
  <2>3. CASE half[v] /\ IsSender(v[1])
    <3>1. half[v] # ~IsSender(v[1])
      BY <2>3, ZenonT(30)
    <3>2. Turn(v) = 0
      BY <3>1, Zenon DEF Turn
    <3> QED  BY <2>1, <2>2, <2>3, <3>2
  <2>4. CASE half[v] /\ ~IsSender(v[1])
    <3>1. half[v] = ~IsSender(v[1])
      BY <2>0, <2>4, ZenonT(30)
    <3>2. Turn(v) = 1
      BY <3>1, Zenon DEF Turn
    <3> QED  BY <2>1, <2>2, <2>4, <3>2
  <2>5. CASE ~half[v] /\ IsSender(v[1])
    <3>1. half[v] = ~IsSender(v[1])
      BY <2>0, <2>5
    <3>2. Turn(v) = 1
      BY <3>1, Zenon DEF Turn
    <3> QED  BY <2>1, <2>2, <2>5, <3>2
  <2>6. CASE ~half[v] /\ ~IsSender(v[1])
    <3>1. half[v] # ~IsSender(v[1])
      BY <2>6, ZenonT(30)
    <3>2. Turn(v) = 0
      BY <3>1, Zenon DEF Turn
    <3> QED  BY <2>1, <2>2, <2>6, <3>2
  <2> QED  BY <2>3, <2>4, <2>5, <2>6
<1>5. /\ Turn(w) \in {0, 1} /\ Turn(u) \in {0, 1}
      /\ (Sent(w) + Turn(w)) + (Sent(u) + Turn(u)) = Taken(w) + Taken(u) + 1
  <2>1. /\ Sent(w) + Turn(w) = Taken(w) + (IF IsSender(w[1]) THEN 1 ELSE 0)
        /\ Sent(u) + Turn(u) = Taken(u) + (IF IsSender(u[1]) THEN 1 ELSE 0)
        /\ Turn(w) \in {0, 1} /\ Turn(u) \in {0, 1}
    BY <1>1, <1>4
  <2>2. CASE IsSender(w[1])
    BY <1>1, <1>3, <2>1, <2>2, SMTT(30)
  <2>3. CASE ~IsSender(w[1])
    BY <1>1, <1>3, <2>1, <2>3, SMTT(30)
  <2> QED  BY <2>2, <2>3
<1>6. Turn(w) + net[w] + arrived[w] + syncs[w] + (Turn(u) + net[u] + arrived[u] + syncs[u]) = 1
  BY <1>2, <1>3, <1>5
<1> QED
  BY <1>6 DEF Holds, u

LEMMA InvHandlerFirst == WorkInv => HandlerFirst
<1> SUFFICES ASSUME WorkInv, NEW w \in Thread, net[w] > 0 \/ arrived[Partner(w)] > 0
             PROVE  Partner(w)[2] \in handlers[Partner(w)[1]]
  BY DEF HandlerFirst
<1> DEFINE u == Partner(w)
<1>1. u \in Thread /\ u[1] \in Rank /\ u[2] \in Worker /\ WorkTypeOK
  BY PartnerFacts, ThreadFacts DEF WorkInv
<1>2. CASE mainPc[u[1]] # "handlers"
  BY <1>1, <1>2 DEF WorkInv, Phases
<1>3. CASE mainPc[u[1]] = "handlers"
  <2>1. stage[u] = "reset0" /\ sizeIdx[u] = 0
    BY <1>1, <1>3 DEF WorkInv, Phases
  <2>2. Before(0) = 0
    BY RunAssumption DEF Before
  <2>3. Sent(w) <= 0
    BY <1>1, <2>1, <2>2, AtReset0
  <2>4. Sent(w) = Taken(u) + net[w] + arrived[u] + syncs[u]
    BY DEF WorkInv, Flow
  <2>5. /\ Sent(w) \in Nat /\ Taken(u) \in Nat /\ net[w] \in Nat /\ arrived[u] \in Nat
        /\ syncs[u] \in Nat
    BY <1>1, CountTypes
  <2> QED  BY <2>3, <2>4, <2>5
<1> QED
  BY <1>2, <1>3

-----------------------------------------------------------------------------
(* The flow of messages is kept. *)

(* What worker v has sent and what has left it agree, and so do what it    *)
(* has taken and what has reached it.                                      *)
Balanced(v) ==
  /\ Sent(v)' \in Nat /\ Taken(v)' \in Nat
  /\ Sent(v)' + net[v] = Sent(v) + net'[v]
  /\ Taken(v)' + arrived'[v] + syncs'[v] = Taken(v) + arrived[v] + syncs[v]

LEMMA FlowBalanced ==
  ASSUME WorkInv, WorkTypeOK', \A v \in Thread : Balanced(v)
  PROVE  Flow'
<1> SUFFICES ASSUME NEW w \in Thread
             PROVE  Sent(w)' = Taken(Partner(w))' + net'[w] + arrived'[Partner(w)] + syncs'[Partner(w)]
  BY DEF Flow, Partner, target_rank
<1> DEFINE u == Partner(w)
<1>1. u \in Thread
  BY PartnerFacts
<1>2. Sent(w) = Taken(u) + net[w] + arrived[u] + syncs[u]
  BY DEF WorkInv, Flow
<1> HIDE DEF u
<1>3. /\ Sent(w)' \in Nat /\ Taken(u)' \in Nat
      /\ Sent(w)' + net[w] = Sent(w) + net'[w]
      /\ Taken(u)' + arrived'[u] + syncs'[u] = Taken(u) + arrived[u] + syncs[u]
  BY <1>1 DEF Balanced
<1>4. /\ Sent(w) \in Nat /\ net[w] \in Nat
      /\ Taken(u) \in Nat /\ arrived[u] \in Nat /\ syncs[u] \in Nat
  BY <1>1, CountTypes DEF WorkInv
<1>5. net'[w] \in Nat /\ arrived'[u] \in Nat /\ syncs'[u] \in Nat
  BY <1>1 DEF WorkTypeOK
<1>6. Sent(w)' = Taken(u)' + net'[w] + arrived'[u] + syncs'[u]
  BY <1>2, <1>3, <1>4, <1>5
<1> QED
  BY <1>6 DEF u

LEMMA SameBalanced ==
  ASSUME WorkTypeOK, NEW v \in Thread, Sent(v)' = Sent(v), Taken(v)' = Taken(v), net'[v] = net[v],
         arrived'[v] = arrived[v], syncs'[v] = syncs[v]
  PROVE  Balanced(v)
BY CountTypes DEF Balanced

LEMMA IdleBalanced ==
  ASSUME WorkTypeOK, UNCHANGED <<runVars, half, net, arrived, syncs>>
  PROVE  \A v \in Thread : Balanced(v)
<1> SUFFICES ASSUME NEW v \in Thread PROVE Balanced(v)
  OBVIOUS
<1>1. Sent(v)' = Sent(v) /\ Taken(v)' = Taken(v)
  BY Zenon DEF Sent, Taken, Done, Iterations, runVars
<1> QED
  BY <1>1, SameBalanced

LEMMA ArriveFlow ==
  ASSUME WorkInv, NEW w \in Thread, Arrive(w)
  PROVE  Flow'
<1> DEFINE u == Partner(w)
<1>1. /\ WorkTypeOK /\ u \in Thread
      /\ net \in [Thread -> Nat] /\ arrived \in [Thread -> Nat] /\ syncs \in [Thread -> Nat]
  BY PartnerFacts DEF WorkInv, WorkTypeOK
<1>2. /\ net' = [net EXCEPT ![w] = net[w] - 1] /\ arrived' = [arrived EXCEPT ![u] = arrived[u] + 1]
      /\ UNCHANGED <<runVars, half, syncs>>
  BY Zenon DEF Arrive, workVars
<1>3. \A v \in Thread : Sent(v)' = Sent(v) /\ Taken(v)' = Taken(v)
  BY <1>2, Zenon DEF Sent, Taken, Done, Iterations, runVars
<1> SUFFICES ASSUME NEW v \in Thread
             PROVE  Sent(v)' = Taken(Partner(v))' + net'[v] + arrived'[Partner(v)] + syncs'[Partner(v)]
  BY Zenon DEF Flow, Partner, target_rank
<1>4. /\ Partner(v) \in Thread /\ (Partner(v) = u => v = w)
      /\ Sent(v) = Taken(Partner(v)) + net[v] + arrived[Partner(v)] + syncs[Partner(v)]
  BY PartnerFacts DEF WorkInv, Flow
<1>5. /\ Sent(v) \in Nat /\ net[v] \in Nat /\ Taken(Partner(v)) \in Nat
      /\ arrived[Partner(v)] \in Nat /\ syncs[Partner(v)] \in Nat
  BY <1>1, <1>4, CountTypes
<1>6. CASE v = w
  <2>1. net'[v] = net[v] - 1 /\ arrived'[Partner(v)] = arrived[Partner(v)] + 1
    BY <1>1, <1>2, <1>6
  <2>2. Sent(v)' = Sent(v) /\ Taken(Partner(v))' = Taken(Partner(v)) /\ syncs' = syncs
    BY <1>2, <1>3, <1>4
  <2> QED  BY <1>4, <1>5, <2>1, <2>2
<1>7. CASE v # w
  <2>1. net'[v] = net[v] /\ arrived'[Partner(v)] = arrived[Partner(v)]
    BY <1>1, <1>2, <1>4, <1>7
  <2>2. Sent(v)' = Sent(v) /\ Taken(Partner(v))' = Taken(Partner(v)) /\ syncs' = syncs
    BY <1>2, <1>3, <1>4
  <2> QED  BY <1>4, <2>1, <2>2
<1> QED
  BY <1>6, <1>7

LEMMA WorkerBalanced ==
  ASSUME WorkInv, NEW w \in Thread, WorkerStep(w), NEW v \in Thread
  PROVE  Balanced(v)
<1>0. /\ WorkTypeOK /\ Room /\ net \in [Thread -> Nat] /\ arrived \in [Thread -> Nat]
      /\ syncs \in [Thread -> Nat] /\ half[w] \in BOOLEAN
  BY DEF WorkInv, WorkTypeOK
<1>1. /\ Sent(v) \in Nat /\ Taken(v) \in Nat /\ net[v] \in Nat /\ arrived[v] \in Nat
      /\ syncs[v] \in Nat
  BY <1>0, CountTypes
<1>2. CASE ResetSync(w) \/ EnterBarrier(w) \/ Drive(w)
  <2>1. half' = half /\ UNCHANGED <<net, arrived>>
    BY <1>2 DEF ResetSync, EnterBarrier, Drive, workVars, netVars
  <2>2. syncs' = syncs
    <3>1. CASE ResetSync(w)
      <4> DEFINE x == <<w[1], resetPos[w[1]]>>
      <4>1. w = <<w[1], w[2]>> /\ w[2] = 0 /\ stage[w] \in Reset /\ w[1] \in Rank
        BY <3>1, ThreadFacts DEF ResetSync, InReset
      <4>2. resetPos[w[1]] \in Worker
        BY <1>0, <3>1, <4>1, RunAssumption DEF ResetSync, WorkTypeOK, Worker
      <4>3. x \in Thread /\ x[1] = w[1] /\ stage[<<x[1], 0>>] \in Reset
        BY <4>1, <4>2, ThreadFacts
      <4>4. syncs[x] = 0
        BY <4>3, InvQuietAtReset DEF QuietAtReset
      <4>5. syncs' = [syncs EXCEPT ![x] = 0]
        BY <3>1 DEF ResetSync
      <4> HIDE DEF x
      <4> QED  BY <1>0, <4>3, <4>4, <4>5
    <3>2. CASE EnterBarrier(w) \/ Drive(w)
      BY <3>2 DEF EnterBarrier, Drive
    <3> QED  BY <1>2, <3>1, <3>2
  <2>3. Sent(v)' = Sent(v) /\ Taken(v)' = Taken(v)
    BY <2>1, OthersCounts
  <2> QED  BY <1>0, <2>1, <2>2, <2>3, SameBalanced
<1>3. CASE SendRetry(w) \/ Poll(w)
  <2>1. half' = half /\ net' = net
    BY <1>3, Zenon DEF SendRetry, Poll, workVars
  <2>2. Sent(v)' = Sent(v) /\ Taken(v)' = Taken(v)
    BY <2>1, OthersCounts
  <2>3. PICK n \in 0 .. arrived[w] : progress(w, n, 0)
    BY <1>3 DEF SendRetry, Poll
  <2>4. n \in Nat
    BY <1>0
  <2>5. /\ arrived'[w] = arrived[w] - n /\ syncs'[w] = syncs[w] + n
        /\ v # w => arrived'[v] = arrived[v] /\ syncs'[v] = syncs[v]
    BY <1>0, <2>3, <2>4, ProgressFacts
  <2>6. Sent(v)' \in Nat /\ Taken(v)' \in Nat /\ Sent(v)' + net[v] = Sent(v) + net'[v]
    BY <1>1, <2>1, <2>2, Zenon
  <2>7. Taken(v)' + arrived'[v] + syncs'[v] = Taken(v) + arrived[v] + syncs[v]
    <3>1. CASE v = w
      <4>1. arrived'[v] = arrived[v] - n /\ syncs'[v] = syncs[v] + n
        BY <2>5, <3>1, Zenon
      <4> QED  BY <1>1, <2>2, <2>4, <4>1
    <3>2. CASE v # w
      BY <2>2, <2>5, <3>2, Zenon
    <3> QED  BY <3>1, <3>2, Zenon
  <2> QED  BY <2>6, <2>7, Zenon DEF Balanced
<1>4. CASE Send(w)
  <2>1. /\ InLoop(w) /\ EndHalf(w) /\ half[w] = ~IsSender(w[1])
        /\ net' = [net EXCEPT ![w] = net[w] + 1]
    BY <1>4 DEF Send, Sending
  <2>2. Sent(w)' = Sent(w) + 1 /\ Taken(w)' = Taken(w)
    BY <1>0, <2>1, EndHalfCounts
  <2>3. v # w => Sent(v)' = Sent(v) /\ Taken(v)' = Taken(v)
    BY OthersCounts
  <2>4. net'[w] = net[w] + 1 /\ (v # w => net'[v] = net[v])
    BY <1>0, <2>1
  <2>5. PICK n \in 0 .. arrived[w] : progress(w, n, 1)
    BY <1>4 DEF Send
  <2>6. n \in Nat
    BY <1>0
  <2>7. /\ arrived'[w] = arrived[w] - n /\ syncs'[w] = syncs[w] + n
        /\ v # w => arrived'[v] = arrived[v] /\ syncs'[v] = syncs[v]
    BY <1>0, <2>5, <2>6, ProgressFacts
  <2>8. CASE v = w
    <3>1. /\ Sent(w) \in Nat /\ Taken(w) \in Nat /\ net[w] \in Nat /\ arrived[w] \in Nat
          /\ syncs[w] \in Nat
      BY <1>1, <2>8
    <3>2. Sent(w)' \in Nat /\ Taken(w)' \in Nat /\ Sent(w)' + net[w] = Sent(w) + net'[w]
      BY <2>2, <2>4, <3>1
    <3>3. Taken(w)' + arrived'[w] + syncs'[w] = Taken(w) + arrived[w] + syncs[w]
      BY <2>2, <2>6, <2>7, <3>1
    <3> QED  BY <2>8, <3>2, <3>3, Zenon DEF Balanced
  <2>9. CASE v # w
    <3>1. Sent(v)' \in Nat /\ Taken(v)' \in Nat /\ Sent(v)' + net[v] = Sent(v) + net'[v]
      BY <1>1, <2>3, <2>4, <2>9, Zenon
    <3>2. Taken(v)' + arrived'[v] + syncs'[v] = Taken(v) + arrived[v] + syncs[v]
      BY <2>3, <2>7, <2>9, Zenon
    <3> QED  BY <3>1, <3>2, Zenon DEF Balanced
  <2> QED  BY <2>8, <2>9, Zenon
<1>5. CASE TakeSync(w)
  <2>1. /\ InLoop(w) /\ EndHalf(w) /\ half[w] = IsSender(w[1])
        /\ syncs' = [syncs EXCEPT ![w] = syncs[w] - 1] /\ UNCHANGED <<net, arrived>>
    BY <1>5 DEF TakeSync, Waiting, netVars
  <2>2. Sent(w)' = Sent(w) /\ Taken(w)' = Taken(w) + 1
    BY <1>0, <2>1, EndHalfCounts
  <2>3. v # w => Sent(v)' = Sent(v) /\ Taken(v)' = Taken(v)
    BY OthersCounts
  <2>4. syncs'[w] = syncs[w] - 1 /\ (v # w => syncs'[v] = syncs[v])
    BY <1>0, <2>1
  <2>5. CASE v = w
    <3>1. /\ Sent(v)' = Sent(v) /\ Taken(v)' = Taken(v) + 1 /\ syncs'[v] = syncs[v] - 1
          /\ net'[v] = net[v] /\ arrived'[v] = arrived[v]
      BY <2>1, <2>2, <2>4, <2>5, Zenon
    <3> QED  BY <1>1, <3>1 DEF Balanced
  <2>6. CASE v # w
    <3>1. /\ Sent(v)' = Sent(v) /\ Taken(v)' = Taken(v) /\ syncs'[v] = syncs[v]
          /\ net'[v] = net[v] /\ arrived'[v] = arrived[v]
      BY <2>1, <2>3, <2>4, <2>6, Zenon
    <3> QED  BY <1>1, <3>1 DEF Balanced
  <2> QED  BY <2>5, <2>6, Zenon
<1> QED
  BY <1>2, <1>3, <1>4, <1>5 DEF WorkerStep

LEMMA NextFlow ==
  ASSUME WorkInv, WorkTypeOK', [Next]_vars
  PROVE  Flow'
<1>0. WorkTypeOK
  BY DEF WorkInv
<1>1. ASSUME NEW r \in Rank, MainStep(r) PROVE UNCHANGED <<runVars, half, net, arrived, syncs>>
  BY <1>1 DEF MainStep, MainStart, MainHandler, MainRun, MainLeave, MainFinalize, workVars, netVars
<1>2. ASSUME NEW w \in Thread, Complete(w) PROVE UNCHANGED <<runVars, half, net, arrived, syncs>>
  BY <1>2 DEF Complete, workVars
<1>3. CASE UNCHANGED vars
  <2>1. UNCHANGED <<runVars, half, net, arrived, syncs>>
    BY <1>3 DEF vars, workVars, netVars
  <2> QED  BY <1>0, <2>1, IdleBalanced, FlowBalanced
<1>4. ASSUME NEW w \in Thread, WorkerStep(w) PROVE Flow'
  BY <1>4, WorkerBalanced, FlowBalanced
<1>5. ASSUME NEW w \in Thread, Arrive(w) PROVE Flow'
  BY <1>5, ArriveFlow
<1>6. ASSUME UNCHANGED <<runVars, half, net, arrived, syncs>> PROVE Flow'
  BY <1>0, <1>6, IdleBalanced, FlowBalanced
<1> QED
  BY <1>1, <1>2, <1>3, <1>4, <1>5, <1>6, Zenon DEF Next, Finished

-----------------------------------------------------------------------------
(* The invariant, and what follows from it. *)

LEMMA InitWorkInv == Init => WorkInv
<1> SUFFICES ASSUME Init PROVE WorkInv
  OBVIOUS
<1>1. RunInit /\ WorkTypeOK /\ RunInv
  BY InitRunInv, InitWorkType DEF Init
<1>2. \A w \in Thread : stage[w] = "reset0" /\ sizeIdx[w] = 0 /\ half[w] = FALSE
  BY DEF Init, RunInit
<1>3. Phases
  BY <1>2 DEF Init, Phases, InLoop, LoopBounded, Loop
<1>4. Room
  BY DEF Init, Room
<1>5. \A w \in Thread : Sent(w) = 0 /\ Taken(w) = 0
  <2> SUFFICES ASSUME NEW w \in Thread PROVE Sent(w) = 0 /\ Taken(w) = 0
    OBVIOUS
  <2>1. Before(sizeIdx[w]) = 0
    BY <1>2, RunAssumption DEF Before
  <2>2. Iterations(w) = 0
    BY <1>2 DEF Iterations
  <2> QED  BY <1>2, <2>1, <2>2 DEF Sent, Taken, Done
<1>6. Flow
  BY <1>5, PartnerFacts DEF Init, Flow
<1> QED
  BY <1>1, <1>3, <1>4, <1>6 DEF WorkInv

LEMMA NextWorkInv == WorkInv /\ [Next]_vars => WorkInv'
<1> SUFFICES ASSUME WorkInv, [Next]_vars PROVE WorkInv'
  OBVIOUS
<1>1. WorkTypeOK' /\ Room'
  BY NextWorkType, NextRoom DEF WorkInv
<1>2. RunInv'
  BY NextRunInv, StepIsRun DEF WorkInv
<1>3. Phases' /\ Flow'
  BY <1>1, NextPhases, NextFlow
<1> QED
  BY <1>1, <1>2, <1>3 DEF WorkInv

LEMMA WorkInvariant == Spec => []WorkInv
BY InitWorkInv, NextWorkInv, PTL DEF Spec

(* Between two partner workers there is exactly one turn or message,       *)
(* whatever the callbacks, the retries and the resets do.                  *)
THEOREM OneBallHolds == Spec => []OneBall
BY InvOneBall, WorkInvariant, PTL

(* reset_counters overwrites no count of a message and no message is under *)
(* way to the workers whose counts it overwrites.                          *)
THEOREM ResetsQuiet == Spec => []QuietAtReset
BY InvQuietAtReset, WorkInvariant, PTL

(* No message reaches an interface before main has set its handler. *)
THEOREM HandlersFirst == Spec => []HandlerFirst
BY InvHandlerFirst, WorkInvariant, PTL

-----------------------------------------------------------------------------
(* The benchmark also implements its start-up. *)

StartP == INSTANCE UcxStartProofs

LEMMA LinkFacts ==
  /\ Len(Ctxs) = tx_thread_num /\ Len(Links) = tx_thread_num
  /\ \A k \in 1 .. tx_thread_num :
       Ctxs[k] = <<"w", k - 1>> /\ Links[k] = <<WorkerEp(k - 1), WorkerEp(k - 1)>>
<1>1. tx_thread_num \in Nat
  BY RunAssumption
<1> QED
  BY <1>1 DEF Ctxs, Links

LEMMA StartConstants == StartP!StartAssumption
<1>0. tx_thread_num \in Nat \ {0} /\ Size \in Nat \ {0} /\ Size % 2 = 0
  BY RunAssumption, SymUcxAssumption
<1>1. StartP!Rank = Rank /\ StartP!Link = 1 .. tx_thread_num
  BY LinkFacts DEF StartP!Rank, Rank, StartP!Link
<1>2. StartP!Ctx = {"w"} \X Worker
  <2>1. \A k \in 1 .. Len(Ctxs) : Ctxs[k] = <<"w", k - 1>> /\ k - 1 \in Worker
    BY <1>0, LinkFacts DEF Worker
  <2>2. \A t \in Worker : t + 1 \in 1 .. Len(Ctxs) /\ Ctxs[t + 1] = <<"w", t>>
    BY <1>0, LinkFacts DEF Worker
  <2>3. StartP!Ctx \subseteq {"w"} \X Worker
    <3>1. StartP!Ctx = {Ctxs[k] : k \in 1 .. Len(Ctxs)}
      BY DEF StartP!Ctx
    <3>2. ASSUME NEW k \in 1 .. Len(Ctxs) PROVE Ctxs[k] \in {"w"} \X Worker
      <4>1. Ctxs[k] = <<"w", k - 1>> /\ k - 1 \in Worker
        BY <2>1, Zenon
      <4>2. \A j \in Worker : <<"w", j>> \in {"w"} \X Worker
        OBVIOUS
      <4> QED  BY <4>1, <4>2, Zenon
    <3> QED  BY <3>1, <3>2, ZenonT(30)
  <2>4. {"w"} \X Worker \subseteq StartP!Ctx
    <3> SUFFICES ASSUME NEW t \in Worker PROVE <<"w", t>> \in StartP!Ctx
      OBVIOUS
    <3> QED  BY <2>2 DEF StartP!Ctx
  <2> QED  BY <2>3, <2>4
<1>3. \A c \in StartP!Ctx : EpCount[c] = 1
  BY <1>2 DEF EpCount
<1>4. StartP!Item = ({"w"} \X Worker) \X {0, 1}
  BY <1>2, <1>3 DEF StartP!Item
<1>5. Start!Item = StartP!Item
  BY DEF Start!Item, StartP!Item, Start!Ctx, StartP!Ctx
<1>6. StartP!Endpoint = {WorkerEp(t) : t \in Worker}
  BY <1>4 DEF StartP!Endpoint, WorkerEp
<1>7. \A t, v \in Worker : WorkerEp(t) = WorkerEp(v) => t = v
  BY DEF WorkerEp
<1>8. \A m \in 1 .. tx_thread_num : m - 1 \in Worker /\ Links[m][1] = WorkerEp(m - 1)
                                    /\ Links[m][2] = WorkerEp(m - 1)
  BY <1>0, LinkFacts DEF Worker
<1>9. \A t \in Worker : t + 1 \in 1 .. tx_thread_num /\ (t + 1) - 1 = t
  BY <1>0 DEF Worker
<1>10. StartP!LinksMutual
  <2>1. \A m \in StartP!Link : Links[m][1] \in StartP!Endpoint /\ Links[m][2] \in StartP!Endpoint
    BY <1>1, <1>6, <1>8
  <2>2. \A e \in StartP!Endpoint : \E m \in StartP!Link : Links[m][1] = e
    BY <1>1, <1>6, <1>8, <1>9
  <2>3. \A m, n \in StartP!Link : Links[m][1] = Links[n][1] => m = n
    <3> SUFFICES ASSUME NEW m \in 1 .. tx_thread_num, NEW n \in 1 .. tx_thread_num,
                        Links[m][1] = Links[n][1]
                 PROVE  m = n
      BY <1>1
    <3>1. m - 1 = n - 1
      BY <1>7, <1>8
    <3> QED  BY <1>0, <3>1
  <2>4. \A m \in StartP!Link : \E n \in StartP!Link :
          Links[n][1] = Links[m][2] /\ Links[n][2] = Links[m][1]
    BY <1>1, <1>8, ZenonT(30)
  <2> QED  BY <2>1, <2>2, <2>3, <2>4 DEF StartP!LinksMutual
<1> QED
  BY <1>0, <1>1, <1>3, <1>5, <1>10, LinkFacts, AddrAssumption DEF StartP!StartAssumption

LEMMA StartSame ==
  ASSUME NEW r \in Rank
  PROVE  Start!StartStep(r) <=> StartP!StartStep(r)
BY ZenonT(30) DEF Start!StartStep, Start!init_ctx, Start!put_ctx_addr, Start!EnterBarrier,
       Start!LeaveBarrier, Start!BarrierCall, Start!BarrierReturn, Start!get_ctx_addr,
       Start!GetOver, Start!connect, Start!Goto, Start!GotoNextItem, Start!This, Start!pmiVars,
       Start!printed, Start!target_rank, Start!Pmi!Enter, Start!Pmi!Leave, Start!Pmi!Inside,
       Start!Rank,
       StartP!StartStep, StartP!init_ctx, StartP!put_ctx_addr, StartP!EnterBarrier,
       StartP!LeaveBarrier, StartP!BarrierCall, StartP!BarrierReturn, StartP!get_ctx_addr,
       StartP!GetOver, StartP!connect, StartP!Goto, StartP!GotoNextItem, StartP!This,
       StartP!pmiVars, StartP!printed, StartP!target_rank, StartP!Pmi!Enter, StartP!Pmi!Leave,
       StartP!Pmi!Inside, StartP!Rank

LEMMA StepIsStart == [Next]_vars => [StartP!Next]_(StartP!startVars)
<1> SUFFICES ASSUME [Next]_vars PROVE [StartP!Next]_(StartP!startVars)
  OBVIOUS
<1>0. UNCHANGED startVars => UNCHANGED StartP!startVars
  BY DEF startVars, StartP!startVars, StartP!pmiVars
<1>1. ASSUME NEW r \in Rank, MainStep(r) PROVE Start!StartStep(r) \/ UNCHANGED startVars
  BY <1>1, ZenonT(30) DEF MainStep, MainStart, MainHandler, MainRun, MainLeave, MainFinalize
<1>2. ASSUME NEW w \in Thread, Arrive(w) \/ Complete(w) PROVE UNCHANGED startVars
  BY <1>2 DEF Arrive, Complete
<1>3. CASE UNCHANGED vars
  <2>1. UNCHANGED startVars
    BY <1>3, Zenon DEF vars
  <2> QED  BY <1>0, <2>1
<1>4. ASSUME NEW w \in Thread, WorkerStep(w) PROVE UNCHANGED startVars
  BY <1>4 DEF WorkerStep, ResetSync, EnterBarrier, Drive, Send, SendRetry, Poll, TakeSync
<1> QED
  BY <1>0, <1>1, <1>2, <1>3, <1>4, StartSame DEF Next, Finished, StartP!Next, StartP!Rank, Rank

(* Refinement: main goes through the steps of UcxStart. *)
THEOREM ImplementsStart == Spec => StartP!Spec
<1>1. Init => StartP!Init
  BY ZenonT(30)
     DEF Init, Start!Init, StartP!Init, Start!Item, StartP!Item, Start!Ctx, StartP!Ctx,
         Start!Endpoint, StartP!Endpoint, Start!Rank, StartP!Rank, Start!Pmi!Init, StartP!Pmi!Init
<1> QED  BY <1>1, StepIsStart, PTL DEF Spec, StartP!Spec

LEMMA StartHolds == Spec => []StartP!StartInv
<1>1. StartP!Init => StartP!StartInv
  BY StartConstants, StartP!InitStartInv
<1>2. StartP!StartInv /\ [StartP!Next]_(StartP!startVars) => StartP!StartInv'
  BY StartConstants, StartP!NextStartInv
<1> QED  BY <1>1, <1>2, ImplementsStart, PTL DEF StartP!Spec

LEMMA InvWired == StartP!StartInv => Wired
<1> SUFFICES ASSUME StartP!StartInv PROVE Wired
  OBVIOUS
<1>1. StartP!Wired
  BY StartConstants, StartP!InvWired
<1>2. Start!Wired
  BY <1>1, ZenonT(30)
          DEF Start!Wired, StartP!Wired, Start!Endpoint, StartP!Endpoint, Start!Item, StartP!Item,
              Start!Ctx, StartP!Ctx, Start!Address, StartP!Address, Start!target_rank,
              StartP!target_rank, Start!Rank, StartP!Rank
<1>3. ASSUME NEW w \in Thread, start[w[1]] = "started"
      PROVE  dest[w[1]][WorkerEp(w[2])] = Start!Address(Partner(w)[1], WorkerEp(w[2]))
  <2>1. w[1] \in Rank /\ w[2] \in Worker /\ Partner(w)[1] = target_rank(w[1])
    BY PartnerFacts, Zenon
  <2>2. /\ w[2] + 1 \in StartP!Link /\ Links[w[2] + 1][1] = WorkerEp(w[2])
        /\ Links[w[2] + 1][2] = WorkerEp(w[2])
    <3>1. w[2] + 1 \in 1 .. tx_thread_num /\ (w[2] + 1) - 1 = w[2]
      BY <2>1, RunAssumption DEF Worker
    <3>2. Links[w[2] + 1] = <<WorkerEp(w[2]), WorkerEp(w[2])>>
      BY <3>1, LinkFacts, Zenon
    <3>3. w[2] + 1 \in StartP!Link
      BY <3>1, LinkFacts, ZenonT(30) DEF StartP!Link
    <3>4. <<WorkerEp(w[2]), WorkerEp(w[2])>>[1] = WorkerEp(w[2])
          /\ <<WorkerEp(w[2]), WorkerEp(w[2])>>[2] = WorkerEp(w[2])
      BY Zenon
    <3> QED  BY <3>2, <3>3, <3>4, ZenonT(30)
  <2>3. dest[w[1]][Links[w[2] + 1][1]]
          = StartP!Address(StartP!target_rank(w[1]), Links[w[2] + 1][2])
    BY <1>3, <2>1, <2>2, StartConstants, StartP!InvLinked DEF StartP!Rank, Rank
  <2> QED  BY <2>1, <2>2, <2>3, ZenonT(30)
           DEF StartP!Address, Start!Address, StartP!target_rank, target_rank
<1> QED
  BY <1>2, <1>3 DEF Wired

(* Worker t of a process is connected to worker t of the partner process   *)
(* and that one back to it, by the time main starts its workers.           *)
THEOREM AlwaysWired == Spec => []Wired
BY StartHolds, InvWired, PTL
=============================================================================
