-------------------------- MODULE RunVaryMsgProofs --------------------------
(***************************************************************************)
(* The safety of RUN_VARY_MSG for every number of processes, workers,      *)
(* message sizes and iterations.  The benchmark modules inherit it: each   *)
(* of their steps is a step of RUN_VARY_MSG or leaves its state alone.     *)
(***************************************************************************)
EXTENDS RunVaryMsg, TLAPS

LEMMA ThreadFacts ==
  /\ \A w \in Thread : w = <<w[1], w[2]>> /\ w[1] \in Rank /\ w[2] \in Worker
  /\ \A r \in Rank : <<r, 0>> \in Thread /\ <<r, 0>>[1] = r
  /\ \A r \in Rank, t \in Worker : <<r, t>> \in Thread
BY RunAssumption DEF Thread, Rank, Worker

(* Stages around proc_barrier. *)
LEMMA StageFacts ==
  /\ DOMAIN ToBarrier = {"reset0", "warm", "resetP", "last"}
  /\ DOMAIN FromBarrier = {"bar1", "bar2", "bar3", "bar4"}
  /\ ToBarrier["reset0"] = "bar1" /\ ToBarrier["warm"] = "bar2"
  /\ ToBarrier["resetP"] = "bar3" /\ ToBarrier["last"] = "bar4"
  /\ FromBarrier["bar1"] = "warm" /\ FromBarrier["bar2"] = "resetP"
  /\ FromBarrier["bar3"] = "timed" /\ FromBarrier["bar4"] = "exit"
BY DEF ToBarrier, FromBarrier

LEMMA StageSet ==
  Stage = {"reset0", "bar1", "warm", "bar2", "resetP", "bar3", "timed", "tbar",
           "report", "last", "bar4", "exit"}
BY DEF ToBarrier, FromBarrier, Stage

(* The barriers in terms of the variables they are instantiated with. *)
LEMMA ProcLeave ==
  \A w \in Thread : ProcBarrier!Leave(w) <=>
    /\ procIn[w] = procOut[w] + 1
    /\ \A u \in Thread : procIn[u] >= procIn[w]
    /\ procOut' = [procOut EXCEPT ![w] = @ + 1]
    /\ procIn' = procIn
BY DEF ProcBarrier!Leave, ProcBarrier!Inside

LEMMA TeamLeave ==
  \A w \in Thread : TeamBarrier!Leave(w) <=>
    /\ teamIn[w] = teamOut[w] + 1
    /\ \A u \in Thread : u[1] = w[1] => teamIn[u] >= teamIn[w]
    /\ teamOut' = [teamOut EXCEPT ![w] = @ + 1]
    /\ teamIn' = teamIn
BY DEF TeamBarrier!Leave, TeamBarrier!Inside, Team

LEMMA ProcSeparated ==
  ProcBarrier!Separated <=> \A w, u \in Thread : procOut[w] <= procIn[u]
BY DEF ProcBarrier!Separated

LEMMA TeamSeparated ==
  TeamBarrier!Separated <=> \A w, u \in Thread : u[1] = w[1] => teamOut[w] <= teamIn[u]
BY DEF TeamBarrier!Separated, Team

-----------------------------------------------------------------------------
(* Each part of RunInv is kept by a step of one worker. *)

LEMMA StepType ==
  ASSUME RunTypeOK, NEW w \in Thread, RunStep(w)
  PROVE  RunTypeOK'
<1> USE DEF RunTypeOK, procVars, teamVars
<1>1. CASE RunEnter(w)
  BY <1>1, StageFacts, StageSet DEF RunEnter, ProcBarrier!Enter
<1>2. CASE RunLeave(w)
  BY <1>2, StageFacts, StageSet, ProcLeave DEF RunLeave
<1>3. CASE RunIterate(w)
  BY <1>3 DEF RunIterate
<1>4. CASE RunEnterTeam(w)
  <2>1. sizeIdx[w] + 1 \in 0 .. SizeCount
    BY RunAssumption
  <2>2. "tbar" \in Stage
    BY StageSet
  <2> QED  BY <1>4, <2>1, <2>2 DEF RunEnterTeam, TeamBarrier!Enter
<1>5. CASE RunLeaveTeam(w)
  BY <1>5, StageSet, TeamLeave DEF RunLeaveTeam
<1>6. CASE RunReport(w)
  <2>1. /\ \/ stage' = [stage EXCEPT ![w] = "reset0"]
           \/ stage' = [stage EXCEPT ![w] = "last"]
        /\ \/ sizeIdx' = sizeIdx
           \/ sizeIdx[w] + 1 < SizeCount /\ sizeIdx' = [sizeIdx EXCEPT ![w] = @ + 1]
        /\ UNCHANGED <<iter, procVars, teamVars, totalExecTimes>>
    BY <1>6 DEF RunReport
  <2>2. stage' \in [Thread -> Stage]
    BY <2>1, StageSet
  <2>3. sizeIdx' \in [Thread -> 0 .. SizeCount - 1]
    BY <2>1, RunAssumption
  <2> QED  BY <2>1, <2>2, <2>3
<1> QED
  BY <1>1, <1>2, <1>3, <1>4, <1>5, <1>6 DEF RunStep

LEMMA StepSeparated ==
  ASSUME RunTypeOK, ProcBarrier!Separated, TeamBarrier!Separated,
         NEW w \in Thread, RunStep(w)
  PROVE  ProcBarrier!Separated' /\ TeamBarrier!Separated'
<1>0. /\ procIn \in [Thread -> Nat] /\ procOut \in [Thread -> Nat]
      /\ teamIn \in [Thread -> Nat] /\ teamOut \in [Thread -> Nat]
  BY DEF RunTypeOK
<1>1. CASE RunEnter(w) \/ RunLeave(w)
  <2>1. UNCHANGED teamVars /\ (ProcBarrier!Enter(w) \/ ProcBarrier!Leave(w))
    BY <1>1 DEF RunEnter, RunLeave
  <2>2. \A v, u \in Thread : procOut'[v] <= procIn'[u]
    BY <1>0, <2>1, ProcLeave, ProcSeparated DEF ProcBarrier!Enter
  <2> QED  BY <2>1, <2>2 DEF teamVars, ProcBarrier!Separated, TeamBarrier!Separated
<1>2. CASE RunEnterTeam(w) \/ RunLeaveTeam(w)
  <2>1. UNCHANGED procVars /\ (TeamBarrier!Enter(w) \/ TeamBarrier!Leave(w))
    BY <1>2 DEF RunEnterTeam, RunLeaveTeam
  <2>2. \A v, u \in Thread : u[1] = v[1] => teamOut'[v] <= teamIn'[u]
    BY <1>0, <2>1, TeamLeave, TeamSeparated DEF TeamBarrier!Enter
  <2> QED  BY <2>1, <2>2 DEF procVars, ProcBarrier!Separated, TeamBarrier!Separated, Team
<1>3. CASE RunIterate(w) \/ RunReport(w)
  <2>1. UNCHANGED <<procVars, teamVars>>
    BY <1>3 DEF RunIterate, RunReport
  <2> QED  BY <2>1 DEF procVars, teamVars, ProcBarrier!Separated, TeamBarrier!Separated
<1> QED
  BY <1>1, <1>2, <1>3 DEF RunStep

(* A worker that does not move keeps its counts. *)
LEMMA SameCounts ==
  ASSUME NEW v \in Thread, WorkerCounts(v),
         stage'[v] = stage[v], sizeIdx'[v] = sizeIdx[v],
         procIn'[v] = procIn[v], procOut'[v] = procOut[v],
         teamIn'[v] = teamIn[v], teamOut'[v] = teamOut[v],
         totalExecTimes'[v] = totalExecTimes[v]
  PROVE  WorkerCounts(v)'
BY DEF WorkerCounts, CountsAre

(* A step of worker w leaves the others where they are. *)
LEMMA OthersStay ==
  ASSUME RunTypeOK, NEW w \in Thread, RunStep(w), NEW v \in Thread, v # w
  PROVE  /\ stage'[v] = stage[v] /\ sizeIdx'[v] = sizeIdx[v]
         /\ procIn'[v] = procIn[v] /\ procOut'[v] = procOut[v]
         /\ teamIn'[v] = teamIn[v] /\ teamOut'[v] = teamOut[v]
         /\ totalExecTimes'[v] = totalExecTimes[v]
<1> USE DEF RunTypeOK, procVars, teamVars
<1>1. CASE RunEnter(w)
  BY <1>1 DEF RunEnter, ProcBarrier!Enter
<1>2. CASE RunLeave(w)
  BY <1>2, ProcLeave DEF RunLeave
<1>3. CASE RunIterate(w)
  BY <1>3 DEF RunIterate
<1>4. CASE RunEnterTeam(w)
  BY <1>4 DEF RunEnterTeam, TeamBarrier!Enter
<1>5. CASE RunLeaveTeam(w)
  BY <1>5, TeamLeave DEF RunLeaveTeam
<1>6. CASE RunReport(w)
  BY <1>6 DEF RunReport
<1> QED
  BY <1>1, <1>2, <1>3, <1>4, <1>5, <1>6 DEF RunStep

LEMMA IterStays ==
  ASSUME RunTypeOK, NEW w \in Thread, RunStep(w), NEW v \in Thread, v # w
  PROVE  iter'[v] = iter[v]
<1>1. iter \in [Thread -> Nat]
  BY DEF RunTypeOK
<1> QED
  BY <1>1 DEF RunStep, RunEnter, RunLeave, RunIterate, RunEnterTeam, RunLeaveTeam, RunReport

LEMMA EnterCounts ==
  ASSUME RunTypeOK, NEW w \in Thread, WorkerCounts(w), RunEnter(w)
  PROVE  WorkerCounts(w)'
<1>1. /\ stage[w] \in {"reset0", "warm", "resetP", "last"} /\ WorkerCounts(w)
  BY StageFacts DEF RunEnter
<1>2. /\ stage'[w] = ToBarrier[stage[w]] /\ sizeIdx'[w] = sizeIdx[w]
      /\ procIn'[w] = procIn[w] + 1 /\ procOut'[w] = procOut[w]
      /\ teamIn'[w] = teamIn[w] /\ teamOut'[w] = teamOut[w]
      /\ totalExecTimes'[w] = totalExecTimes[w] /\ sizeIdx[w] \in Nat
  BY RunAssumption DEF RunEnter, RunTypeOK, ProcBarrier!Enter, teamVars
<1> QED
  <2>1. CASE stage[w] = "reset0"
    <3>1. CountsAre(w, 0, 0, 0, 0)
      BY <1>1, <2>1 DEF WorkerCounts
    <3>2. CountsAre(w, 1, 0, 0, 0)'
      BY <1>2, <3>1, SMTT(30) DEF CountsAre
    <3> QED  BY <1>2, <2>1, <3>2, StageFacts, ZenonT(30) DEF WorkerCounts
  <2>2. CASE stage[w] = "warm"
    <3>1. CountsAre(w, 1, 1, 0, 0)
      BY <1>1, <2>2 DEF WorkerCounts
    <3>2. CountsAre(w, 2, 1, 0, 0)'
      BY <1>2, <3>1, SMTT(30) DEF CountsAre
    <3> QED  BY <1>2, <2>2, <3>2, StageFacts, ZenonT(30) DEF WorkerCounts
  <2>3. CASE stage[w] = "resetP"
    <3>1. CountsAre(w, 2, 2, 0, 0)
      BY <1>1, <2>3 DEF WorkerCounts
    <3>2. CountsAre(w, 3, 2, 0, 0)'
      BY <1>2, <3>1, SMTT(30) DEF CountsAre
    <3> QED  BY <1>2, <2>3, <3>2, StageFacts, ZenonT(30) DEF WorkerCounts
  <2>4. CASE stage[w] = "last"
    <3>1. CountsAre(w, 3, 3, 1, 1)
      BY <1>1, <2>4 DEF WorkerCounts
    <3>2. CountsAre(w, 4, 3, 1, 1)'
      BY <1>2, <3>1, SMTT(30) DEF CountsAre
    <3> QED  BY <1>2, <2>4, <3>2, StageFacts, ZenonT(30) DEF WorkerCounts
  <2> QED  BY <1>1, <2>1, <2>2, <2>3, <2>4

LEMMA LeaveCounts ==
  ASSUME RunTypeOK, NEW w \in Thread, WorkerCounts(w), RunLeave(w)
  PROVE  WorkerCounts(w)'
<1>1. /\ stage[w] \in {"bar1", "bar2", "bar3", "bar4"} /\ WorkerCounts(w)
  BY StageFacts DEF RunLeave
<1>2. /\ stage'[w] = FromBarrier[stage[w]] /\ sizeIdx'[w] = sizeIdx[w]
      /\ procIn'[w] = procIn[w] /\ procOut'[w] = procOut[w] + 1
      /\ teamIn'[w] = teamIn[w] /\ teamOut'[w] = teamOut[w]
      /\ totalExecTimes'[w] = totalExecTimes[w] /\ sizeIdx[w] \in Nat
  BY RunAssumption, ProcLeave DEF RunLeave, RunTypeOK, teamVars
<1> QED
  <2>1. CASE stage[w] = "bar1"
    <3>1. CountsAre(w, 1, 0, 0, 0)
      BY <1>1, <2>1 DEF WorkerCounts
    <3>2. CountsAre(w, 1, 1, 0, 0)'
      BY <1>2, <3>1, SMTT(30) DEF CountsAre
    <3> QED  BY <1>2, <2>1, <3>2, StageFacts, ZenonT(30) DEF WorkerCounts
  <2>2. CASE stage[w] = "bar2"
    <3>1. CountsAre(w, 2, 1, 0, 0)
      BY <1>1, <2>2 DEF WorkerCounts
    <3>2. CountsAre(w, 2, 2, 0, 0)'
      BY <1>2, <3>1, SMTT(30) DEF CountsAre
    <3> QED  BY <1>2, <2>2, <3>2, StageFacts, ZenonT(30) DEF WorkerCounts
  <2>3. CASE stage[w] = "bar3"
    <3>1. CountsAre(w, 3, 2, 0, 0)
      BY <1>1, <2>3 DEF WorkerCounts
    <3>2. CountsAre(w, 3, 3, 0, 0)'
      BY <1>2, <3>1, SMTT(30) DEF CountsAre
    <3> QED  BY <1>2, <2>3, <3>2, StageFacts, ZenonT(30) DEF WorkerCounts
  <2>4. CASE stage[w] = "bar4"
    <3>1. CountsAre(w, 4, 3, 1, 1)
      BY <1>1, <2>4 DEF WorkerCounts
    <3>2. CountsAre(w, 4, 4, 1, 1)'
      BY <1>2, <3>1, SMTT(30) DEF CountsAre
    <3> QED  BY <1>2, <2>4, <3>2, StageFacts, ZenonT(30) DEF WorkerCounts
  <2> QED  BY <1>1, <2>1, <2>2, <2>3, <2>4

LEMMA TeamCounts ==
  ASSUME RunTypeOK, NEW w \in Thread, WorkerCounts(w), RunEnterTeam(w) \/ RunLeaveTeam(w)
  PROVE  WorkerCounts(w)'
<1>1. sizeIdx[w] \in Nat
  BY RunAssumption DEF RunTypeOK
<1>2. CASE RunEnterTeam(w)
  <2>1. /\ stage[w] = "timed" /\ stage'[w] = "tbar" /\ sizeIdx'[w] = sizeIdx[w]
        /\ procIn'[w] = procIn[w] /\ procOut'[w] = procOut[w]
        /\ teamIn'[w] = teamIn[w] + 1 /\ teamOut'[w] = teamOut[w]
        /\ totalExecTimes'[w] = sizeIdx[w] + 1
    BY <1>2 DEF RunEnterTeam, RunTypeOK, TeamBarrier!Enter, procVars
  <2>2. CountsAre(w, 3, 3, 0, 0)
    BY <2>1 DEF WorkerCounts
  <2>3. CountsAre(w, 3, 3, 1, 0)'
    BY <1>1, <2>1, <2>2 DEF CountsAre
  <2> QED  BY <2>1, <2>3 DEF WorkerCounts
<1>3. CASE RunLeaveTeam(w)
  <2>1. /\ stage[w] = "tbar" /\ stage'[w] = "report" /\ sizeIdx'[w] = sizeIdx[w]
        /\ procIn'[w] = procIn[w] /\ procOut'[w] = procOut[w]
        /\ teamIn'[w] = teamIn[w] /\ teamOut'[w] = teamOut[w] + 1
        /\ totalExecTimes'[w] = totalExecTimes[w]
    BY <1>3, TeamLeave DEF RunLeaveTeam, RunTypeOK, procVars
  <2>2. CountsAre(w, 3, 3, 1, 0)
    BY <2>1 DEF WorkerCounts
  <2>3. CountsAre(w, 3, 3, 1, 1)'
    BY <1>1, <2>1, <2>2 DEF CountsAre
  <2> QED  BY <2>1, <2>3 DEF WorkerCounts
<1> QED  BY <1>2, <1>3

LEMMA ReportCounts ==
  ASSUME RunTypeOK, NEW w \in Thread, WorkerCounts(w), RunReport(w)
  PROVE  WorkerCounts(w)'
<1>1. /\ stage[w] = "report"
      /\ procIn'[w] = procIn[w] /\ procOut'[w] = procOut[w]
      /\ teamIn'[w] = teamIn[w] /\ teamOut'[w] = teamOut[w]
      /\ totalExecTimes'[w] = totalExecTimes[w]
      /\ sizeIdx[w] \in Nat /\ sizeIdx[w] <= SizeCount - 1
  BY RunAssumption DEF RunReport, RunTypeOK, procVars, teamVars
<1>2. CountsAre(w, 3, 3, 1, 1)
  BY <1>1 DEF WorkerCounts
<1>3. CASE sizeIdx[w] + 1 < SizeCount
  <2>1. stage'[w] = "reset0" /\ sizeIdx'[w] = sizeIdx[w] + 1
    BY <1>3 DEF RunReport, RunTypeOK
  <2>2. CountsAre(w, 0, 0, 0, 0)'
    BY <1>1, <1>2, <2>1 DEF CountsAre
  <2> QED  BY <2>1, <2>2 DEF WorkerCounts
<1>4. CASE ~(sizeIdx[w] + 1 < SizeCount)
  <2>1. stage'[w] = "last" /\ sizeIdx'[w] = sizeIdx[w]
    BY <1>4 DEF RunReport, RunTypeOK
  <2>2. sizeIdx'[w] = SizeCount - 1
    BY <1>1, <1>4, <2>1, RunAssumption
  <2>3. CountsAre(w, 3, 3, 1, 1)'
    BY <1>1, <1>2, <2>1 DEF CountsAre
  <2> QED  BY <2>1, <2>2, <2>3 DEF WorkerCounts
<1> QED  BY <1>3, <1>4

LEMMA StepCounts ==
  ASSUME RunTypeOK, \A v \in Thread : WorkerCounts(v), NEW w \in Thread, RunStep(w)
  PROVE  \A v \in Thread : WorkerCounts(v)'
<1>1. WorkerCounts(w)'
  <2>1. CASE RunIterate(w)
    <3>1. /\ stage'[w] = stage[w] /\ sizeIdx'[w] = sizeIdx[w]
          /\ procIn'[w] = procIn[w] /\ procOut'[w] = procOut[w]
          /\ teamIn'[w] = teamIn[w] /\ teamOut'[w] = teamOut[w]
          /\ totalExecTimes'[w] = totalExecTimes[w]
      BY <2>1 DEF RunIterate, procVars, teamVars
    <3> QED  BY <3>1, SameCounts
  <2> QED  BY <2>1, EnterCounts, LeaveCounts, TeamCounts, ReportCounts DEF RunStep
<1>2. ASSUME NEW v \in Thread, v # w PROVE WorkerCounts(v)'
  BY <1>2, OthersStay, SameCounts
<1> QED
  BY <1>1, <1>2

LEMMA InitRunInv == RunInit => RunInv
<1> SUFFICES ASSUME RunInit PROVE RunInv
  OBVIOUS
<1> USE DEF RunInit, ProcBarrier!Init, TeamBarrier!Init
<1>1. RunTypeOK
  BY RunAssumption, StageSet DEF RunTypeOK
<1>2. ASSUME NEW w \in Thread PROVE WorkerCounts(w)
  BY <1>2 DEF WorkerCounts, CountsAre
<1>3. ProcBarrier!Separated /\ TeamBarrier!Separated
  BY ProcSeparated, TeamSeparated
<1> QED
  BY <1>1, <1>2, <1>3 DEF RunInv

(* What the benchmarks rely on. *)
LEMMA NextRunType == RunTypeOK /\ [RunNext]_runVars => RunTypeOK'
<1>1. CASE UNCHANGED runVars
  BY <1>1 DEF RunTypeOK, runVars, procVars, teamVars
<1> QED
  BY <1>1, StepType DEF RunNext, RunFinished

LEMMA NextRunInv == RunInv /\ [RunNext]_runVars => RunInv'
<1> SUFFICES ASSUME RunInv, [RunNext]_runVars PROVE RunInv'
  OBVIOUS
<1>1. ASSUME NEW w \in Thread, RunStep(w) PROVE RunInv'
  BY <1>1, StepType, StepSeparated, StepCounts DEF RunInv
<1>2. CASE UNCHANGED runVars
  BY <1>2, SameCounts DEF RunInv, RunTypeOK, runVars, procVars, teamVars,
                          ProcBarrier!Separated, TeamBarrier!Separated
<1> QED
  BY <1>1, <1>2 DEF RunNext, RunFinished

-----------------------------------------------------------------------------
(* What follows from the invariant. *)

(* Two workers are never further apart than the barriers allow. *)
LEMMA Apart ==
  ASSUME RunInv, NEW w \in Thread, NEW u \in Thread
  PROVE  /\ procOut[w] <= procIn[u] /\ procOut[u] <= procIn[w]
         /\ u[1] = w[1] => teamOut[w] <= teamIn[u]
         /\ sizeIdx[w] \in Nat /\ sizeIdx[u] \in Nat
         /\ WorkerCounts(w) /\ WorkerCounts(u)
<1>1. RunTypeOK /\ ProcBarrier!Separated /\ TeamBarrier!Separated
      /\ WorkerCounts(w) /\ WorkerCounts(u)
  BY DEF RunInv
<1>2. sizeIdx[w] \in Nat /\ sizeIdx[u] \in Nat
  BY <1>1, RunAssumption DEF RunTypeOK
<1> QED
  BY <1>1, <1>2, ProcSeparated, TeamSeparated

(* Bounds on a worker's counts in any stage. *)
CountBounds(w) ==
  /\ procIn[w] \in Nat /\ procOut[w] \in Nat /\ teamIn[w] \in Nat
  /\ totalExecTimes[w] = teamIn[w]
  /\ procOut[w] >= 3 * sizeIdx[w]
  /\ \/ teamIn[w] = sizeIdx[w]
     \/ teamIn[w] = sizeIdx[w] + 1 /\ procOut[w] >= 3 * sizeIdx[w] + 3
  /\ stage[w] \in {"bar4", "exit"} \/ procIn[w] <= 3 * sizeIdx[w] + 3

LEMMA Bounds ==
  ASSUME RunInv, NEW w \in Thread
  PROVE  CountBounds(w)
<1>1. WorkerCounts(w) /\ sizeIdx[w] \in Nat
  BY Apart
<1>2. stage[w] \in Stage
  BY DEF RunInv, RunTypeOK
<1>3. \/ stage[w] \in {"reset0", "bar1", "warm"} \/ stage[w] \in {"bar2", "resetP", "bar3"}
      \/ stage[w] \in {"timed", "tbar", "report", "last"} \/ stage[w] \in {"bar4", "exit"}
  BY <1>2, StageSet, Zenon
<1>4. CASE stage[w] \in {"reset0", "bar1", "warm"}
  <2>1. CountsAre(w, 0, 0, 0, 0) \/ CountsAre(w, 1, 0, 0, 0) \/ CountsAre(w, 1, 1, 0, 0)
    BY <1>1, <1>4, Zenon DEF WorkerCounts
  <2> QED  BY <1>1, <2>1, SMTT(30) DEF CountsAre, CountBounds
<1>5. CASE stage[w] \in {"bar2", "resetP", "bar3"}
  <2>1. CountsAre(w, 2, 1, 0, 0) \/ CountsAre(w, 2, 2, 0, 0) \/ CountsAre(w, 3, 2, 0, 0)
    BY <1>1, <1>5, Zenon DEF WorkerCounts
  <2> QED  BY <1>1, <2>1, SMTT(30) DEF CountsAre, CountBounds
<1>6. CASE stage[w] \in {"timed", "tbar", "report", "last"}
  <2>1. CountsAre(w, 3, 3, 0, 0) \/ CountsAre(w, 3, 3, 1, 0) \/ CountsAre(w, 3, 3, 1, 1)
    BY <1>1, <1>6, Zenon DEF WorkerCounts
  <2> QED  BY <1>1, <2>1, SMTT(30) DEF CountsAre, CountBounds
<1>7. CASE stage[w] \in {"bar4", "exit"}
  <2>1. CountsAre(w, 4, 3, 1, 1) \/ CountsAre(w, 4, 4, 1, 1)
    BY <1>1, <1>7, Zenon DEF WorkerCounts
  <2> QED  BY <1>1, <1>7, <2>1, SMTT(30) DEF CountsAre, CountBounds
<1> QED
  BY <1>3, <1>4, <1>5, <1>6, <1>7

LEMMA InvLoopsAligned == RunInv => LoopsAligned
<1> SUFFICES ASSUME RunInv, NEW w \in Thread, NEW u \in Thread,
                    stage[w] \in Loop, stage[u] \in Loop
             PROVE  stage[w] = stage[u] /\ sizeIdx[w] = sizeIdx[u]
  BY DEF LoopsAligned
<1>1. /\ procOut[w] <= procIn[u] /\ procOut[u] <= procIn[w]
      /\ sizeIdx[w] \in Nat /\ sizeIdx[u] \in Nat
  BY Apart
<1>2. WorkerCounts(w) /\ WorkerCounts(u)
  BY Apart
<1>3. ASSUME stage[w] = "warm", stage[u] = "warm" PROVE sizeIdx[w] = sizeIdx[u]
  <2>1. CountsAre(w, 1, 1, 0, 0) /\ CountsAre(u, 1, 1, 0, 0)
    BY <1>2, <1>3 DEF WorkerCounts
  <2> QED  BY <1>1, <2>1, SMTT(30) DEF CountsAre
<1>4. ASSUME stage[w] = "timed", stage[u] = "timed" PROVE sizeIdx[w] = sizeIdx[u]
  <2>1. CountsAre(w, 3, 3, 0, 0) /\ CountsAre(u, 3, 3, 0, 0)
    BY <1>2, <1>4 DEF WorkerCounts
  <2> QED  BY <1>1, <2>1, SMTT(30) DEF CountsAre
<1>5. ASSUME stage[w] = "warm", stage[u] = "timed" PROVE FALSE
  <2>1. CountsAre(w, 1, 1, 0, 0) /\ CountsAre(u, 3, 3, 0, 0)
    BY <1>2, <1>5 DEF WorkerCounts
  <2> QED  BY <1>1, <2>1, SMTT(30) DEF CountsAre
<1>6. ASSUME stage[w] = "timed", stage[u] = "warm" PROVE FALSE
  <2>1. CountsAre(w, 3, 3, 0, 0) /\ CountsAre(u, 1, 1, 0, 0)
    BY <1>2, <1>6 DEF WorkerCounts
  <2> QED  BY <1>1, <2>1, SMTT(30) DEF CountsAre
<1> QED
  BY <1>3, <1>4, <1>5, <1>6, Zenon DEF Loop

LEMMA InvResetIsolated == RunInv => ResetIsolated
<1> SUFFICES ASSUME RunInv, NEW w \in Thread, NEW u \in Thread
             PROVE  /\ stage[w] = "resetP" => stage[u] \notin Loop
                    /\ stage[w] = "reset0" => /\ stage[u] # "warm"
                                              /\ u[1] = w[1] => stage[u] # "timed"
  BY DEF ResetIsolated
<1>1. /\ procOut[w] <= procIn[u] /\ procOut[u] <= procIn[w]
      /\ u[1] = w[1] => teamOut[w] <= teamIn[u]
      /\ sizeIdx[w] \in Nat /\ sizeIdx[u] \in Nat
  BY Apart
<1>2. WorkerCounts(w) /\ WorkerCounts(u)
  BY Apart
<1>3. ASSUME stage[w] = "resetP", stage[u] = "warm" PROVE FALSE
  <2>1. CountsAre(w, 2, 2, 0, 0) /\ CountsAre(u, 1, 1, 0, 0)
    BY <1>2, <1>3 DEF WorkerCounts
  <2> QED  BY <1>1, <2>1, SMTT(30) DEF CountsAre
<1>4. ASSUME stage[w] = "resetP", stage[u] = "timed" PROVE FALSE
  <2>1. CountsAre(w, 2, 2, 0, 0) /\ CountsAre(u, 3, 3, 0, 0)
    BY <1>2, <1>4 DEF WorkerCounts
  <2> QED  BY <1>1, <2>1, SMTT(30) DEF CountsAre
<1>5. ASSUME stage[w] = "reset0", stage[u] = "warm" PROVE FALSE
  <2>1. CountsAre(w, 0, 0, 0, 0) /\ CountsAre(u, 1, 1, 0, 0)
    BY <1>2, <1>5 DEF WorkerCounts
  <2> QED  BY <1>1, <2>1, SMTT(30) DEF CountsAre
<1>6. ASSUME stage[w] = "reset0", stage[u] = "timed", u[1] = w[1] PROVE FALSE
  <2>1. CountsAre(w, 0, 0, 0, 0) /\ CountsAre(u, 3, 3, 0, 0)
    BY <1>2, <1>6 DEF WorkerCounts
  <2> QED  BY <1>1, <1>6, <2>1, SMTT(30) DEF CountsAre
<1> QED
  BY <1>3, <1>4, <1>5, <1>6, Zenon DEF Loop

LEMMA InvReportsThisSize == RunInv => ReportsThisSize
<1> SUFFICES ASSUME RunInv, NEW w \in Thread, NEW u \in Thread, stage[w] = "report", u[1] = w[1]
             PROVE  totalExecTimes[u] = sizeIdx[w] + 1 /\ stage[u] \notin Loop
  BY DEF ReportsThisSize
<1>1. /\ procOut[w] <= procIn[u] /\ procOut[u] <= procIn[w] /\ teamOut[w] <= teamIn[u]
      /\ sizeIdx[w] \in Nat /\ sizeIdx[u] \in Nat
  BY Apart
<1>2. WorkerCounts(w) /\ WorkerCounts(u)
  BY Apart
<1>3. CountsAre(w, 3, 3, 1, 1)
  BY <1>2 DEF WorkerCounts
<1>4. totalExecTimes[u] = sizeIdx[w] + 1
  <2>1. CountBounds(u)
    BY Bounds
  <2>2. procOut[u] <= 3 * sizeIdx[w] + 3 /\ sizeIdx[w] + 1 <= teamIn[u]
    BY <1>1, <1>3 DEF CountsAre
  <2>3. CASE teamIn[u] = sizeIdx[u]
    BY <1>1, <2>1, <2>2, <2>3, SMTT(30) DEF CountBounds
  <2>4. CASE teamIn[u] = sizeIdx[u] + 1 /\ procOut[u] >= 3 * sizeIdx[u] + 3
    BY <1>1, <2>1, <2>2, <2>4, SMTT(30) DEF CountBounds
  <2> QED  BY <2>1, <2>3, <2>4 DEF CountBounds
<1>5. ASSUME stage[u] = "warm" PROVE FALSE
  <2>1. CountsAre(u, 1, 1, 0, 0)
    BY <1>2, <1>5 DEF WorkerCounts
  <2> QED  BY <1>1, <1>3, <2>1, SMTT(30) DEF CountsAre
<1>6. ASSUME stage[u] = "timed" PROVE FALSE
  <2>1. CountsAre(u, 3, 3, 0, 0)
    BY <1>2, <1>6 DEF WorkerCounts
  <2> QED  BY <1>1, <1>3, <2>1, SMTT(30) DEF CountsAre
<1> QED
  BY <1>4, <1>5, <1>6, Zenon DEF Loop

LEMMA InvNobodyLeftBehind == RunInv => NobodyLeftBehind
<1> SUFFICES ASSUME RunInv, NEW w \in Thread, stage[w] = "exit", NEW u \in Thread
             PROVE  stage[u] \in {"bar4", "exit"}
  BY DEF NobodyLeftBehind
<1>1. procOut[w] <= procIn[u] /\ sizeIdx[w] \in Nat /\ sizeIdx[u] \in Nat /\ WorkerCounts(w)
  BY Apart
<1>2. sizeIdx[u] <= SizeCount - 1
  BY RunAssumption DEF RunInv, RunTypeOK
<1>3. CountsAre(w, 4, 4, 1, 1) /\ sizeIdx[w] = SizeCount - 1
  BY <1>1 DEF WorkerCounts
<1>4. procOut[w] = 3 * SizeCount + 1
  BY <1>3, RunAssumption DEF CountsAre
<1>5. CountBounds(u)
  BY Bounds
<1> QED
  BY <1>1, <1>2, <1>4, <1>5, RunAssumption, SMTT(30) DEF CountBounds

-----------------------------------------------------------------------------
(* A worker in a loop is past a proc_barrier, which every worker of every  *)
(* process has called.                                                     *)
LEMMA EverybodyStarted ==
  ASSUME RunInv, NEW w \in Thread, stage[w] \in Loop, NEW u \in Thread
  PROVE  ~(stage[u] = "reset0" /\ sizeIdx[u] = 0)
<1>1. /\ procOut[w] <= procIn[u] /\ sizeIdx[w] \in Nat /\ sizeIdx[u] \in Nat
      /\ WorkerCounts(w) /\ WorkerCounts(u)
  BY Apart
<1>2. procOut[w] >= 1 /\ procOut[w] \in Nat
  <2>1. CountsAre(w, 1, 1, 0, 0) \/ CountsAre(w, 3, 3, 0, 0)
    BY <1>1 DEF WorkerCounts, Loop
  <2> QED  BY <1>1, <2>1 DEF CountsAre
<1>3. ASSUME stage[u] = "reset0", sizeIdx[u] = 0 PROVE FALSE
  <2>1. CountsAre(u, 0, 0, 0, 0)
    BY <1>1, <1>3 DEF WorkerCounts
  <2>2. procIn[u] = 0
    BY <1>3, <2>1 DEF CountsAre
  <2> QED  BY <1>1, <1>2, <2>2
<1> QED
  BY <1>3

-----------------------------------------------------------------------------
(* Iterations finished. *)

(* A step of the driver other than the end of an iteration is taken        *)
(* outside the iterations and finishes none.                               *)
LEMMA DriveKeeps ==
  ASSUME RunInv, NEW w \in Thread, LoopBounded(w),
         RunEnter(w) \/ RunLeave(w) \/ RunEnterTeam(w) \/ RunLeaveTeam(w) \/ RunReport(w)
  PROVE  /\ ~InLoop(w)
         /\ LoopBounded(w)'
         /\ Done(w)' = Done(w)
<1>0. /\ RunTypeOK /\ iter \in [Thread -> Nat] /\ stage \in [Thread -> Stage]
      /\ sizeIdx \in [Thread -> 0 .. SizeCount - 1] /\ sizeIdx[w] \in Nat
      /\ SKIP \in Nat /\ TOTAL \in Nat /\ SizeCount \in Nat
  BY RunAssumption DEF RunInv, RunTypeOK
<1>1. Before(sizeIdx[w]) \in Nat /\ Before(sizeIdx[w] + 1) = Before(sizeIdx[w]) + SKIP + TOTAL
  BY <1>0 DEF Before
<1> HIDE DEF Before
<1> USE <1>0 DEF Done, Iterations, InLoop, LoopBounded, LoopBound, Loop
<1>2. CASE RunEnter(w)
  <2>1. /\ stage[w] \in {"reset0", "warm", "resetP", "last"}
        /\ stage[w] = "warm" => iter[w] >= SKIP
        /\ stage'[w] = ToBarrier[stage[w]] /\ sizeIdx' = sizeIdx /\ iter' = iter
    BY <1>2, StageFacts DEF RunEnter
  <2>2. CASE stage[w] = "warm"
    BY <2>1, <2>2, StageFacts
  <2>3. CASE stage[w] \in {"reset0", "resetP", "last"}
    <3>1. stage'[w] \in {"bar1", "bar3", "bar4"} /\ stage'[w] \notin Loop
      BY <2>1, <2>3, StageFacts
    <3>2. Iterations(w)' = Iterations(w)
      BY <2>1, <2>3, StageFacts
    <3> QED  BY <2>1, <2>3, <3>1, <3>2
  <2> QED  BY <2>1, <2>2, <2>3
<1>3. CASE RunLeave(w)
  <2>1. /\ stage[w] \in {"bar1", "bar2", "bar3", "bar4"}
        /\ stage'[w] = FromBarrier[stage[w]] /\ sizeIdx' = sizeIdx /\ iter'[w] = 0
    BY <1>3, StageFacts DEF RunLeave
  <2> QED  BY <2>1, StageFacts
<1>4. CASE RunEnterTeam(w)
  <2>1. /\ stage[w] = "timed" /\ iter[w] >= TOTAL
        /\ stage'[w] = "tbar" /\ sizeIdx' = sizeIdx /\ iter' = iter
    BY <1>4, ZenonT(30) DEF RunEnterTeam
  <2> QED  BY <2>1
<1>5. CASE RunLeaveTeam(w)
  <2>1. stage[w] = "tbar" /\ stage'[w] = "report" /\ sizeIdx' = sizeIdx
    BY <1>5 DEF RunLeaveTeam
  <2> QED  BY <2>1
<1>6. CASE RunReport(w)
  <2>1. /\ stage[w] = "report"
        /\ \/ stage'[w] = "reset0" /\ sizeIdx'[w] = sizeIdx[w] + 1
           \/ stage'[w] = "last" /\ sizeIdx' = sizeIdx
    BY <1>6 DEF RunReport
  <2> QED  BY <1>1, <2>1
<1> QED
  BY <1>2, <1>3, <1>4, <1>5, <1>6, ZenonT(30)

(* A worker in a message size is between its beginning and its end. *)
LEMMA DoneRange ==
  ASSUME RunTypeOK, NEW w \in Thread, LoopBounded(w)
  PROVE  /\ Done(w) \in Nat /\ Before(sizeIdx[w]) \in Nat /\ Before(sizeIdx[w] + 1) \in Nat
         /\ Done(w) <= Before(sizeIdx[w] + 1)
         /\ InLoop(w) => Done(w) + 1 <= Before(sizeIdx[w] + 1)
         /\ stage[w] \in {"reset0", "bar1"} => Done(w) = Before(sizeIdx[w])
         /\ stage[w] \in {"bar2", "resetP", "bar3"} => Done(w) = Before(sizeIdx[w]) + SKIP
         /\ stage[w] \in {"tbar", "report", "last", "bar4", "exit"} =>
              Done(w) = Before(sizeIdx[w] + 1)
<1>0. /\ iter[w] \in Nat /\ SKIP \in Nat /\ TOTAL \in Nat /\ sizeIdx[w] \in Nat
      /\ stage[w] \in Stage
  BY RunAssumption DEF RunTypeOK
<1>1. Before(sizeIdx[w]) \in Nat /\ Before(sizeIdx[w] + 1) = Before(sizeIdx[w]) + SKIP + TOTAL
  BY <1>0 DEF Before
<1> HIDE DEF Before
<1>2. Iterations(w) \in Nat /\ Iterations(w) <= SKIP + TOTAL
  BY <1>0 DEF Iterations, LoopBounded, LoopBound, Loop
<1>3. InLoop(w) => Iterations(w) + 1 <= SKIP + TOTAL
  BY <1>0 DEF Iterations, InLoop, LoopBound, Loop
<1>4. /\ stage[w] \in {"reset0", "bar1"} => Iterations(w) = 0
      /\ stage[w] \in {"bar2", "resetP", "bar3"} => Iterations(w) = SKIP
      /\ stage[w] \in {"tbar", "report", "last", "bar4", "exit"} => Iterations(w) = SKIP + TOTAL
  BY DEF Iterations
<1> QED
  BY <1>0, <1>1, <1>2, <1>3, <1>4 DEF Done

LEMMA Counted ==
  ASSUME NEW u, NEW i, NEW o, NEW a, NEW b, CountsAre(u, i, o, a, b)
  PROVE  procIn[u] = 3 * sizeIdx[u] + i /\ procOut[u] = 3 * sizeIdx[u] + o
BY Zenon DEF CountsAre

(* A worker before the first barrier of a size: nobody has finished more   *)
(* than the sizes before it, and its own team exactly those.               *)
LEMMA DoneAtReset0 ==
  ASSUME RunInv, NEW z \in Thread, stage[z] = "reset0", NEW u \in Thread, LoopBounded(u)
  PROVE  /\ Done(u) <= Before(sizeIdx[z])
         /\ InLoop(u) => Done(u) + 1 <= Before(sizeIdx[z])
         /\ u[1] = z[1] => Done(u) = Before(sizeIdx[z]) /\ ~InLoop(u)
<1>0. RunTypeOK
  BY DEF RunInv
<1>1. /\ procOut[z] <= procIn[u] /\ procOut[u] <= procIn[z]
      /\ u[1] = z[1] => teamOut[z] <= teamIn[u]
      /\ sizeIdx[z] \in Nat /\ sizeIdx[u] \in Nat
  BY Apart, ZenonT(30)
<1>2. WorkerCounts(u) /\ CountsAre(z, 0, 0, 0, 0) /\ stage[u] \in Stage
  BY <1>0, Apart, ZenonT(30) DEF WorkerCounts, RunTypeOK
<1>3. \/ stage[u] \in {"reset0", "bar1"} \/ stage[u] \in {"warm", "bar2", "resetP", "bar3", "timed"}
      \/ stage[u] \in {"tbar", "report", "last", "bar4", "exit"}
  BY <1>2, StageSet, ZenonT(30)
<1>4. /\ Done(u) \in Nat /\ Done(u) <= Before(sizeIdx[u] + 1)
      /\ InLoop(u) => Done(u) + 1 <= Before(sizeIdx[u] + 1)
      /\ stage[u] \in {"reset0", "bar1"} => Done(u) = Before(sizeIdx[u])
      /\ stage[u] \in {"tbar", "report", "last", "bar4", "exit"} => Done(u) = Before(sizeIdx[u] + 1)
      /\ Before(sizeIdx[u] + 1) \in Nat /\ Before(sizeIdx[u]) \in Nat
      /\ Before(sizeIdx[u]) <= Before(sizeIdx[u] + 1)
  <2>1. Before(sizeIdx[u]) <= Before(sizeIdx[u] + 1)
    BY <1>1, RunAssumption DEF Before
  <2> QED  BY <1>0, <2>1, DoneRange, ZenonT(30)
<1>5. CASE stage[u] \in {"reset0", "bar1"}
  <2>1. CountsAre(u, 0, 0, 0, 0) \/ CountsAre(u, 1, 0, 0, 0)
    BY <1>2, <1>5, ZenonT(30) DEF WorkerCounts
  <2>2. sizeIdx[u] = sizeIdx[z] \/ (sizeIdx[u] + 1 = sizeIdx[z] /\ u[1] # z[1])
    BY <1>1, <1>2, <2>1, SMTT(30) DEF CountsAre
  <2>3. Done(u) = Before(sizeIdx[u]) /\ ~InLoop(u)
    BY <1>4, <1>5, ZenonT(30) DEF InLoop, Loop
  <2>4. CASE sizeIdx[u] = sizeIdx[z]
    BY <1>4, <2>3, <2>4
  <2>5. CASE sizeIdx[u] + 1 = sizeIdx[z] /\ u[1] # z[1]
    BY <1>4, <2>3, <2>5
  <2> QED  BY <2>2, <2>4, <2>5
<1>6. CASE stage[u] \in {"warm", "bar2", "resetP", "bar3", "timed"}
  <2>1. \/ CountsAre(u, 1, 1, 0, 0) \/ CountsAre(u, 2, 1, 0, 0) \/ CountsAre(u, 2, 2, 0, 0)
        \/ CountsAre(u, 3, 2, 0, 0) \/ CountsAre(u, 3, 3, 0, 0)
    BY <1>2, <1>6, ZenonT(30) DEF WorkerCounts
  <2>2. sizeIdx[u] + 1 = sizeIdx[z] /\ u[1] # z[1]
    BY <1>1, <1>2, <2>1, SMTT(30) DEF CountsAre
  <2> QED  BY <1>4, <2>2, ZenonT(30)
<1>7. CASE stage[u] \in {"tbar", "report", "last", "bar4", "exit"}
  <2>1. \/ CountsAre(u, 3, 3, 1, 0) \/ CountsAre(u, 3, 3, 1, 1) \/ CountsAre(u, 4, 3, 1, 1)
        \/ CountsAre(u, 4, 4, 1, 1)
    BY <1>2, <1>7, ZenonT(30) DEF WorkerCounts
  <2>2. sizeIdx[u] + 1 = sizeIdx[z]
    BY <1>1, <1>2, <2>1, SMTT(30) DEF CountsAre
  <2>3. ~InLoop(u)
    BY <1>7, ZenonT(30) DEF InLoop, Loop
  <2> QED  BY <1>4, <1>7, <2>2, <2>3, ZenonT(30)
<1> QED
  BY <1>3, <1>5, <1>6, <1>7

(* Between the two loops of a size everybody has done the warm-up and no   *)
(* more.                                                                   *)
LEMMA DoneAtResetP ==
  ASSUME RunInv, NEW z \in Thread, stage[z] = "resetP", NEW u \in Thread, LoopBounded(u)
  PROVE  /\ stage[u] \in {"bar2", "resetP", "bar3"} /\ sizeIdx[u] = sizeIdx[z]
         /\ Done(u) = Before(sizeIdx[z]) + SKIP /\ ~InLoop(u)
<1>0. RunTypeOK
  BY DEF RunInv
<1>1. /\ procOut[z] <= procIn[u] /\ procOut[u] <= procIn[z]
      /\ sizeIdx[z] \in Nat /\ sizeIdx[u] \in Nat
  BY Apart, ZenonT(30)
<1>2. WorkerCounts(u) /\ CountsAre(z, 2, 2, 0, 0) /\ stage[u] \in Stage
  BY <1>0, Apart, ZenonT(30) DEF WorkerCounts, RunTypeOK
<1>z. procIn[z] = 3 * sizeIdx[z] + 2 /\ procOut[z] = 3 * sizeIdx[z] + 2
  BY <1>2, Counted, ZenonT(30)
<1>3. \/ stage[u] \in {"bar2", "resetP", "bar3"} \/ stage[u] \in {"reset0", "bar1", "warm"}
      \/ stage[u] \in {"timed", "tbar", "report", "last", "bar4", "exit"}
  BY <1>2, StageSet, ZenonT(30)
<1>4. CASE stage[u] \in {"bar2", "resetP", "bar3"}
  <2>1. CountsAre(u, 2, 1, 0, 0) \/ CountsAre(u, 2, 2, 0, 0) \/ CountsAre(u, 3, 2, 0, 0)
    BY <1>2, <1>4, ZenonT(30) DEF WorkerCounts
  <2>2. sizeIdx[u] = sizeIdx[z]
    <3>1. /\ procIn[u] = 3 * sizeIdx[u] + 2 \/ procIn[u] = 3 * sizeIdx[u] + 3
          /\ procOut[u] = 3 * sizeIdx[u] + 1 \/ procOut[u] = 3 * sizeIdx[u] + 2
      BY <2>1, Counted, ZenonT(30)
    <3> QED  BY <1>1, <1>z, <3>1
  <2>3. Done(u) = Before(sizeIdx[u]) + SKIP
    BY <1>0, <1>4, DoneRange, ZenonT(30)
  <2>4. ~InLoop(u)
    BY <1>4, ZenonT(30) DEF InLoop, Loop
  <2> QED  BY <1>4, <2>2, <2>3, <2>4, ZenonT(30)
<1>5. CASE stage[u] \in {"reset0", "bar1", "warm"}
  <2>1. CountsAre(u, 0, 0, 0, 0) \/ CountsAre(u, 1, 0, 0, 0) \/ CountsAre(u, 1, 1, 0, 0)
    BY <1>2, <1>5, ZenonT(30) DEF WorkerCounts
  <2>2. /\ procIn[u] = 3 * sizeIdx[u] \/ procIn[u] = 3 * sizeIdx[u] + 1
        /\ procOut[u] = 3 * sizeIdx[u] \/ procOut[u] = 3 * sizeIdx[u] + 1
    <3>1. 3 * sizeIdx[u] + 0 = 3 * sizeIdx[u]
      BY <1>1
    <3> QED  BY <2>1, <3>1, Counted, ZenonT(30)
  <2> QED  BY <1>1, <1>z, <2>2
<1>6. CASE stage[u] \in {"timed", "tbar", "report", "last", "bar4", "exit"}
  <2>1. \/ CountsAre(u, 3, 3, 0, 0) \/ CountsAre(u, 3, 3, 1, 0) \/ CountsAre(u, 3, 3, 1, 1)
        \/ CountsAre(u, 4, 3, 1, 1) \/ CountsAre(u, 4, 4, 1, 1)
    BY <1>2, <1>6, ZenonT(30) DEF WorkerCounts
  <2>2. /\ procIn[u] = 3 * sizeIdx[u] + 3 \/ procIn[u] = 3 * sizeIdx[u] + 4
        /\ procOut[u] = 3 * sizeIdx[u] + 3 \/ procOut[u] = 3 * sizeIdx[u] + 4
    BY <2>1, Counted, ZenonT(30)
  <2> QED  BY <1>1, <1>z, <2>2
<1> QED
  BY <1>3, <1>4, <1>5, <1>6, ZenonT(30)

-----------------------------------------------------------------------------
LEMMA RunInvariant == RunSpec => []RunInv
BY InitRunInv, NextRunInv, PTL DEF RunSpec

(* All workers that are in a loop are in the same one. *)
THEOREM LoopsAlign == RunSpec => []LoopsAligned
BY InvLoopsAligned, RunInvariant, PTL

(* reset_counters never overlaps a loop that uses what it overwrites. *)
THEOREM ResetsIsolated == RunSpec => []ResetIsolated
BY InvResetIsolated, RunInvariant, PTL

(* The maximum of totalExecTimes is taken over the times of one size. *)
THEOREM ReportsAreOfOneSize == RunSpec => []ReportsThisSize
BY InvReportsThisSize, RunInvariant, PTL

(* Whoever returns from RUN_VARY_MSG leaves nobody in a loop. *)
THEOREM NobodyIsLeftBehind == RunSpec => []NobodyLeftBehind
BY InvNobodyLeftBehind, RunInvariant, PTL
=============================================================================
