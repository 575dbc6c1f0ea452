------------------------- MODULE ProcBarrierProofs -------------------------
(***************************************************************************)
(* proc_barrier separates the threads of all processes, and implements the *)
(* barrier of Barrier.tla, for every number of processes, threads and      *)
(* calls.                                                                  *)
(***************************************************************************)
EXTENDS ProcBarrier, TLAPS

(* Thread 0 of the process of a thread is a thread. *)
LEMMA ThreadFacts ==
  /\ \A w \in Thread : w[1] \in Rank /\ w[2] \in Nat /\ <<w[1], 0>> \in Thread
  /\ \A r \in Rank : <<r, 0>> \in Thread /\ <<r, 0>>[1] = r /\ <<r, 0>>[2] = 0
  /\ \A w, u \in Thread : w[1] = u[1] /\ w[2] = u[2] => w = u
BY BarrierAssumption DEF Thread, Rank

(* The separation of the two barriers without the group functions. *)
LEMMA TeamSeparated ==
  Team!Separated <=> \A w, u \in Thread : u[1] = w[1] => teamOut[w] <= teamIn[u]
BY DEF Team!Separated

LEMMA PmiSeparated ==
  Pmi!Separated <=> \A r, s \in Rank : pmiOut[r] <= pmiIn[s]
BY DEF Pmi!Separated

LEMMA TeamLeave ==
  \A w \in Thread : Team!Leave(w) <=>
    /\ teamIn[w] = teamOut[w] + 1
    /\ \A u \in Thread : u[1] = w[1] => teamIn[u] >= teamIn[w]
    /\ teamOut' = [teamOut EXCEPT ![w] = @ + 1]
    /\ teamIn' = teamIn
BY DEF Team!Leave, Team!Inside

LEMMA PmiLeave ==
  \A r \in Rank : Pmi!Leave(r) <=>
    /\ pmiIn[r] = pmiOut[r] + 1
    /\ \A s \in Rank : pmiIn[s] >= pmiIn[r]
    /\ pmiOut' = [pmiOut EXCEPT ![r] = @ + 1]
    /\ pmiIn' = pmiIn
BY DEF Pmi!Leave, Pmi!Inside

(* Every second return from a team barrier completes a proc_barrier. *)
LEMMA Parity ==
  /\ 0 % 2 = 0 /\ 0 \div 2 = 0
  /\ \A n \in Nat : n % 2 \in {0, 1} /\ n \div 2 \in Nat
  /\ \A n \in Nat : n % 2 = 0 => (n + 1) % 2 = 1 /\ (n + 1) \div 2 = n \div 2
  /\ \A n \in Nat : n % 2 = 1 => (n + 1) % 2 = 0 /\ (n + 1) \div 2 = (n \div 2) + 1
  /\ \A m, n \in Nat : m <= n => m \div 2 <= n \div 2
OBVIOUS

LEMMA InitIInv == Init => IInv
<1> SUFFICES ASSUME Init PROVE IInv
  OBVIOUS
<1>1. TypeOK /\ OnlyThreadZeroInPmi
  BY DEF Init, TypeOK, OnlyThreadZeroInPmi, Team!Init, Pmi!Init
<1>2. TeamCounts
  BY Parity DEF Init, TeamCounts, Team!Init
<1>3. PmiCounts
  BY Parity, ThreadFacts DEF Init, PmiCounts, Team!Init, Pmi!Init
<1>4. Team!Separated
  BY TeamSeparated DEF Init, Team!Init
<1>5. Pmi!Separated
  BY PmiSeparated DEF Init, Pmi!Init
<1> QED
  BY <1>1, <1>2, <1>3, <1>4, <1>5 DEF IInv

(* Entering a team barrier. *)
LEMMA TeamEnterStep ==
  ASSUME IInv, NEW w \in Thread, CallBarrier(w) \/ EnterSecond(w)
  PROVE  IInv'
<1> USE DEF IInv, TypeOK, CallBarrier, EnterSecond, Goto, Team!Enter
<1>2. TypeOK'
  OBVIOUS
<1>3. TeamCounts'
  BY DEF TeamCounts
<1>4. PmiCounts'
  BY DEF TeamCounts, PmiCounts
<1>5. OnlyThreadZeroInPmi'
  BY DEF OnlyThreadZeroInPmi
<1>6. Team!Separated'
  <2>1. \A v, u \in Thread : u[1] = v[1] => teamOut'[v] <= teamIn'[u]
    BY TeamSeparated
  <2> QED  BY <2>1 DEF Team!Separated
<1>7. Pmi!Separated'
  BY DEF Pmi!Separated
<1> QED
  BY <1>2, <1>3, <1>4, <1>5, <1>6, <1>7

(* Leaving a team barrier. *)
LEMMA TeamLeaveStep ==
  ASSUME IInv, NEW w \in Thread, LeaveFirst(w) \/ LeaveSecond(w)
  PROVE  IInv'
<1> USE DEF IInv, TypeOK, LeaveFirst, LeaveSecond, Goto
<1>1. /\ teamIn[w] = teamOut[w] + 1
      /\ \A u \in Thread : u[1] = w[1] => teamIn[u] >= teamIn[w]
      /\ teamOut' = [teamOut EXCEPT ![w] = @ + 1]
      /\ teamIn' = teamIn
      /\ UNCHANGED <<pmiIn, pmiOut>>
  BY TeamLeave
<1>2. TypeOK'
  BY <1>1
<1>3. TeamCounts'
  <2>1. ASSUME NEW v \in Thread, v # w
        PROVE  pc'[v] = pc[v] /\ teamIn'[v] = teamIn[v] /\ teamOut'[v] = teamOut[v]
    BY <2>1, <1>1
  <2>2. teamIn'[w] = teamOut'[w] /\ pc'[w] \in {"out", "between"}
    BY <1>1
  <2>3. pc'[w] = "out" <=> teamOut'[w] % 2 = 0
    <3>1. teamOut'[w] = teamOut[w] + 1 /\ teamOut[w] \in Nat
      BY <1>1
    <3>2. CASE LeaveFirst(w)
      BY <3>1, <3>2, Parity DEF TeamCounts
    <3>3. CASE LeaveSecond(w)
      BY <3>1, <3>3, Parity DEF TeamCounts
    <3> QED  BY <3>2, <3>3
  <2> QED
    BY <2>1, <2>2, <2>3 DEF TeamCounts
<1>4. PmiCounts'
  <2> SUFFICES ASSUME NEW v \in Thread, v[2] = 0, NEW n, n = teamOut'[v] \div 2
               PROVE  /\ pc'[v] \in {"out", "first", "between"} => pmiIn[v[1]] = n /\ pmiOut[v[1]] = n
                      /\ pc'[v] = "pmi" => pmiIn[v[1]] = n + 1 /\ pmiOut[v[1]] = n
                      /\ pc'[v] \in {"after", "second"} => pmiIn[v[1]] = n + 1 /\ pmiOut[v[1]] = n + 1
    BY <1>1 DEF PmiCounts
  <2>1. CASE v # w
    BY <2>1, <1>1 DEF PmiCounts
  <2>2. teamOut'[w] = teamOut[w] + 1 /\ teamOut[w] \in Nat
    BY <1>1
  <2>3. CASE v = w /\ LeaveFirst(w)
    <3>1. teamOut[w] % 2 = 0 /\ pc'[w] = "between"
      BY <2>3 DEF TeamCounts
    <3> QED  BY <2>2, <2>3, <3>1, Parity DEF PmiCounts
  <2>4. CASE v = w /\ LeaveSecond(w)
    <3>1. teamOut[w] % 2 = 1 /\ pc'[w] = "out"
      BY <2>4, Parity DEF TeamCounts
    <3> QED  BY <2>2, <2>4, <3>1, Parity DEF PmiCounts
  <2> QED  BY <2>1, <2>3, <2>4
<1>5. OnlyThreadZeroInPmi'
  BY DEF OnlyThreadZeroInPmi
<1>6. Team!Separated'
  <2>1. \A v, u \in Thread : u[1] = v[1] => teamOut'[v] <= teamIn'[u]
    BY TeamSeparated, <1>1
  <2> QED  BY <2>1 DEF Team!Separated
<1>7. Pmi!Separated'
  BY <1>1 DEF Pmi!Separated
<1> QED
  BY <1>2, <1>3, <1>4, <1>5, <1>6, <1>7

(* Thread 0 enters or leaves pmi_barrier. *)
LEMMA PmiStep ==
  ASSUME IInv, NEW w \in Thread, EnterPmi(w) \/ LeavePmi(w)
  PROVE  IInv'
<1> USE DEF IInv, TypeOK
<1>0. w[1] \in Rank /\ w[2] = 0 /\ UNCHANGED <<teamIn, teamOut>>
  BY ThreadFacts DEF EnterPmi, LeavePmi
<1>1. \/ Goto(w, "between", "pmi") /\ Pmi!Enter(w[1])
      \/ Goto(w, "pmi", "after") /\ Pmi!Leave(w[1])
  BY DEF EnterPmi, LeavePmi
<1>2. TypeOK'
  BY <1>0, <1>1, PmiLeave DEF Goto, Pmi!Enter
<1>3. TeamCounts'
  BY <1>0, <1>1 DEF TeamCounts, Goto
<1>4. PmiCounts'
  <2> SUFFICES ASSUME NEW v \in Thread, v[2] = 0, NEW n, n = teamOut[v] \div 2
               PROVE  /\ pc'[v] \in {"out", "first", "between"} => pmiIn'[v[1]] = n /\ pmiOut'[v[1]] = n
                      /\ pc'[v] = "pmi" => pmiIn'[v[1]] = n + 1 /\ pmiOut'[v[1]] = n
                      /\ pc'[v] \in {"after", "second"} => pmiIn'[v[1]] = n + 1 /\ pmiOut'[v[1]] = n + 1
    BY <1>0 DEF PmiCounts
  <2>1. v = w \/ v[1] # w[1]
    BY <1>0, ThreadFacts
  <2>2. n \in Nat
    BY Parity
  <2>3. CASE v # w
    <3>1. v[1] \in Rank /\ v[1] # w[1]
      BY <2>1, <2>3, ThreadFacts
    <3>2. pc'[v] = pc[v] /\ pmiIn'[v[1]] = pmiIn[v[1]] /\ pmiOut'[v[1]] = pmiOut[v[1]]
      BY <3>1, <2>3, <1>0, <1>1, PmiLeave DEF Goto, Pmi!Enter
    <3> QED  BY <3>2 DEF PmiCounts
  <2>4. CASE v = w
    BY <2>2, <2>4, <1>0, <1>1, PmiLeave DEF PmiCounts, Goto, Pmi!Enter
  <2> QED  BY <2>3, <2>4
<1>5. OnlyThreadZeroInPmi'
  BY <1>0, <1>1 DEF OnlyThreadZeroInPmi, Goto
<1>6. Team!Separated'
  BY <1>0 DEF Team!Separated
<1>7. Pmi!Separated'
  <2>1. \A r, s \in Rank : pmiOut'[r] <= pmiIn'[s]
    BY <1>0, <1>1, PmiLeave, PmiSeparated DEF Pmi!Enter
  <2> QED  BY <2>1 DEF Pmi!Separated
<1> QED
  BY <1>2, <1>3, <1>4, <1>5, <1>6, <1>7

LEMMA NextIInv == IInv /\ [Next]_vars => IInv'
<1> SUFFICES ASSUME IInv, [Next]_vars PROVE IInv'
  OBVIOUS
<1>1. CASE UNCHANGED vars
  BY <1>1 DEF vars, IInv, TypeOK, TeamCounts, PmiCounts, OnlyThreadZeroInPmi,
              Team!Separated, Pmi!Separated
<1>2. ASSUME NEW w \in Thread, Step(w) PROVE IInv'
  BY <1>2, TeamEnterStep, TeamLeaveStep, PmiStep DEF Step
<1> QED
  BY <1>1, <1>2 DEF Next, Finished

-----------------------------------------------------------------------------
(* No thread is past its n-th proc_barrier before all have called it: a    *)
(* thread that is past it has seen thread 0 of its process past the n-th   *)
(* pmi_barrier, hence every thread 0 inside it, hence every team past its  *)
(* first thread_barrier.                                                   *)
LEMMA IInvSeparated == IInv => Separated
<1> SUFFICES ASSUME IInv, NEW w \in Thread, NEW u \in Thread
             PROVE  teamOut[w] \div 2 <= (teamIn[u] + 1) \div 2
  BY DEF Separated, Promised!Separated
<1> DEFINE z == <<w[1], 0>>
           y == <<u[1], 0>>
           n == teamOut[w] \div 2
<1>0. /\ z \in Thread /\ z[1] = w[1] /\ z[2] = 0 /\ w[1] \in Rank
      /\ y \in Thread /\ y[1] = u[1] /\ y[2] = 0 /\ u[1] \in Rank
  BY ThreadFacts
<1> HIDE DEF z, y
<1>1. teamOut[w] <= teamIn[z] /\ teamOut[y] <= teamIn[u]
  BY <1>0, TeamSeparated DEF IInv
<1>2. n <= pmiOut[w[1]]
  BY <1>0, <1>1, Parity DEF IInv, TypeOK, TeamCounts, PmiCounts
<1>3. pmiOut[w[1]] <= pmiIn[u[1]]
  BY <1>0, PmiSeparated DEF IInv
<1>4. pmiIn[u[1]] <= (teamOut[y] + 1) \div 2
  BY <1>0, Parity DEF IInv, TypeOK, TeamCounts, PmiCounts
<1>5. (teamOut[y] + 1) \div 2 <= (teamIn[u] + 1) \div 2
  BY <1>0, <1>1 DEF IInv, TypeOK
<1> QED
  BY <1>0, <1>2, <1>3, <1>4, <1>5 DEF IInv, TypeOK

(* omp::proc_barrier separates all threads of all processes. *)
THEOREM ProcBarrierSeparates == Spec => []Separated
<1>1. Init => IInv
  BY InitIInv
<1>2. IInv /\ [Next]_vars => IInv'
  BY NextIInv
<1>3. IInv => Separated
  BY IInvSeparated
<1> QED
  BY <1>1, <1>2, <1>3, PTL DEF Spec

-----------------------------------------------------------------------------
(* The counters of the barrier proc_barrier promises, and its actions.     *)
Entered(w) == (teamIn[w] + 1) \div 2
Left(w) == teamOut[w] \div 2

LEMMA PromisedEnter ==
  ASSUME NEW w \in Thread, Entered(w) \in Nat, Entered(w) = Left(w),
         Entered(w)' = Entered(w) + 1,
         \A v \in Thread : v # w => Entered(v)' = Entered(v),
         \A v \in Thread : Left(v)' = Left(v)
  PROVE  Promised!Next
BY DEF Promised!Next, Promised!Enter, Entered, Left

LEMMA PromisedLeave ==
  ASSUME NEW w \in Thread, Left(w) \in Nat, Entered(w) = Left(w) + 1,
         Left(w)' = Left(w) + 1,
         \A v \in Thread : Entered(v) >= Entered(w),
         \A v \in Thread : v # w => Left(v)' = Left(v),
         \A v \in Thread : Entered(v)' = Entered(v)
  PROVE  Promised!Next
<1>1. [v \in Thread |-> teamOut[v] \div 2]'
      = [[v \in Thread |-> teamOut[v] \div 2] EXCEPT ![w] = @ + 1]
  BY DEF Left
<1>2. [v \in Thread |-> (teamIn[v] + 1) \div 2]' = [v \in Thread |-> (teamIn[v] + 1) \div 2]
  BY DEF Entered
<1>3. Promised!Leave(w)
  BY <1>1, <1>2 DEF Promised!Leave, Promised!Inside, Entered, Left
<1> QED
  BY <1>3 DEF Promised!Next

LEMMA PromisedStutter ==
  ASSUME \A v \in Thread : Entered(v)' = Entered(v) /\ Left(v)' = Left(v)
  PROVE  UNCHANGED Promised!barrierVars
BY DEF Promised!barrierVars, Entered, Left

(* Only the first entry and the second return of a call are steps of the   *)
(* promised barrier; every other step is invisible.                        *)
LEMMA StepRefines ==
  ASSUME IInv, [Next]_vars
  PROVE  [Promised!Next]_(Promised!barrierVars)
<1> USE DEF IInv, TypeOK
<1>0. IInv' /\ Separated'
  <2>1. IInv'
    BY NextIInv
  <2>2. (IInv => Separated)'
    BY IInvSeparated, PTL
  <2> QED  BY <2>1, <2>2
<1>1. ASSUME NEW w \in Thread, CallBarrier(w) PROVE Promised!Next
  <2>1. /\ teamOut[w] \in Nat /\ teamOut[w] % 2 = 0 /\ teamIn[w] = teamOut[w]
        /\ teamIn' = [teamIn EXCEPT ![w] = @ + 1] /\ teamOut' = teamOut
    BY <1>1 DEF CallBarrier, Goto, TeamCounts, Team!Enter
  <2> QED
    BY <2>1, PromisedEnter DEF Entered, Left
<1>2. ASSUME NEW w \in Thread, LeaveFirst(w) PROVE UNCHANGED Promised!barrierVars
  <2>1. /\ teamOut[w] \in Nat /\ teamOut[w] % 2 = 0
        /\ teamOut' = [teamOut EXCEPT ![w] = @ + 1] /\ teamIn' = teamIn
    BY <1>2, TeamLeave DEF LeaveFirst, Goto, TeamCounts
  <2> QED
    BY <2>1, Parity, PromisedStutter DEF Entered, Left
<1>3. ASSUME NEW w \in Thread, EnterPmi(w) \/ LeavePmi(w)
      PROVE  UNCHANGED Promised!barrierVars
  BY <1>3, PromisedStutter DEF EnterPmi, LeavePmi, Entered, Left
<1>4. ASSUME NEW w \in Thread, EnterSecond(w) PROVE UNCHANGED Promised!barrierVars
  <2>1. /\ teamIn[w] \in Nat /\ teamIn[w] % 2 = 1
        /\ teamIn' = [teamIn EXCEPT ![w] = @ + 1] /\ teamOut' = teamOut
    BY <1>4, Parity DEF EnterSecond, Goto, TeamCounts, Team!Enter
  <2>2. (teamIn[w] + 2) \div 2 = (teamIn[w] + 1) \div 2
    BY <2>1
  <2> QED
    BY <2>1, <2>2, PromisedStutter DEF Entered, Left
<1>5. ASSUME NEW w \in Thread, LeaveSecond(w) PROVE Promised!Next
  <2>1. /\ teamOut[w] \in Nat /\ teamOut[w] % 2 = 1 /\ teamIn[w] = teamOut[w] + 1
        /\ teamOut' = [teamOut EXCEPT ![w] = @ + 1] /\ teamIn' = teamIn
    BY <1>5, TeamLeave, Parity DEF LeaveSecond, Goto, TeamCounts
  <2>2. Left(w) \in Nat /\ Entered(w) = Left(w) + 1 /\ Left(w)' = Left(w) + 1
    BY <2>1, Parity DEF Entered, Left
  <2>3. \A v \in Thread : Entered(v)' = Entered(v) /\ (v # w => Left(v)' = Left(v))
    BY <2>1 DEF Entered, Left
  <2>4. \A v \in Thread : Entered(v)' >= Left(w)'
    <3>1. \A v \in Thread : teamOut'[w] \div 2 <= (teamIn'[v] + 1) \div 2
      BY <1>0 DEF Separated, Promised!Separated
    <3>2. \A v \in Thread : teamIn'[v] \in Nat
      BY <1>0
    <3> QED  BY <3>1, <3>2, <2>1 DEF Entered, Left
  <2>5. \A v \in Thread : Entered(v) >= Entered(w)
    BY <2>2, <2>3, <2>4
  <2> QED
    BY <2>2, <2>3, <2>5, PromisedLeave
<1>6. CASE UNCHANGED vars
  BY <1>6, PromisedStutter DEF vars, Entered, Left
<1> QED
  BY <1>1, <1>2, <1>3, <1>4, <1>5, <1>6 DEF Next, Step, Finished

(* The two team barriers around pmi_barrier do what one barrier of all     *)
(* threads would do, and nothing else.                                     *)
THEOREM ProcBarrierImplements == Spec => StepsOfBarrier
<1>1. Init => Promised!Init
  BY Parity DEF Init, Team!Init, Promised!Init
<1>2. Init => IInv
  BY InitIInv
<1>3. IInv /\ [Next]_vars => IInv'
  BY NextIInv
<1>4. IInv /\ [Next]_vars => [Promised!Next]_(Promised!barrierVars)
  BY StepRefines
<1> QED
  BY <1>1, <1>2, <1>3, <1>4, PTL DEF Spec, StepsOfBarrier
=============================================================================
