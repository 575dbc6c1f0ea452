-------------------------- MODULE SimplePmiProofs --------------------------
(***************************************************************************)
(* For any number of processes, any programs and a process manager that    *)
(* may die at any point: requests and responses of the PMI-1 client stay   *)
(* in step, and a PMI_Barrier that succeeds has separated all processes.   *)
(*                                                                         *)
(* The inductive invariant is IInv of SimplePmi.tla.  InStep alone is not  *)
(* inductive: that the answer to a request is the one the call expects     *)
(* needs InCall.  BarrierHolds needs Rounds, which counts the barrier_out  *)
(* lines that are still on the wire.                                       *)
(*                                                                         *)
(* For programs that initialise first and once (Conventional), also: what  *)
(* was put before a barrier is found after it, and PMI_Barrier with the    *)
(* process manager implements Barrier.tla step by step.  Their inductive   *)
(* invariant, ExchangeInv, says how far a process is in its program.       *)
(***************************************************************************)
EXTENDS SimplePmi, TLAPS

(* The tables of commands. *)
LEMMA RequestFacts ==
  ASSUME NEW op \in Ops
  PROVE  /\ Request[op] \in Cmds /\ Request[op] # "none"
         /\ Request[op] \notin InitCmds
         /\ (Request[op] = "barrier_in") <=> (op = "PMI_Barrier")
         /\ Request[op] = "init" => op = "PMI_Init"
         /\ op = "PMI_Init" => Request[op] = "init"
<1>1. Request[op] \in Cmds
  BY DEF Cmds
<1>2. Request[op] # "none" /\ Request[op] \notin InitCmds
  BY ZenonT(30) DEF Request, Ops, NameOps, QuietOps, PutOps, InitCmds
<1>3. (Request[op] = "barrier_in") <=> (op = "PMI_Barrier")
  BY DEF Request, Ops, NameOps, QuietOps, PutOps
<1>4. (Request[op] = "init" => op = "PMI_Init") /\ (op = "PMI_Init" => Request[op] = "init")
  BY DEF Request, Ops, NameOps, QuietOps, PutOps
<1> QED
  BY <1>1, <1>2, <1>3, <1>4

LEMMA CommandFacts ==
  /\ InitCmds \subseteq Cmds /\ "init" \in Cmds /\ "barrier_in" \in Cmds
  /\ "none" \notin InitCmds /\ "barrier_in" \notin InitCmds /\ "init" \notin InitCmds
  /\ Answer["barrier_in"] = "barrier_out"
<1>1. "PMI_Init" \in Ops /\ "PMI_Barrier" \in Ops
  BY DEF Ops, QuietOps
<1>2. Request["PMI_Init"] = "init" /\ Request["PMI_Barrier"] = "barrier_in"
  BY <1>1, RequestFacts
<1>3. "init" \in Cmds /\ "barrier_in" \in Cmds
  BY <1>1, <1>2 DEF Cmds
<1>4. Answer["barrier_in"] = "barrier_out"
  BY <1>3 DEF Answer, Aborts
<1> QED
  BY <1>3, <1>4 DEF Cmds, InitCmds

(* The operation a process is in. *)
LEMMA OpInOps ==
  ASSUME TypeOK, NEW r \in Rank, ~Finished(r)
  PROVE  Op(r) \in Ops
<1>1. program[r] \in Seq(Ops) /\ pc[r] \in Nat \ {0} /\ ~(pc[r] > Len(program[r]))
  BY PmiAssumption DEF TypeOK, Finished
<1>2. Len(program[r]) \in Nat /\ program[r] \in [1 .. Len(program[r]) -> Ops]
  BY <1>1
<1>3. pc[r] \in 1 .. Len(program[r])
  BY <1>1, <1>2
<1> QED
  BY <1>2, <1>3 DEF Op

(* Arithmetic of a call that starts or returns. *)
LEMMA CallsBefore ==
  ASSUME NEW L \in Nat, NEW n \in 1 .. L, NEW m, m = n + 1, NEW i \in 1 .. m - 1
  PROVE  i \in 1 .. n - 1 \/ i = n
OBVIOUS

LEMMA CallIndex ==
  ASSUME NEW L \in Nat, NEW n \in 1 .. L
  PROVE  n - 1 \in Nat /\ (n - 1) + 1 = n /\ (n + 1) - 1 = n
OBVIOUS

LEMMA CountedSoFar ==
  ASSUME NEW c \in Nat, NEW b \in Nat, NEW bar \in BOOLEAN, NEW w,
         w = 0 \/ (w = 1 /\ bar), c <= b + w
  PROVE  c <= (b + (IF bar THEN 1 ELSE 0)) + 0
OBVIOUS

LEMMA CountUp ==
  0 + 0 = 0 /\ \A c \in Nat : c + 0 = c /\ (c + 1) + 0 = c + 1
OBVIOUS

LEMMA NoneAhead ==
  ASSUME NEW c \in Nat, NEW p \in Nat, c <= p, NEW w, w = 0
  PROVE  ~(c > p + w)
OBVIOUS

LEMMA OneAhead ==
  ASSUME NEW c \in Nat, NEW p \in Nat, c <= p, NEW w \in Nat
  PROVE  ~(c + w > p + w)
OBVIOUS

LEMMA CountedAlong ==
  ASSUME NEW c \in Nat, NEW b \in Nat, c <= b + 0, NEW w \in Nat
  PROVE  c + w <= b + w
OBVIOUS

LEMMA ZeroOne ==
  ASSUME NEW a \in BOOLEAN
  PROVE  (IF a THEN 1 ELSE 0) \in Nat
OBVIOUS

LEMMA PastLast == \A n \in Nat : n + 1 \notin 2 .. n
OBVIOUS

LEMMA NoWait ==
  \A c, p \in Nat : (c <= p + 0 => c <= p) /\ (0 >= p + 0 => p = 0) /\ 0 <= p /\ p + 1 \in Nat
OBVIOUS

LEMMA PutIndex ==
  ASSUME NEW L \in Nat, NEW i \in 1 .. L, NEW n \in Nat \ {0}
  PROVE  i \in Nat /\ n - 1 \in Nat /\ (n - 1) + 1 = n /\ n \in Nat
OBVIOUS

LEMMA PutAhead ==
  ASSUME NEW L \in Nat, NEW i \in 1 .. L, NEW n \in Nat \ {0}, i \notin 1 .. n - 1
  PROVE  n <= i /\ n - 1 <= i
OBVIOUS

LEMMA BarrierAhead ==
  ASSUME NEW c \in Nat, NEW d \in Nat, NEW x \in Nat, x < d, d <= c
  PROVE  /\ c # 0
         /\ \A a, b \in Nat : a <= x /\ b <= x =>
              ~(c <= b + 0) /\ ~(c <= b + 1 /\ a = b + 1)
OBVIOUS

LEMMA EnteredToo ==
  ASSUME NEW c \in Nat, NEW p \in Nat, NEW q \in Nat, NEW rel, NEW w,
         p + 1 = q + rel, c >= q + w, (rel = 1 /\ w = 1) \/ (rel = 0 /\ w \in {0, 1})
  PROVE  (IF c > q THEN q + 1 ELSE c) >= p + 1
OBVIOUS

LEMMA Fields ==
  \A o, rc, v : LET x == [op |-> o, rc |-> rc, val |-> v] IN x.op = o /\ x.rc = rc /\ x.val = v
OBVIOUS

(* Sequences of one element, the only ones on the wire. *)
LEMMA OneElement ==
  ASSUME NEW S, NEW x \in S
  PROVE  /\ Append(<<>>, x) = <<x>> /\ <<x>> \in Seq(S) /\ <<x>> # <<>>
         /\ Len(<<x>>) = 1 /\ <<x>>[1] = x /\ Head(<<x>>) = x /\ Tail(<<x>>) = <<>>
<1> QED
  OBVIOUS

LEMMA NoneLeft ==
  ASSUME NEW S, NEW s \in Seq(S), Len(s) = 0
  PROVE  s = <<>>
OBVIOUS

LEMMA TakeOne ==
  ASSUME NEW S, NEW s \in Seq(S), s # <<>>
  PROVE  Head(s) \in S /\ Head(s) = s[1] /\ Tail(s) \in Seq(S)
         /\ (Len(s) = 1 => Tail(s) = <<>>)
<1>1. Head(s) \in S /\ Head(s) = s[1] /\ Tail(s) \in Seq(S) /\ Len(Tail(s)) = Len(s) - 1
  OBVIOUS
<1>2. ASSUME Len(s) = 1 PROVE Tail(s) = <<>>
  <2>1. Len(Tail(s)) = 0
    BY <1>1, <1>2
  <2> QED
    BY <1>1, <2>1, NoneLeft, Zenon
<1> QED
  BY <1>1, <1>2

-----------------------------------------------------------------------------
(* What a step of process r has to leave true of r, and what it leaves     *)
(* alone.                                                                  *)
Local(r) ==
  /\ InCallOf(r)' /\ InStepOf(r)'
  /\ passed'[r] + Released(r)' = passed[r] + Released(r)
  /\ called'[r] >= passed'[r] + Waiting(r)'

Frame(r) ==
  /\ program' = program /\ pm' = pm
  /\ \A q \in Rank \ {r} :
       /\ q \in inBarrier' <=> q \in inBarrier
       /\ pc'[q] = pc[q] /\ cmd'[q] = cmd[q] /\ phase'[q] = phase[q] /\ PMI_fd'[q] = PMI_fd[q]
       /\ toPm'[q] = toPm[q] /\ toClient'[q] = toClient[q]
       /\ called'[q] = called[q] /\ passed'[q] = passed[q]

LEMMA LocalSuffices ==
  ASSUME IInv, TypeOK', NEW r \in Rank, Local(r), Frame(r)
  PROVE  IInv'
<1>1. ASSUME NEW q \in Rank
      PROVE  /\ InCallOf(q)' /\ InStepOf(q)'
             /\ passed'[q] + Released(q)' = passed[q] + Released(q)
             /\ called'[q] >= passed'[q] + Waiting(q)'
  <2>1. CASE q = r
    BY <2>1 DEF Local
  <2>2. CASE q # r
    <3>1. InCallOf(q) /\ InStepOf(q) /\ called[q] >= passed[q] + Waiting(q)
      BY DEF IInv, InCall, InStep, Rounds
    <3>2. /\ program' = program /\ pm' = pm /\ (q \in inBarrier' <=> q \in inBarrier)
          /\ pc'[q] = pc[q] /\ cmd'[q] = cmd[q] /\ phase'[q] = phase[q] /\ PMI_fd'[q] = PMI_fd[q]
          /\ toPm'[q] = toPm[q] /\ toClient'[q] = toClient[q]
          /\ called'[q] = called[q] /\ passed'[q] = passed[q]
      BY <2>2 DEF Frame
    <3>3. InCallOf(q)' /\ InStepOf(q)'
      BY <3>1, <3>2 DEF InCallOf, InStepOf, Finished, Op
    <3>4. Released(q)' = Released(q) /\ Waiting(q)' = Waiting(q)
      BY <3>2, ZenonT(30) DEF Released, Waiting
    <3> QED
      BY <3>1, <3>2, <3>3, <3>4
  <2> QED
    BY <2>1, <2>2
<1>2. Rounds'
  <2> SUFFICES ASSUME NEW p \in Rank, NEW q \in Rank
               PROVE  /\ passed'[p] + Released(p)' = passed'[q] + Released(q)'
                      /\ called'[p] >= passed'[p] + Waiting(p)'
    BY DEF Rounds
  <2>1. passed[p] + Released(p) = passed[q] + Released(q)
    BY DEF IInv, Rounds
  <2> QED
    BY <1>1, <2>1
<1> QED
  BY <1>1, <1>2 DEF IInv, InCall, InStep

(* The facts about one process that the proofs start from. *)
LEMMA Here ==
  ASSUME IInv, NEW r \in Rank
  PROVE  /\ TypeOK /\ InCallOf(r) /\ InStepOf(r)
         /\ called[r] >= passed[r] + Waiting(r)
         /\ pc[r] \in Nat \ {0} /\ pc[r] <= Len(program[r]) + 1 /\ Len(program[r]) \in Nat
         /\ called[r] \in Nat /\ passed[r] \in Nat
         /\ phase[r] \in {"idle", "write", "read"} /\ cmd[r] \in Cmds \cup {"none"}
<1>1. TypeOK /\ InCallOf(r) /\ InStepOf(r) /\ called[r] >= passed[r] + Waiting(r)
  BY DEF IInv, InCall, InStep, Rounds
<1>2. program[r] \in Seq(Ops)
  BY <1>1, PmiAssumption DEF TypeOK
<1>3. Len(program[r]) \in Nat
  BY <1>2
<1> QED
  BY <1>1, <1>3, ZenonT(30) DEF TypeOK

(* Where process r is after a step of it; nobody else has moved. *)
InCallAfter(r) ==
  /\ ret' \in [Rank -> [op : Ops \cup {"none"}, rc : {PMI_SUCCESS, PMI_FAIL}, val : Rank \cup {None}]]
  /\ pc' \in [Rank -> Nat \ {0}] /\ pc'[r] <= Len(program[r]) + 1
  /\ cmd' \in [Rank -> Cmds \cup {"none"}] /\ phase' \in [Rank -> {"idle", "write", "read"}]
  /\ InCallOf(r)'
  /\ \A q \in Rank \ {r} : pc'[q] = pc[q] /\ cmd'[q] = cmd[q] /\ phase'[q] = phase[q]

(* A call returns. *)
LEMMA ReturnEffect ==
  ASSUME IInv, NEW r \in Rank, ~Finished(r), program' = program,
         NEW rc \in {PMI_SUCCESS, PMI_FAIL}, NEW v \in Rank \cup {None}, Return(r, rc, v)
  PROVE  InCallAfter(r) /\ cmd'[r] = "none" /\ phase'[r] = "idle"
<1>1. TypeOK /\ pc[r] \in Nat \ {0} /\ Len(program[r]) \in Nat
  BY Here
<1>2. Op(r) \in Ops
  BY <1>1, OpInOps
<1>3. pc[r] <= Len(program[r])
  BY <1>1 DEF Finished
<1>4. ret' \in [Rank -> [op : Ops \cup {"none"}, rc : {PMI_SUCCESS, PMI_FAIL}, val : Rank \cup {None}]]
  BY <1>1, <1>2 DEF Return, TypeOK
<1>5. pc' \in [Rank -> Nat \ {0}] /\ pc'[r] <= Len(program[r]) + 1
  <2>1. pc \in [Rank -> Nat \ {0}] /\ pc' = [pc EXCEPT ![r] = @ + 1]
    BY <1>1 DEF Return, TypeOK
  <2>2. pc[r] + 1 \in Nat \ {0} /\ pc[r] + 1 <= Len(program[r]) + 1
    BY <1>1, <1>3
  <2> QED
    BY <2>1, <2>2
<1>6. /\ cmd' \in [Rank -> Cmds \cup {"none"}] /\ phase' \in [Rank -> {"idle", "write", "read"}]
      /\ cmd'[r] = "none" /\ phase'[r] = "idle"
      /\ \A q \in Rank \ {r} : pc'[q] = pc[q] /\ cmd'[q] = cmd[q] /\ phase'[q] = phase[q]
  BY <1>1, ZenonT(30) DEF Return, TypeOK
<1>7. InCallOf(r)'
  BY <1>6 DEF InCallOf
<1> QED
  BY <1>4, <1>5, <1>6, <1>7 DEF InCallAfter

(* A GetResponse starts. *)
LEMMA AskEffect ==
  ASSUME IInv, NEW r \in Rank, ~Finished(r), program' = program,
         NEW c \in Cmds, c # "none", Ask(r, c),
         c = Request[Op(r)] \/ (c \in InitCmds /\ Op(r) = "PMI_Init")
  PROVE  InCallAfter(r) /\ cmd'[r] = c /\ phase'[r] = "write"
<1>1. TypeOK /\ pc[r] <= Len(program[r]) + 1
  BY Here
<1>2. /\ cmd' \in [Rank -> Cmds \cup {"none"}] /\ phase' \in [Rank -> {"idle", "write", "read"}]
      /\ cmd'[r] = c /\ phase'[r] = "write" /\ pc' = pc /\ ret' = ret
      /\ \A q \in Rank \ {r} : cmd'[q] = cmd[q] /\ phase'[q] = phase[q]
  BY <1>1, Zenon DEF Ask, TypeOK
<1>3. InCallOf(r)'
  BY <1>2 DEF InCallOf, Finished, Op
<1>4. pc \in [Rank -> Nat \ {0}] /\ ret \in [Rank -> [op : Ops \cup {"none"},
         rc : {PMI_SUCCESS, PMI_FAIL}, val : Rank \cup {None}]]
  BY <1>1 DEF TypeOK
<1> QED
  BY <1>1, <1>2, <1>3, <1>4 DEF InCallAfter
ClientTyped(r) ==
  /\ \A q \in Rank \ {r} : PMI_fd'[q] = PMI_fd[q]
  /\ PMI_initialized' \in [Rank -> {"uninit", "singleton", "normal"}]
  /\ PMI_fd' \in [Rank -> {"none", "open", "closed"}] /\ maxes' \in [Rank -> BOOLEAN]

(* A GetResponse ends: the call goes on with the next one or returns, and  *)
(* only a barrier that got its answer counts as passed.                    *)
LEMMA CompleteEffect ==
  ASSUME IInv, NEW r \in Rank, phase[r] # "idle", program' = program,
         NEW got \in BOOLEAN, NEW rc \in {PMI_SUCCESS, PMI_FAIL}, NEW val \in Rank \cup {None},
         Complete(r, got, rc, val)
  PROVE  /\ InCallAfter(r) /\ ClientTyped(r)
         /\ phase'[r] # "read" /\ (phase'[r] = "idle" \/ cmd'[r] # "barrier_in")
         /\ passed' \in [Rank -> Nat] /\ \A q \in Rank \ {r} : passed'[q] = passed[q]
         /\ cmd[r] = "barrier_in" /\ got => passed'[r] = passed[r] + 1
         /\ cmd[r] # "barrier_in" \/ ~got => passed'[r] = passed[r]
<1>1. TypeOK /\ InCallOf(r) /\ passed \in [Rank -> Nat] /\ passed[r] \in Nat
  BY Here, ZenonT(30) DEF TypeOK
<1>2. ~Finished(r) /\ (cmd[r] = Request[Op(r)] \/ (cmd[r] \in InitCmds /\ Op(r) = "PMI_Init"))
  BY <1>1 DEF InCallOf
<1>3. Op(r) \in Ops
  BY <1>1, <1>2, OpInOps
<1>4. cmd[r] \in InitCmds \cup {"init"} => Op(r) = "PMI_Init"
  BY <1>2, <1>3, RequestFacts
<1>5. cmd[r] = "barrier_in" <=> Op(r) = "PMI_Barrier"
  BY <1>2, <1>3, RequestFacts, CommandFacts
<1>6. ASSUME NEW c \in InitCmds, Ask(r, c), cmd[r] \in InitCmds \cup {"init"},
             UNCHANGED <<stateVars, passed>>
      PROVE  /\ InCallAfter(r) /\ ClientTyped(r)
             /\ phase'[r] # "read" /\ (phase'[r] = "idle" \/ cmd'[r] # "barrier_in")
             /\ passed' = passed /\ cmd[r] # "barrier_in"
  <2>1. c \in Cmds /\ c # "none" /\ c # "barrier_in" /\ Op(r) = "PMI_Init" /\ cmd[r] # "barrier_in"
    BY <1>4, <1>6, CommandFacts
  <2>2. InCallAfter(r) /\ cmd'[r] = c /\ phase'[r] = "write"
    BY <1>2, <1>6, <2>1, AskEffect
  <2>3. ClientTyped(r) /\ passed' = passed
    BY <1>1, <1>6 DEF ClientTyped, TypeOK, stateVars
  <2> QED
    BY <2>1, <2>2, <2>3
<1>7. CASE cmd[r] \in {"init", "abort_read", "abort_init"}
  <2>1. /\ UNCHANGED <<stateVars, passed>>
        /\ \E c \in InitCmds : Ask(r, c)
    BY <1>7 DEF Complete, InitCmds
  <2>2. cmd[r] \in InitCmds \cup {"init"}
    BY <1>7 DEF InitCmds
  <2> QED
    BY <1>1, <1>6, <2>1, <2>2
<1>8. CASE cmd[r] = "get_maxes"
  <2>1. InitReturn(r, got) /\ cmd[r] # "barrier_in"
    BY <1>8 DEF Complete, InitCmds
  <2>2. InCallAfter(r) /\ cmd'[r] = "none" /\ phase'[r] = "idle"
    BY <1>2, <2>1, ReturnEffect DEF InitReturn
  <2>3. ClientTyped(r) /\ passed' = passed
    BY <1>1, <2>1 DEF InitReturn, ClientTyped, TypeOK
  <2> QED
    BY <1>1, <2>1, <2>2, <2>3
<1>9. CASE cmd[r] \notin InitCmds \cup {"init"}
  <2>1. OpReturn(r, got, rc, val)
    BY <1>9 DEF Complete, InitCmds
  <2>2. PICK res \in {PMI_SUCCESS, PMI_FAIL}, v \in Rank \cup {None} : Return(r, res, v)
    BY <2>1 DEF OpReturn, ResultRc
  <2>3. InCallAfter(r) /\ cmd'[r] = "none" /\ phase'[r] = "idle"
    BY <1>2, <2>2, ReturnEffect
  <2>4. /\ PMI_fd' = IF Op(r) = "PMI_Finalize" THEN [PMI_fd EXCEPT ![r] = "closed"] ELSE PMI_fd
        /\ passed' = IF Op(r) = "PMI_Barrier" /\ got THEN [passed EXCEPT ![r] = @ + 1] ELSE passed
        /\ UNCHANGED <<PMI_initialized, maxes>>
    BY <2>1 DEF OpReturn
  <2>5. ClientTyped(r)
    BY <1>1, <2>4, Zenon DEF ClientTyped, TypeOK
  <2>6. /\ passed' \in [Rank -> Nat] /\ \A q \in Rank \ {r} : passed'[q] = passed[q]
        /\ cmd[r] = "barrier_in" /\ got => passed'[r] = passed[r] + 1
        /\ cmd[r] # "barrier_in" \/ ~got => passed'[r] = passed[r]
    BY <1>1, <1>5, <2>4
  <2> QED
    BY <2>3, <2>5, <2>6
<1> QED
  BY <1>7, <1>8, <1>9 DEF InitCmds
-----------------------------------------------------------------------------
(* Nothing is under way for a process that is not reading. *)
LEMMA Silent ==
  ASSUME IInv, NEW r \in Rank, phase[r] # "read"
  PROVE  toPm[r] = <<>> /\ toClient[r] = <<>> /\ r \notin inBarrier /\ Released(r) = 0
<1>1. InStepOf(r)
  BY Here
<1> QED
  BY <1>1 DEF InStepOf, Released

(* A step that leaves nothing under way for r. *)
LEMMA SilentAfter ==
  ASSUME IInv, NEW r \in Rank, InCallAfter(r), ClientTyped(r),
         program' = program, inBarrier' = inBarrier, pm' = pm, r \notin inBarrier,
         toPm'[r] = <<>>, toClient'[r] = <<>>,
         \A q \in Rank \ {r} : /\ toPm'[q] = toPm[q] /\ toClient'[q] = toClient[q]
                               /\ called'[q] = called[q] /\ passed'[q] = passed[q],
         passed'[r] = passed[r] + Released(r), passed'[r] \in Nat,
         called'[r] >= passed'[r] + Waiting(r)'
  PROVE  Local(r) /\ Frame(r)
<1>1. Released(r)' = 0
  BY DEF Released
<1>2. InStepOf(r)' /\ InCallOf(r)'
  BY DEF InStepOf, InCallAfter
<1>3. passed'[r] + Released(r)' = passed[r] + Released(r)
  BY <1>1
<1>4. Frame(r)
  BY ZenonT(30) DEF Frame, InCallAfter, ClientTyped
<1> QED
  BY <1>2, <1>3, <1>4 DEF Local

(* The types after a step of a process. *)
LEMMA ClientTypes ==
  ASSUME IInv, NEW r \in Rank, InCallAfter(r), ClientTyped(r),
         UNCHANGED jobVars, UNCHANGED pmVars, alive' \in [Rank -> BOOLEAN],
         toPm' \in [Rank -> Seq(Cmds)], toClient' \in [Rank -> Seq(Responses)],
         called' \in [Rank -> Nat], passed' \in [Rank -> Nat]
  PROVE  TypeOK'
<1>1. TypeOK
  BY DEF IInv
<1>2. UNCHANGED <<launched, versionOk, program>>
  BY DEF jobVars
<1>3. \A q \in Rank : pc'[q] <= Len(program'[q]) + 1
  BY <1>1, <1>2, Zenon DEF TypeOK, InCallAfter
<1> QED
  BY <1>1, <1>2, <1>3, Zenon DEF TypeOK, InCallAfter, ClientTyped, pmVars

(* A call that is over at once, or PMI_Init that begins. *)
LEMMA StartStep ==
  ASSUME IInv, NEW r \in Rank, CallLocal(r) \/ InitSingleton(r) \/ InitLaunched(r)
  PROVE  IInv'
<1>1. /\ phase[r] = "idle" /\ ~Finished(r) /\ UNCHANGED jobVars /\ program' = program /\ alive' = alive
      /\ toPm' = toPm /\ toClient' = toClient /\ UNCHANGED pmVars /\ inBarrier' = inBarrier /\ pm' = pm
      /\ called' = called /\ passed' = passed
  BY DEF CallLocal, InitSingleton, InitLaunched, Ready, jobVars, wireVars, pmVars, countVars
<1>2. TypeOK /\ called[r] >= passed[r] + Waiting(r) /\ Waiting(r) = 0 /\ passed[r] \in Nat /\ called[r] \in Nat
  BY <1>1, Here DEF Waiting
<1>3. InCallAfter(r) /\ (phase'[r] = "idle" \/ cmd'[r] # "barrier_in")
  <2>1. CASE CallLocal(r) \/ InitSingleton(r)
    <3>1. PICK rc \in {PMI_SUCCESS, PMI_FAIL} : Return(r, rc, None)
      BY <2>1 DEF CallLocal, InitSingleton, LocalRc
    <3> QED
      BY <1>1, <3>1, ReturnEffect
  <2>2. CASE InitLaunched(r)
    <3>1. Ask(r, "init") /\ Op(r) = "PMI_Init" /\ Op(r) \in Ops
      BY <1>1, <1>2, <2>2, OpInOps DEF InitLaunched
    <3>2. "init" \in Cmds /\ "init" = Request[Op(r)]
      BY <3>1, RequestFacts, CommandFacts
    <3> QED
      BY <1>1, <3>1, <3>2, AskEffect
  <2> QED
    BY <2>1, <2>2
<1>4. ClientTyped(r)
  BY <1>2, ZenonT(30) DEF ClientTyped, TypeOK, CallLocal, InitSingleton, InitLaunched, stateVars
<1>5. TypeOK'
  <2>1. /\ alive \in [Rank -> BOOLEAN] /\ toPm \in [Rank -> Seq(Cmds)]
        /\ toClient \in [Rank -> Seq(Responses)]
        /\ called \in [Rank -> Nat] /\ passed \in [Rank -> Nat]
    BY <1>2 DEF TypeOK
  <2> QED
    BY <1>1, <1>3, <1>4, <2>1, ClientTypes, Zenon
<1>6. Waiting(r)' = 0
  BY <1>3 DEF Waiting
<1>7. Local(r) /\ Frame(r)
  BY <1>1, <1>2, <1>3, <1>4, <1>6, Silent, SilentAfter
<1> QED
  BY <1>5, <1>7, LocalSuffices

LEMMA CallStep ==
  ASSUME IInv, NEW r \in Rank, Call(r)
  PROVE  IInv'
<1>1. /\ phase[r] = "idle" /\ ~Finished(r) /\ UNCHANGED jobVars /\ program' = program /\ alive' = alive
      /\ toPm' = toPm /\ toClient' = toClient /\ UNCHANGED pmVars /\ inBarrier' = inBarrier /\ pm' = pm
      /\ UNCHANGED stateVars /\ passed' = passed /\ Ask(r, Request[Op(r)])
      /\ called' = IF Op(r) = "PMI_Barrier" THEN [called EXCEPT ![r] = @ + 1] ELSE called
  BY DEF Call, Ready, jobVars, wireVars, pmVars
<1>2. TypeOK /\ called[r] >= passed[r] + Waiting(r) /\ Waiting(r) = 0 /\ passed[r] \in Nat /\ called[r] \in Nat
  BY <1>1, Here DEF Waiting
<1>3. Op(r) \in Ops
  BY <1>1, <1>2, OpInOps
<1>4. InCallAfter(r) /\ cmd'[r] = Request[Op(r)] /\ phase'[r] = "write"
  BY <1>1, <1>3, RequestFacts, AskEffect
<1>5. ClientTyped(r)
  BY <1>1, <1>2 DEF ClientTyped, TypeOK, stateVars
<1>6. /\ called' \in [Rank -> Nat] /\ \A q \in Rank \ {r} : called'[q] = called[q]
      /\ called'[r] >= passed'[r] + Waiting(r)'
  <2>1. called \in [Rank -> Nat]
    BY <1>2 DEF TypeOK
  <2>2. CASE Op(r) = "PMI_Barrier"
    <3>1. Waiting(r)' = 1
      BY <1>3, <1>4, <2>2, RequestFacts DEF Waiting
    <3> QED
      BY <1>1, <1>2, <2>1, <2>2, <3>1
  <2>3. CASE Op(r) # "PMI_Barrier"
    <3>1. Waiting(r)' = 0
      BY <1>3, <1>4, <2>3, RequestFacts DEF Waiting
    <3> QED
      BY <1>1, <1>2, <2>1, <2>3, <3>1
  <2> QED
    BY <2>2, <2>3
<1>7. TypeOK'
  <2>1. /\ alive \in [Rank -> BOOLEAN] /\ toPm \in [Rank -> Seq(Cmds)]
        /\ toClient \in [Rank -> Seq(Responses)] /\ passed \in [Rank -> Nat]
    BY <1>2, ZenonT(30) DEF TypeOK
  <2> QED
    BY <1>1, <1>4, <1>5, <1>6, <2>1, ClientTypes, Zenon
<1>8. Local(r) /\ Frame(r)
  BY <1>1, <1>2, <1>4, <1>5, <1>6, Silent, SilentAfter
<1> QED
  BY <1>7, <1>8, LocalSuffices, ZenonT(30)
(* PMIU_writeline. *)
LEMMA WriteStep ==
  ASSUME IInv, NEW r \in Rank, Write(r) \/ WriteDropped(r)
  PROVE  IInv'
<1>1. /\ phase[r] = "write" /\ UNCHANGED jobVars /\ program' = program /\ alive' = alive /\ pc' = pc /\ ret' = ret
      /\ cmd' = cmd /\ phase' = [phase EXCEPT ![r] = "read"]
      /\ toClient' = toClient /\ UNCHANGED pmVars /\ inBarrier' = inBarrier /\ pm' = pm
      /\ UNCHANGED stateVars /\ passed' = passed /\ called' = called
      /\ \/ toPm' = [toPm EXCEPT ![r] = Append(@, cmd[r])] /\ PMI_fd[r] = "open" /\ pm = "up"
         \/ toPm' = toPm
  BY ZenonT(30) DEF Write, WriteDropped, Writing, jobVars, wireVars, pmVars, countVars
<1>2. /\ TypeOK /\ InCallOf(r) /\ called[r] >= passed[r] + Waiting(r)
      /\ pc[r] <= Len(program[r]) + 1 /\ cmd[r] \in Cmds \cup {"none"}
      /\ toPm[r] = <<>> /\ toClient[r] = <<>> /\ r \notin inBarrier
  BY <1>1, Here, Silent
<1>3. cmd[r] \in Cmds
  BY <1>1, <1>2 DEF InCallOf
<1>4. /\ phase \in [Rank -> {"idle", "write", "read"}] /\ toPm \in [Rank -> Seq(Cmds)]
      /\ pc \in [Rank -> Nat \ {0}] /\ cmd \in [Rank -> Cmds \cup {"none"}]
      /\ ret \in [Rank -> [op : Ops \cup {"none"}, rc : {PMI_SUCCESS, PMI_FAIL}, val : Rank \cup {None}]]
      /\ alive \in [Rank -> BOOLEAN] /\ toClient \in [Rank -> Seq(Responses)]
      /\ called \in [Rank -> Nat] /\ passed \in [Rank -> Nat]
  BY <1>2 DEF TypeOK
<1>5. /\ phase' \in [Rank -> {"idle", "write", "read"}] /\ phase'[r] = "read"
      /\ \A q \in Rank \ {r} : phase'[q] = phase[q]
  BY <1>1, <1>4
<1>6. InCallOf(r)'
  BY <1>1, <1>2, <1>5 DEF InCallOf, Finished, Op
<1>7. InCallAfter(r)
  BY <1>1, <1>2, <1>4, <1>5, <1>6 DEF InCallAfter
<1>8. ClientTyped(r)
  BY <1>1, <1>2 DEF ClientTyped, TypeOK, stateVars
<1>9. /\ toPm' \in [Rank -> Seq(Cmds)] /\ \A q \in Rank \ {r} : toPm'[q] = toPm[q]
      /\ toPm'[r] = <<>> \/ (toPm'[r] = <<cmd[r]>> /\ PMI_fd'[r] = "open" /\ pm' = "up")
  <2>1. CASE toPm' = [toPm EXCEPT ![r] = Append(@, cmd[r])] /\ PMI_fd[r] = "open" /\ pm = "up"
    <3>1. Append(toPm[r], cmd[r]) = <<cmd[r]>> /\ <<cmd[r]>> \in Seq(Cmds)
      BY <1>2, <1>3, OneElement
    <3>2. PMI_fd' = PMI_fd
      BY <1>1 DEF stateVars
    <3> QED
      BY <1>1, <1>4, <2>1, <3>1, <3>2
  <2>2. CASE toPm' = toPm
    BY <1>2, <1>4, <2>2
  <2> QED
    BY <1>1, <2>1, <2>2
<1>10. TypeOK'
  BY <1>1, <1>4, <1>7, <1>8, <1>9, ClientTypes, Zenon
<1>11. InStepOf(r)'
  BY <1>1, <1>2, <1>5, <1>9, ZenonT(30) DEF InStepOf
<1>12. Waiting(r)' = Waiting(r) /\ Released(r)' = Released(r)
  BY <1>1, <1>5, ZenonT(30) DEF Waiting, Released
<1>13. Local(r)
  BY <1>1, <1>2, <1>6, <1>11, <1>12 DEF Local
<1>14. Frame(r)
  BY <1>1, <1>5, <1>9, ZenonT(30) DEF Frame, stateVars
<1> QED
  BY <1>10, <1>13, <1>14, LocalSuffices, ZenonT(30)

(* A GetResponse ends without a line, or PMI_Init goes on after an error. *)
LEMMA FailStep ==
  ASSUME IInv, NEW r \in Rank, WriteFails(r) \/ ReadFails(r) \/ ReadErrorInInit(r)
  PROVE  IInv'
<1>1. /\ phase[r] \in {"write", "read"} /\ UNCHANGED jobVars /\ program' = program /\ alive' = alive
      /\ toPm' = toPm /\ toClient' = toClient /\ UNCHANGED pmVars /\ inBarrier' = inBarrier /\ pm' = pm
      /\ called' = called
  BY Zenon DEF WriteFails, ReadFails, ReadErrorInInit, Writing, Reading, jobVars, wireVars, pmVars, countVars
<1>2. /\ TypeOK /\ InCallOf(r) /\ InStepOf(r) /\ called[r] >= passed[r] + Waiting(r)
      /\ passed[r] \in Nat /\ called[r] \in Nat /\ cmd[r] \in Cmds \cup {"none"}
  BY Here
<1>3. /\ alive \in [Rank -> BOOLEAN] /\ toPm \in [Rank -> Seq(Cmds)]
      /\ toClient \in [Rank -> Seq(Responses)]
      /\ called \in [Rank -> Nat] /\ passed \in [Rank -> Nat]
  BY <1>2 DEF TypeOK
<1>4. /\ InCallAfter(r) /\ ClientTyped(r)
      /\ phase'[r] # "read" /\ (phase'[r] = "idle" \/ cmd'[r] # "barrier_in")
      /\ passed' \in [Rank -> Nat] /\ \A q \in Rank \ {r} : passed'[q] = passed[q]
      /\ passed'[r] = passed[r]
  <2>1. CASE Complete(r, FALSE, PMI_FAIL, None)
    BY <1>1, <2>1, CompleteEffect, ZenonT(30)
  <2>2. CASE cmd[r] = "init" /\ InitReturn(r, FALSE)
    <3>1. ~Finished(r)
      BY <1>1, <1>2 DEF InCallOf
    <3>2. InCallAfter(r) /\ cmd'[r] = "none" /\ phase'[r] = "idle"
      BY <1>1, <2>2, <3>1, ReturnEffect DEF InitReturn
    <3>3. ClientTyped(r) /\ passed' = passed
      BY <1>2, <2>2, ZenonT(30) DEF InitReturn, ClientTyped, TypeOK
    <3> QED
      BY <1>3, <3>2, <3>3
  <2>3. CASE ReadErrorInInit(r)
    <3>1. ~Finished(r) /\ Ask(r, "abort_read") /\ cmd[r] = "init"
      BY <1>1, <1>2, <2>3 DEF InCallOf, ReadErrorInInit
    <3>2. Op(r) \in Ops
      BY <1>2, <3>1, OpInOps, ZenonT(30)
    <3>3. Op(r) = "PMI_Init"
      BY <1>1, <1>2, <3>1, <3>2, RequestFacts, CommandFacts DEF InCallOf
    <3>4. "abort_read" \in InitCmds /\ "abort_read" \in Cmds
      BY CommandFacts DEF InitCmds
    <3>5. InCallAfter(r) /\ cmd'[r] = "abort_read" /\ phase'[r] = "write"
      BY <1>1, <3>1, <3>3, <3>4, AskEffect
    <3>6. ClientTyped(r) /\ passed' = passed
      BY <1>2, <2>3 DEF ReadErrorInInit, ClientTyped, TypeOK, stateVars, countVars
    <3> QED
      BY <1>3, <3>5, <3>6
  <2> QED
    BY <2>1, <2>2, <2>3, Zenon DEF WriteFails, ReadFails
<1>5. TypeOK'
  BY <1>1, <1>3, <1>4, ClientTypes, ZenonT(30)
<1>6. toPm[r] = <<>> /\ toClient[r] = <<>> /\ r \notin inBarrier /\ Released(r) = 0
  <2>1. CASE phase[r] = "write"
    BY <2>1, Silent
  <2>2. CASE phase[r] = "read"
    <3>1. NothingToRead(r)
      BY <2>2, Zenon DEF WriteFails, Writing, ReadFails, ReadErrorInInit
    <3> QED
      BY <1>2, <3>1 DEF NothingToRead, InStepOf, Released
  <2> QED
    BY <1>1, <2>1, <2>2
<1>7. Waiting(r)' = 0 /\ Waiting(r) \in Nat
  BY <1>4, ZenonT(30) DEF Waiting
<1>8. Local(r) /\ Frame(r)
  BY <1>1, <1>2, <1>4, <1>6, <1>7, SilentAfter, SMTT(30)
<1> QED
  BY <1>5, <1>8, LocalSuffices
(* GetResponse reads a line; it is the answer to its own request. *)
LEMMA ReadLineStep ==
  ASSUME IInv, NEW r \in Rank, ReadLine(r)
  PROVE  IInv'
<1> DEFINE line == Head(toClient[r])
<1>1. /\ phase[r] = "read" /\ toClient[r] # <<>> /\ UNCHANGED jobVars /\ program' = program /\ alive' = alive
      /\ toPm' = toPm /\ UNCHANGED pmVars /\ inBarrier' = inBarrier /\ pm' = pm
      /\ called' = called /\ toClient' = [toClient EXCEPT ![r] = Tail(@)]
      /\ Complete(r, line.name = Answer[cmd[r]], line.rc, line.val)
  BY ZenonT(30) DEF ReadLine, Reading, jobVars, pmVars
<1>2. /\ TypeOK /\ InCallOf(r) /\ InStepOf(r) /\ called[r] >= passed[r] + Waiting(r)
      /\ passed[r] \in Nat /\ called[r] \in Nat /\ cmd[r] \in Cmds \cup {"none"}
  BY Here
<1>3. /\ alive \in [Rank -> BOOLEAN] /\ toPm \in [Rank -> Seq(Cmds)]
      /\ toClient \in [Rank -> Seq(Responses)]
      /\ called \in [Rank -> Nat] /\ passed \in [Rank -> Nat]
  BY <1>2 DEF TypeOK
<1>4. Len(toClient[r]) = 1 /\ toClient[r][1].name = Answer[cmd[r]]
      /\ toPm[r] = <<>> /\ r \notin inBarrier
  BY <1>1, <1>2 DEF InStepOf
<1>5. line \in Responses /\ line.name = Answer[cmd[r]] /\ Tail(toClient[r]) = <<>>
  BY <1>1, <1>3, <1>4, TakeOne
<1>6. line.rc \in {PMI_SUCCESS, PMI_FAIL} /\ line.val \in Rank \cup {None}
  BY <1>5 DEF Responses
<1>7. Complete(r, TRUE, line.rc, line.val)
  BY <1>1, <1>5, Zenon
<1> HIDE DEF line
<1>8. /\ InCallAfter(r) /\ ClientTyped(r)
      /\ phase'[r] # "read" /\ (phase'[r] = "idle" \/ cmd'[r] # "barrier_in")
      /\ passed' \in [Rank -> Nat] /\ \A q \in Rank \ {r} : passed'[q] = passed[q]
      /\ cmd[r] = "barrier_in" => passed'[r] = passed[r] + 1
      /\ cmd[r] # "barrier_in" => passed'[r] = passed[r]
  BY <1>1, <1>6, <1>7, CompleteEffect, Zenon
<1>9. /\ toClient' \in [Rank -> Seq(Responses)] /\ toClient'[r] = <<>>
      /\ \A q \in Rank \ {r} : toClient'[q] = toClient[q]
  BY <1>1, <1>3, <1>5
<1>10. TypeOK'
  BY <1>1, <1>3, <1>8, <1>9, ClientTypes, Zenon
<1>11. Waiting(r)' = 0
  BY <1>8 DEF Waiting
<1>12. passed'[r] = passed[r] + Released(r) /\ called'[r] >= passed'[r] + Waiting(r)'
  <2>1. CASE cmd[r] = "barrier_in"
    <3>1. Released(r) = 1 /\ Waiting(r) = 1
      BY <1>1, <2>1, ZenonT(30) DEF Released, Waiting
    <3> QED
      <4>1. called'[r] >= passed[r] + 1 /\ passed'[r] = passed[r] + 1 /\ passed[r] \in Nat
        BY <1>1, <1>2, <1>8, <2>1, <3>1, Zenon
      <4>2. (passed[r] + 1) + 0 = passed[r] + 1
        BY <4>1, CountUp, Zenon
      <4> QED
        BY <1>11, <3>1, <4>1, <4>2, Zenon
  <2>2. CASE cmd[r] # "barrier_in"
    <3>1. Released(r) = 0 /\ Waiting(r) = 0
      BY <2>2 DEF Released, Waiting
    <3> QED
      <4>1. called'[r] >= passed[r] + 0 /\ passed'[r] = passed[r] /\ passed[r] \in Nat
        BY <1>1, <1>2, <1>8, <2>2, <3>1, Zenon
      <4>2. passed[r] + 0 = passed[r]
        BY <4>1, CountUp, Zenon
      <4> QED
        BY <1>11, <3>1, <4>1, <4>2, Zenon
  <2> QED
    BY <2>1, <2>2, ZenonT(30)
<1>13. Local(r) /\ Frame(r)
  BY <1>1, <1>2, <1>3, <1>4, <1>8, <1>9, <1>12, SilentAfter, Zenon
<1> QED
  BY <1>10, <1>13, LocalSuffices

-----------------------------------------------------------------------------
(* Steps after which every process is where it was, with the same lines    *)
(* under way: the death of a process and the end of the job.               *)
LEMMA StillStep ==
  ASSUME IInv, TypeOK', UNCHANGED <<program, pc, cmd, phase, PMI_fd, toPm, toClient, inBarrier, pm, called, passed>>
  PROVE  IInv'
<1>1. InCall' /\ InStep'
  BY Zenon DEF IInv, InCall, InStep, InCallOf, InStepOf, Finished, Op
<1>2. Rounds'
  BY Zenon DEF IInv, Rounds, Released, Waiting
<1> QED
  BY <1>1, <1>2 DEF IInv

LEMMA SigpipeStep ==
  ASSUME IInv, NEW r \in Rank, Sigpipe(r)
  PROVE  IInv'
<1>1. TypeOK'
  BY ZenonT(30) DEF IInv, TypeOK, Sigpipe, jobVars, stateVars, callVars, wireVars, pmVars, countVars
<1>2. UNCHANGED <<program, pc, cmd, phase, PMI_fd, toPm, toClient, inBarrier, pm, called, passed>>
  BY DEF Sigpipe, jobVars, stateVars, callVars, wireVars, pmVars, countVars
<1> QED
  BY <1>1, <1>2, StillStep
-----------------------------------------------------------------------------
(* The process manager takes a request: it is the one its client waits on. *)
LEMMA Taken ==
  ASSUME IInv, NEW r \in Rank, toPm[r] # <<>>
  PROVE  /\ cmd[r] \in Cmds /\ phase[r] = "read" /\ Head(toPm[r]) = cmd[r] /\ Tail(toPm[r]) = <<>>
         /\ toClient[r] = <<>> /\ r \notin inBarrier /\ PMI_fd[r] = "open" /\ pm = "up"
         /\ toPm \in [Rank -> Seq(Cmds)] /\ toClient \in [Rank -> Seq(Responses)]
<1>1. TypeOK /\ InCallOf(r) /\ InStepOf(r) /\ cmd[r] \in Cmds \cup {"none"}
  BY Here
<1>2. /\ toPm \in [Rank -> Seq(Cmds)] /\ toClient \in [Rank -> Seq(Responses)] /\ pm \in {"up", "down"}
  BY <1>1 DEF TypeOK
<1>3. /\ phase[r] = "read" /\ toPm[r] = <<cmd[r]>> /\ toClient[r] = <<>> /\ r \notin inBarrier
      /\ PMI_fd[r] = "open" /\ pm = "up"
  BY <1>1, <1>2 DEF InStepOf
<1>4. cmd[r] \in Cmds
  BY <1>1, <1>3 DEF InCallOf
<1>5. Head(toPm[r]) = cmd[r] /\ Tail(toPm[r]) = <<>>
  BY <1>3, <1>4, OneElement
<1> QED
  BY <1>2, <1>3, <1>4, <1>5

LEMMA PmAnswerStep ==
  ASSUME IInv, NEW r \in Rank, PmAnswer(r)
  PROVE  IInv'
<1> DEFINE resp == [name |-> Answer[cmd[r]], rc |-> PmRc(r, cmd[r]), val |-> PmVal(r, cmd[r])]
<1>1. toPm[r] # <<>>
  BY DEF PmAnswer
<1>2. /\ cmd[r] \in Cmds /\ phase[r] = "read" /\ Head(toPm[r]) = cmd[r] /\ Tail(toPm[r]) = <<>>
      /\ toClient[r] = <<>> /\ r \notin inBarrier /\ PMI_fd[r] = "open" /\ pm = "up"
      /\ toPm \in [Rank -> Seq(Cmds)] /\ toClient \in [Rank -> Seq(Responses)]
  BY <1>1, Taken
<1>3. /\ cmd[r] # "barrier_in"
      /\ toClient' = [toClient EXCEPT ![r] = Append(@, resp)]
      /\ toPm' = [toPm EXCEPT ![r] = Tail(@)]
      /\ kvs' = IF cmd[r] = "put" /\ PmRc(r, cmd[r]) = PMI_SUCCESS THEN [kvs EXCEPT ![r] = r] ELSE kvs
      /\ published' \in {published, published \cup {r}, published \ {r}}
      /\ UNCHANGED <<launched, versionOk, program, pc, alive, PMI_initialized, PMI_fd, maxes, cmd, phase, ret, pm, inBarrier>>
      /\ UNCHANGED <<called, passed>>
  BY <1>2, Zenon DEF PmAnswer, jobVars, stateVars, callVars, countVars
<1>4. resp \in Responses
  <2>1. PmRc(r, cmd[r]) \in {PMI_SUCCESS, PMI_FAIL}
    BY DEF PmRc
  <2>2. (r + 1) % Size \in Rank
    BY PmiAssumption DEF Rank
  <2>3. PmVal(r, cmd[r]) \in Rank \cup {None}
    BY <2>2 DEF PmVal, Partner
  <2> QED
    BY <1>2, <2>1, <2>3 DEF Responses
<1>5. resp.name = Answer[cmd[r]]
  OBVIOUS
<1> HIDE DEF resp
<1>6. Append(toClient[r], resp) = <<resp>> /\ <<resp>> \in Seq(Responses)
      /\ Len(<<resp>>) = 1 /\ <<resp>>[1] = resp
  BY <1>2, <1>4, OneElement
<1>7. /\ toPm' \in [Rank -> Seq(Cmds)] /\ toClient' \in [Rank -> Seq(Responses)]
      /\ toPm'[r] = <<>> /\ toClient'[r] = <<resp>>
      /\ \A q \in Rank \ {r} : toPm'[q] = toPm[q] /\ toClient'[q] = toClient[q]
  <2>1. <<>> \in Seq(Cmds)
    OBVIOUS
  <2> QED
    BY <1>2, <1>3, <1>6, <2>1, Zenon
<1>8. TypeOK'
  <2>1. TypeOK
    BY DEF IInv
  <2>2. kvs' \in [Keys -> Rank \cup {None}] /\ published' \subseteq Rank
    BY <1>3, <2>1 DEF TypeOK, Keys
  <2> QED
    BY <1>3, <1>7, <2>1, <2>2, ZenonT(30) DEF TypeOK
<1>9. InStepOf(r)' /\ InCallOf(r)'
  <2>1. InCallOf(r)
    BY Here
  <2>2. InCallOf(r)'
    BY <1>3, <2>1, ZenonT(30) DEF InCallOf, Finished, Op
  <2>3. InStepOf(r)'
    BY <1>2, <1>3, <1>5, <1>6, <1>7, ZenonT(30) DEF InStepOf
  <2> QED
    BY <2>2, <2>3
<1>10. Released(r)' = Released(r) /\ Waiting(r)' = Waiting(r)
  BY <1>3, ZenonT(30) DEF Released, Waiting
<1>11. Local(r)
  BY <1>3, <1>9, <1>10, Here, ZenonT(30) DEF Local
<1>12. Frame(r)
  BY <1>3, <1>7 DEF Frame
<1> QED
  BY <1>8, <1>11, <1>12, LocalSuffices
(* A barrier_in is noted, or an abort ends the job. *)
LEMMA PmTakeStep ==
  ASSUME IInv, NEW r \in Rank, PmBarrierIn(r) \/ PmAbort(r)
  PROVE  IInv'
<1>1. toPm[r] # <<>>
  BY DEF PmBarrierIn, PmAbort
<1>2. /\ cmd[r] \in Cmds /\ phase[r] = "read" /\ Head(toPm[r]) = cmd[r] /\ Tail(toPm[r]) = <<>>
      /\ toClient[r] = <<>> /\ r \notin inBarrier /\ PMI_fd[r] = "open" /\ pm = "up"
      /\ toPm \in [Rank -> Seq(Cmds)] /\ toClient \in [Rank -> Seq(Responses)]
  BY <1>1, Taken
<1>3. /\ UNCHANGED <<launched, versionOk, program, pc, PMI_initialized, PMI_fd, maxes, cmd, phase, ret, pm>>
      /\ UNCHANGED <<toClient, kvs, published, called, passed>>
      /\ toPm' = [toPm EXCEPT ![r] = Tail(@)]
      /\ \/ inBarrier' = inBarrier
         \/ inBarrier' = inBarrier \cup {r} /\ cmd[r] = "barrier_in"
      /\ alive' = alive \/ alive' = [q \in Rank |-> FALSE]
  BY <1>2 DEF PmBarrierIn, PmAbort, jobVars, stateVars, callVars, pmVars, countVars
<1>4. /\ toPm' \in [Rank -> Seq(Cmds)] /\ toPm'[r] = <<>>
      /\ \A q \in Rank \ {r} : toPm'[q] = toPm[q]
  <2>1. <<>> \in Seq(Cmds)
    OBVIOUS
  <2> QED
    BY <1>2, <1>3, <2>1, Zenon
<1>5. TypeOK'
  <2>1. TypeOK
    BY DEF IInv
  <2>2. inBarrier' \subseteq Rank /\ alive' \in [Rank -> BOOLEAN]
    BY <1>3, <2>1, ZenonT(30) DEF TypeOK
  <2> QED
    BY <1>3, <1>4, <2>1, <2>2, ZenonT(30) DEF TypeOK
<1>6. InCallOf(r)'
  <2>1. InCallOf(r)
    BY Here
  <2> QED
    BY <1>3, <2>1, ZenonT(30) DEF InCallOf, Finished, Op
<1>7. InStepOf(r)'
  BY <1>2, <1>3, <1>4 DEF InStepOf
<1>8. Released(r)' = Released(r) /\ Waiting(r)' = Waiting(r)
  BY <1>3, ZenonT(30) DEF Released, Waiting
<1>9. Local(r)
  BY <1>3, <1>6, <1>7, <1>8, Here, ZenonT(30) DEF Local
<1>10. Frame(r)
  BY <1>3, <1>4, ZenonT(30) DEF Frame
<1> QED
  BY <1>5, <1>9, <1>10, LocalSuffices

(* All processes are in the barrier and are let out: everybody is owed one *)
(* more successful return.                                                 *)
LEMMA PmBarrierOutStep ==
  ASSUME IInv, PmBarrierOut
  PROVE  IInv'
<1> DEFINE out == [name |-> "barrier_out", rc |-> PMI_SUCCESS, val |-> None]
<1>1. /\ inBarrier = Rank /\ inBarrier' = {} /\ pm = "up"
      /\ toClient' = [r \in Rank |-> Append(toClient[r], out)]
      /\ UNCHANGED <<launched, versionOk, program, pc, alive, PMI_initialized, PMI_fd, maxes, cmd, phase, ret, pm>>
      /\ UNCHANGED <<toPm, kvs, published, called, passed>>
  BY DEF PmBarrierOut, jobVars, stateVars, callVars, countVars
<1>2. out \in Responses /\ out.name = Answer["barrier_in"]
  BY CommandFacts DEF Responses
<1> HIDE DEF out
<1>3. ASSUME NEW r \in Rank
      PROVE  /\ phase[r] = "read" /\ cmd[r] = "barrier_in" /\ toPm[r] = <<>> /\ toClient[r] = <<>>
             /\ Append(toClient[r], out) = <<out>> /\ <<out>> \in Seq(Responses)
             /\ toClient'[r] = <<out>> /\ Len(<<out>>) = 1 /\ <<out>>[1] = out /\ <<out>> # <<>>
  <2>1. InStepOf(r)
    BY Here
  <2>2. phase[r] = "read" /\ cmd[r] = "barrier_in" /\ toPm[r] = <<>> /\ toClient[r] = <<>>
    BY <1>1, <2>1 DEF InStepOf
  <2> QED
    BY <1>1, <1>2, <2>2, OneElement, Zenon
<1>4. TypeOK'
  <2>1. TypeOK
    BY DEF IInv
  <2>2. toClient' \in [Rank -> Seq(Responses)]
    BY <1>1, <1>3, Zenon
  <2> QED
    BY <1>1, <2>1, <2>2 DEF TypeOK
<1>5. InCall'
  BY <1>1, Zenon DEF IInv, InCall, InCallOf, Finished, Op
<1>6. InStep'
  BY <1>1, <1>2, <1>3 DEF InStep, InStepOf
<1>7. ASSUME NEW r \in Rank
      PROVE  Released(r) = 0 /\ Released(r)' = 1 /\ Waiting(r)' = Waiting(r)
  BY <1>1, <1>3, <1>7 DEF Released, Waiting
<1>8. Rounds'
  <2> SUFFICES ASSUME NEW r \in Rank, NEW q \in Rank
               PROVE  /\ passed'[r] + Released(r)' = passed'[q] + Released(q)'
                      /\ called'[r] >= passed'[r] + Waiting(r)'
    BY DEF Rounds
  <2>1. /\ passed[r] + Released(r) = passed[q] + Released(q)
        /\ called[r] >= passed[r] + Waiting(r) /\ passed[r] \in Nat /\ passed[q] \in Nat
    BY Here DEF IInv, Rounds
  <2> QED
    BY <1>1, <1>7, <2>1
<1> QED
  BY <1>4, <1>5, <1>6, <1>8 DEF IInv

LEMMA PmCrashStep ==
  ASSUME IInv, PmCrash
  PROVE  IInv'
<1>1. /\ pm' = "down" /\ toPm' = [r \in Rank |-> <<>>] /\ inBarrier' = {}
      /\ UNCHANGED <<launched, versionOk, program, pc, alive, PMI_initialized, PMI_fd, maxes, cmd, phase, ret>>
      /\ UNCHANGED <<toClient, kvs, published, called, passed>>
  BY DEF PmCrash, jobVars, stateVars, callVars, countVars
<1>2. TypeOK'
  <2>1. toPm' \in [Rank -> Seq(Cmds)]
    BY <1>1
  <2> QED
    BY <1>1, <2>1 DEF IInv, TypeOK
<1>3. InCall'
  BY <1>1, Zenon DEF IInv, InCall, InCallOf, Finished, Op
<1>4. InStep'
  BY <1>1 DEF IInv, InStep, InStepOf
<1>5. Rounds'
  BY <1>1, Zenon DEF IInv, Rounds, Released, Waiting
<1> QED
  BY <1>2, <1>3, <1>4, <1>5 DEF IInv

-----------------------------------------------------------------------------
LEMMA InitInv == Init => IInv
<1> SUFFICES ASSUME Init PROVE IInv
  OBVIOUS
<1>1. TypeOK
  <2>1. \A r \in Rank : pc[r] <= Len(program[r]) + 1
    <3> SUFFICES ASSUME NEW r \in Rank PROVE pc[r] <= Len(program[r]) + 1
      OBVIOUS
    <3>1. program[r] \in Seq(Ops) /\ pc[r] = 1
      BY PmiAssumption DEF Init
    <3>2. Len(program[r]) \in Nat
      BY <3>1
    <3> QED
      BY <3>1, <3>2
  <2>2. <<>> \in Seq(Cmds) /\ <<>> \in Seq(Responses)
    OBVIOUS
  <2> QED
    BY <2>1, <2>2 DEF Init, TypeOK
<1>2. InCall
  BY ZenonT(30) DEF Init, InCall, InCallOf
<1>3. InStep
  BY DEF Init, InStep, InStepOf
<1>4. Rounds
  BY DEF Init, Rounds, Released, Waiting
<1> QED
  BY <1>1, <1>2, <1>3, <1>4 DEF IInv

LEMMA NextInv == IInv /\ [Next]_vars => IInv'
<1> SUFFICES ASSUME IInv, [Next]_vars PROVE IInv'
  OBVIOUS
<1>1. ASSUME NEW r \in Rank, ClientStep(r) PROVE IInv'
  BY <1>1, StartStep, CallStep, WriteStep, FailStep, ReadLineStep, SigpipeStep DEF ClientStep
<1>2. CASE PmStep
  BY <1>2, PmAnswerStep, PmTakeStep, PmBarrierOutStep DEF PmStep
<1>3. CASE PmCrash
  BY <1>3, PmCrashStep
<1>4. CASE UNCHANGED vars
  <2>1. UNCHANGED <<program, pc, cmd, phase, PMI_fd, toPm, toClient, inBarrier, pm, called, passed>>
    BY <1>4 DEF vars, jobVars, stateVars, callVars, wireVars, pmVars, countVars
  <2>2. UNCHANGED <<launched, versionOk, alive, PMI_initialized, maxes, ret, kvs, published>>
    BY <1>4 DEF vars, jobVars, stateVars, callVars, wireVars, pmVars, countVars
  <2>3. TypeOK'
    BY <2>1, <2>2 DEF IInv, TypeOK
  <2> QED
    BY <2>1, <2>3, StillStep
<1> QED
  BY <1>1, <1>2, <1>3, <1>4 DEF Next, Over

(* IInv holds in every state the clients and the process manager reach,    *)
(* for any number of processes and any programs.                           *)
THEOREM Invariance == Spec => []IInv
  BY InitInv, NextInv, PTL DEF Spec

(* GetResponse never reads the answer to an earlier request, however many  *)
(* calls have failed and whenever the process manager dies.                *)
THEOREM StaysInStep == Spec => []InStep
<1>1. IInv => InStep
  BY ZenonT(30) DEF IInv
<1> QED
  BY <1>1, Invariance, PTL

(* A PMI_Barrier that returns PMI_SUCCESS has been called by all processes *)
(* as often as by the caller: no process is past a barrier, successfully,  *)
(* that another has not reached.                                           *)
THEOREM BarrierSeparates == Spec => []BarrierHolds
<1>1. IInv => BarrierHolds
  <2> SUFFICES ASSUME IInv, NEW r \in Rank, NEW q \in Rank PROVE passed[r] <= called[q]
    BY DEF BarrierHolds
  <2>1. /\ passed[r] + Released(r) = passed[q] + Released(q)
        /\ called[q] >= passed[q] + Waiting(q)
    BY DEF IInv, Rounds
  <2>2. /\ passed[r] \in Nat /\ passed[q] \in Nat /\ called[q] \in Nat
        /\ InStepOf(q) /\ InCallOf(q)
    BY Here, ZenonT(30)
  <2>3. Released(q) <= Waiting(q) /\ Released(q) \in Nat /\ Waiting(q) \in Nat /\ Released(r) \in Nat
    BY <2>2 DEF Released, Waiting, InStepOf
  <2> QED
    BY <2>1, <2>2, <2>3
<1> QED
  BY <1>1, Invariance, PTL

-----------------------------------------------------------------------------
(* The exchange of values: programs that call PMI_Init first and once, and *)
(* nothing after PMI_Finalize.                                             *)

(* Barriers counts the barriers of a program up to a call.  The proofs of  *)
(* the exchange assume this much of it; BarriersFacts below proves it.     *)
BarriersGrow ==
  \A p : \A i \in Nat :
    /\ Barriers(p, i) \in Nat /\ Barriers(p, 0) = 0
    /\ Barriers(p, i + 1) = Barriers(p, i) + (IF p[i + 1] = "PMI_Barrier" THEN 1 ELSE 0)
    /\ \A k \in Nat : k <= i => Barriers(p, k) <= Barriers(p, i)

LEMMA PartnerInRank ==
  ASSUME NEW r \in Rank
  PROVE  Partner(r) \in Rank /\ Partner(r) # None /\ r # None
<1>1. (r + 1) % Size \in Rank
  BY PmiAssumption DEF Rank
<1> QED
  BY <1>1, PmiAssumption DEF Partner, Rank

(* The call a process is in, in such a program. *)
LEMMA OpConventional ==
  ASSUME Conventional, IInv, NEW r \in Rank, ~Finished(r)
  PROVE  /\ pc[r] \in 1 .. Len(program[r]) /\ Op(r) \in Ops
         /\ Op(r) = "PMI_Init" <=> pc[r] = 1
         /\ Op(r) = "PMI_Finalize" => pc[r] = Len(program[r])
<1>1. TypeOK /\ pc[r] \in Nat \ {0} /\ Len(program[r]) \in Nat
  BY Here
<1>2. pc[r] \in 1 .. Len(program[r])
  BY <1>1 DEF Finished
<1>3. program[r] \in Programs
  BY <1>1, Zenon DEF TypeOK
<1>4. Op(r) \in Ops
  BY <1>1, OpInOps
<1> QED
  BY <1>2, <1>3, <1>4, Zenon DEF Conventional, Op

(* The command says whether the call is a barrier, a put or a get. *)
LEMMA CommandOf ==
  ASSUME IInv, NEW r \in Rank, phase[r] # "idle"
  PROVE  /\ ~Finished(r) /\ Op(r) \in Ops
         /\ cmd[r] = "barrier_in" <=> Op(r) = "PMI_Barrier"
         /\ cmd[r] \in InitCmds \cup {"init"} <=> Op(r) = "PMI_Init"
         /\ Op(r) = "PMI_KVS_Put" => cmd[r] = "put"
         /\ Op(r) = "PMI_KVS_Get" <=> cmd[r] = "get"
<1>1. TypeOK /\ InCallOf(r)
  BY Here
<1>2. ~Finished(r) /\ (cmd[r] = Request[Op(r)] \/ (cmd[r] \in InitCmds /\ Op(r) = "PMI_Init"))
  BY <1>1, Zenon DEF InCallOf
<1>3. Op(r) \in Ops
  BY <1>1, <1>2, OpInOps
<1>4. cmd[r] = "barrier_in" <=> Op(r) = "PMI_Barrier"
  BY <1>2, <1>3, RequestFacts, CommandFacts
<1>5. cmd[r] \in InitCmds \cup {"init"} <=> Op(r) = "PMI_Init"
  BY <1>2, <1>3, RequestFacts
<1>6. Request["PMI_KVS_Put"] = "put" /\ "PMI_Init" # "PMI_KVS_Put"
  BY DEF Request, Ops, PutOps, NameOps, QuietOps
<1>7. Op(r) = "PMI_KVS_Put" => cmd[r] = "put"
  BY <1>2, <1>6, Zenon
<1>8. Request[Op(r)] = "get" <=> Op(r) = "PMI_KVS_Get"
  BY <1>3 DEF Request, Ops, NameOps, QuietOps, PutOps
<1>9. "get" \notin InitCmds
  BY DEF InitCmds
<1>10. Op(r) = "PMI_KVS_Get" <=> cmd[r] = "get"
  <2>1. ASSUME Op(r) = "PMI_KVS_Get" PROVE cmd[r] = "get"
    BY <1>2, <1>8, <2>1
  <2>2. ASSUME cmd[r] = "get" PROVE Op(r) = "PMI_KVS_Get"
    BY <1>2, <1>8, <1>9, <2>2
  <2> QED
    BY <2>1, <2>2
<1> QED
  BY <1>2, <1>3, <1>4, <1>5, <1>7, <1>10, Zenon

(* A process that no step has moved keeps its part of ExchangeInv, also    *)
(* when the PM dies.                                                       *)
LEMMA ExchangeFrame ==
  ASSUME NEW r \in Rank, ExchangeOf(r), UNCHANGED <<launched, program>>,
         pm' = pm \/ pm' = "down",
         pc'[r] = pc[r], cmd'[r] = cmd[r], phase'[r] = phase[r], ret'[r] = ret[r],
         PMI_initialized'[r] = PMI_initialized[r], PMI_fd'[r] = PMI_fd[r],
         toClient'[r] = toClient[r], kvs'[r] = kvs[r],
         called'[r] = called[r], passed'[r] = passed[r]
  PROVE  ExchangeOf(r)'
<1>1. Waiting(r)' = Waiting(r)
  BY Zenon DEF Waiting
<1>2. Attached(r)'
  BY Zenon DEF ExchangeOf, Attached
<1>3. Counted(r)'
  BY <1>1, Zenon DEF ExchangeOf, Counted, Barriers
<1>4. pm' = "up" => pm = "up"
  OBVIOUS
<1>5. Stored(r)'
  BY <1>4, Zenon DEF ExchangeOf, Stored
<1>6. PutsBefore(Partner(r), passed[r])' = PutsBefore(Partner(r), passed[r])
  BY Zenon DEF PutsBefore, Barriers, Partner
<1>7. Found(r)'
  BY <1>4, <1>6, Zenon DEF ExchangeOf, Found, Partner
<1>8. GivenUp(r)'
  BY <1>1, Zenon DEF ExchangeOf, GivenUp
<1> QED
  BY <1>2, <1>3, <1>5, <1>7, <1>8, Zenon DEF ExchangeOf

(* A call of process r returns rc and v, having left this true: the value  *)
(* put is in the kvs, the value got is the partner's if it was put before  *)
(* the last barrier, and only a barrier moves passed.                      *)
Returning(r, rc, v) ==
  /\ UNCHANGED <<launched, program, pm>> /\ Return(r, rc, v)
  /\ called'[r] = called[r] /\ kvs'[r] = kvs[r] /\ toClient'[r] = <<>> /\ passed'[r] \in Nat
  /\ launched => /\ PMI_initialized'[r] # "singleton"
                 /\ Op(r) # "PMI_Finalize" => PMI_fd'[r] = "open"
  /\ ~launched => PMI_initialized'[r] # "normal"
  /\ launched /\ pm = "up" /\ Op(r) = "PMI_KVS_Put" => kvs[r] # None
  /\ Op(r) = "PMI_KVS_Get" /\ pm = "up" /\ PutsBefore(Partner(r), passed[r])
       => rc = PMI_SUCCESS /\ v = Partner(r)
  /\ Op(r) # "PMI_Barrier" => passed'[r] = passed[r]
  /\ pm = "up" => called[r] <= passed'[r]

LEMMA ReturnExchange ==
  ASSUME Conventional, BarriersGrow, IInv, NEW r \in Rank, ExchangeOf(r), ~Finished(r),
         NEW rc, NEW v, Returning(r, rc, v)
  PROVE  ExchangeOf(r)'
<1>0. /\ launched' = launched /\ program' = program /\ pm' = pm /\ Return(r, rc, v)
      /\ called'[r] = called[r] /\ kvs'[r] = kvs[r] /\ toClient'[r] = <<>> /\ passed'[r] \in Nat
  BY Zenon DEF Returning
<1>1. /\ TypeOK /\ pc[r] \in 1 .. Len(program[r]) /\ Len(program[r]) \in Nat /\ called[r] \in Nat
      /\ Op(r) = "PMI_Finalize" => pc[r] = Len(program[r])
  BY Here, OpConventional, Zenon
<1>2. Attached(r) /\ Counted(r) /\ Stored(r)
  BY Zenon DEF ExchangeOf
<1>3. /\ ret'[r] = [op |-> Op(r), rc |-> rc, val |-> v] /\ pc'[r] = pc[r] + 1
      /\ cmd'[r] = "none" /\ phase'[r] = "idle"
  BY <1>0, <1>1, Zenon DEF Return, TypeOK
<1>4. Waiting(r)' = 0
  BY <1>3, Zenon DEF Waiting
<1>5. Attached(r)'
  <2>1. ASSUME Op(r) = "PMI_Finalize" PROVE pc'[r] \notin 2 .. Len(program[r])
    BY <1>1, <1>3, <2>1, PastLast, Zenon
  <2>2. /\ launched => /\ PMI_initialized'[r] # "singleton"
                       /\ Op(r) # "PMI_Finalize" => PMI_fd'[r] = "open"
        /\ ~launched => PMI_initialized'[r] # "normal"
    BY Zenon DEF Returning
  <2> QED
    BY <1>0, <1>2, <1>3, <2>1, <2>2, Zenon DEF Attached
<1>6. Counted(r)'
  <2> DEFINE p == program[r]
  <2>1. /\ Barriers(p, pc[r] - 1) \in Nat
        /\ Barriers(p, pc[r]) = Barriers(p, pc[r] - 1) + (IF Op(r) = "PMI_Barrier" THEN 1 ELSE 0)
    <3>1. pc[r] - 1 \in Nat /\ (pc[r] - 1) + 1 = pc[r]
      BY <1>1, CallIndex, Zenon
    <3> QED
      BY <3>1, Zenon DEF BarriersGrow, Op
  <2>2. Waiting(r) = 0 \/ (Waiting(r) = 1 /\ Op(r) = "PMI_Barrier")
    BY CommandOf, Zenon DEF Waiting
  <2>3. called[r] <= Barriers(p, pc[r] - 1) + Waiting(r)
    BY <1>2, Zenon DEF Counted
  <2>4. called[r] <= Barriers(p, pc[r]) + 0
    BY <1>1, <2>1, <2>2, <2>3, CountedSoFar, Zenon
  <2>5. called'[r] <= Barriers(p, pc'[r] - 1) + Waiting(r)'
    <3>1. pc'[r] - 1 = pc[r]
      BY <1>1, <1>3, CallIndex, Zenon
    <3> QED
      BY <1>0, <1>4, <2>4, <3>1, Zenon
  <2> QED
    BY <1>0, <2>5, Zenon DEF Counted, Barriers
<1>7. Stored(r)'
  <2>1. ASSUME launched, pm = "up", NEW i \in 1 .. pc'[r] - 1, program[r][i] = "PMI_KVS_Put"
        PROVE  kvs[r] # None
    <3>1. i \in 1 .. pc[r] - 1 \/ i = pc[r]
      BY <1>1, <1>3, CallsBefore, Zenon
    <3>2. Op(r) = "PMI_KVS_Put" => kvs[r] # None
      BY <2>1, Zenon DEF Returning
    <3> QED
      BY <1>2, <2>1, <3>1, <3>2, Zenon DEF Stored, Op
  <2> QED
    BY <1>0, <1>3, <2>1, Zenon DEF Stored
<1>8. Found(r)'
  <2>1. ASSUME pm = "up", PutsBefore(Partner(r), passed'[r]), Op(r) = "PMI_KVS_Get"
        PROVE  rc = PMI_SUCCESS /\ v = Partner(r)
    <3>1. Op(r) # "PMI_Barrier"
      BY <2>1
    <3> QED
      BY <2>1, <3>1, Zenon DEF Returning
  <2>2. PutsBefore(Partner(r), passed[r])' = PutsBefore(Partner(r), passed'[r])
    BY <1>0, Zenon DEF PutsBefore, Barriers, Partner
  <2>3. ret'[r].op = Op(r) /\ ret'[r].rc = rc /\ ret'[r].val = v
    <3> DEFINE x == [op |-> Op(r), rc |-> rc, val |-> v]
    <3>1. x.op = Op(r) /\ x.rc = rc /\ x.val = v
      BY Fields, Zenon
    <3>2. ret'[r] = x
      BY <1>3, Zenon
    <3> HIDE DEF x
    <3> QED
      BY <3>1, <3>2, Zenon
  <2> QED
    BY <1>0, <1>3, <2>1, <2>2, <2>3, Zenon DEF Found, Partner
<1>9. GivenUp(r)'
  <2>1. pm = "up" \/ pm = "down"
    BY <1>1, Zenon DEF TypeOK
  <2>2. ASSUME pm = "up" PROVE ~(called'[r] > passed'[r] + Waiting(r)')
    <3>1. called[r] <= passed'[r]
      BY <2>2, Zenon DEF Returning
    <3> QED
      BY <1>0, <1>1, <1>4, <3>1, NoneAhead, Zenon
  <2> QED
    BY <1>0, <2>1, <2>2, Zenon DEF GivenUp
<1> QED
  BY <1>5, <1>6, <1>7, <1>8, <1>9, Zenon DEF ExchangeOf

(* A GetResponse of process r starts: only a barrier moves called. *)
Asking(r, c) ==
  /\ UNCHANGED <<launched, program, pm>> /\ Ask(r, c)
  /\ kvs'[r] = kvs[r] /\ toClient'[r] = <<>> /\ passed'[r] = passed[r]
  /\ called'[r] = called[r] + (IF c = "barrier_in" THEN 1 ELSE 0)
  /\ pm = "up" => called[r] <= passed[r]
  /\ launched => PMI_initialized'[r] # "singleton" /\ PMI_fd'[r] = "open"
  /\ ~launched => PMI_initialized'[r] # "normal" /\ c # "barrier_in" /\ pc[r] # 1

LEMMA AskExchange ==
  ASSUME BarriersGrow, IInv, NEW r \in Rank, ExchangeOf(r), ~Finished(r), Waiting(r) = 0, NEW c, Asking(r, c)
  PROVE  ExchangeOf(r)'
<1>0. /\ launched' = launched /\ program' = program /\ pm' = pm /\ Ask(r, c)
      /\ kvs'[r] = kvs[r] /\ toClient'[r] = <<>> /\ passed'[r] = passed[r]
      /\ called'[r] = called[r] + (IF c = "barrier_in" THEN 1 ELSE 0)
  BY Zenon DEF Asking
<1>1. TypeOK /\ called[r] \in Nat /\ passed[r] \in Nat /\ pc[r] \in Nat \ {0}
  BY Here, Zenon
<1>2. Attached(r) /\ Counted(r) /\ Stored(r) /\ Found(r)
  BY Zenon DEF ExchangeOf
<1>3. cmd'[r] = c /\ phase'[r] = "write" /\ pc' = pc /\ ret' = ret
  BY <1>0, <1>1, Zenon DEF Ask, TypeOK
<1>4. Waiting(r)' = (IF c = "barrier_in" THEN 1 ELSE 0) /\ Waiting(r)' \in Nat
  <2>1. Waiting(r)' = IF c = "barrier_in" THEN 1 ELSE 0
    BY <1>3, Zenon DEF Waiting
  <2> QED
    BY <2>1, ZeroOne, Zenon
<1>5. Attached(r)'
  <2>1. /\ launched => PMI_initialized'[r] # "singleton" /\ PMI_fd'[r] = "open"
        /\ ~launched => PMI_initialized'[r] # "normal" /\ c # "barrier_in" /\ pc[r] # 1
    BY Zenon DEF Asking
  <2>2. ASSUME ~launched PROVE called'[r] = 0
    <3>1. called[r] = 0 /\ c # "barrier_in"
      BY <1>2, <2>1, <2>2, Zenon DEF Attached
    <3>2. called'[r] = 0 + 0
      BY <1>0, <3>1, Zenon
    <3> QED
      BY <3>2, CountUp, Zenon
  <2> QED
    BY <1>0, <1>2, <1>3, <2>1, <2>2, Zenon DEF Attached
<1>6. Counted(r)'
  <2>1. pc[r] - 1 \in Nat
    BY <1>1
  <2>2. Barriers(program[r], pc[r] - 1) \in Nat
    BY <2>1, Zenon DEF BarriersGrow
  <2>3. called'[r] <= Barriers(program[r], pc[r] - 1) + Waiting(r)'
    <3>1. called[r] <= Barriers(program[r], pc[r] - 1) + 0
      BY <1>2, Zenon DEF Counted
    <3>2. called[r] + Waiting(r)' <= Barriers(program[r], pc[r] - 1) + Waiting(r)'
      BY <1>1, <1>4, <2>2, <3>1, CountedAlong, Zenon
    <3>3. called'[r] = called[r] + Waiting(r)'
      BY <1>0, <1>4, Zenon
    <3> QED
      BY <3>2, <3>3, Zenon
  <2> QED
    BY <1>0, <1>3, <2>3, Zenon DEF Counted, Barriers
<1>7. Stored(r)'
  BY <1>0, <1>2, <1>3, Zenon DEF Stored
<1>8. Found(r)'
  <2>1. PutsBefore(Partner(r), passed[r])' = PutsBefore(Partner(r), passed[r])
    BY <1>0, Zenon DEF PutsBefore, Barriers, Partner
  <2> QED
    BY <1>0, <1>2, <1>3, <2>1, Zenon DEF Found, Partner
<1>9. GivenUp(r)'
  <2>1. pm = "up" \/ pm = "down"
    BY <1>1, Zenon DEF TypeOK
  <2>2. ASSUME pm = "up" PROVE ~(called'[r] > passed'[r] + Waiting(r)')
    <3>1. called[r] <= passed[r]
      BY <2>2, Zenon DEF Asking
    <3>2. called'[r] = called[r] + Waiting(r)' /\ passed'[r] = passed[r]
      BY <1>0, <1>4, Zenon
    <3>3. ~(called[r] + Waiting(r)' > passed[r] + Waiting(r)')
      BY <1>1, <1>4, <3>1, OneAhead, Zenon
    <3> QED
      BY <3>2, <3>3, Zenon
  <2> QED
    BY <1>0, <2>1, <2>2, Zenon DEF GivenUp
<1> QED
  BY <1>5, <1>6, <1>7, <1>8, <1>9, Zenon DEF ExchangeOf

(* What a step of process r leaves alone. *)
OthersStay(r) ==
  /\ UNCHANGED <<launched, program, pm>>
  /\ \A q \in Rank \ {r} :
       /\ pc'[q] = pc[q] /\ cmd'[q] = cmd[q] /\ phase'[q] = phase[q] /\ ret'[q] = ret[q]
       /\ PMI_initialized'[q] = PMI_initialized[q] /\ PMI_fd'[q] = PMI_fd[q]
       /\ toClient'[q] = toClient[q] /\ kvs'[q] = kvs[q]
       /\ called'[q] = called[q] /\ passed'[q] = passed[q]

LEMMA ReturnOthers ==
  ASSUME TypeOK, NEW r \in Rank, NEW rc, NEW v, Return(r, rc, v)
  PROVE  \A q \in Rank \ {r} : /\ pc'[q] = pc[q] /\ cmd'[q] = cmd[q]
                               /\ phase'[q] = phase[q] /\ ret'[q] = ret[q]
BY Zenon DEF Return, TypeOK

LEMMA ExchangeSuffices ==
  ASSUME ExchangeInv, NEW r \in Rank, OthersStay(r), ExchangeOf(r)'
  PROVE  ExchangeInv'
<1> SUFFICES ASSUME NEW q \in Rank PROVE ExchangeOf(q)'
  BY Zenon DEF ExchangeInv
<1>1. CASE q = r
  BY <1>1, Zenon
<1>2. CASE q # r
  <2>1. ExchangeOf(q)
    BY Zenon DEF ExchangeInv
  <2> QED
    BY <1>2, <2>1, ExchangeFrame, Zenon DEF OthersStay
<1> QED
  BY <1>1, <1>2, Zenon

(* A process between two calls. *)
LEMMA IdleFacts ==
  ASSUME Conventional, IInv, ExchangeInv, NEW r \in Rank, Ready(r)
  PROVE  /\ ExchangeOf(r) /\ ~Finished(r) /\ Waiting(r) = 0 /\ toClient[r] = <<>>
         /\ pm = "up" => called[r] <= passed[r]
         /\ called[r] \in Nat /\ passed[r] \in Nat
         /\ launched => PMI_initialized[r] # "singleton" /\ (Op(r) # "PMI_Init" => PMI_fd[r] = "open")
         /\ ~launched => PMI_initialized[r] # "normal"
<1>1. phase[r] = "idle" /\ ~Finished(r)
  BY Zenon DEF Ready
<1>2. ExchangeOf(r) /\ Attached(r) /\ GivenUp(r)
  BY Zenon DEF ExchangeInv, ExchangeOf
<1>3. Waiting(r) = 0
  BY <1>1, Zenon DEF Waiting
<1>4. toClient[r] = <<>>
  <2>1. phase[r] # "read"
    BY <1>1
  <2> QED
    BY <2>1, Silent, Zenon
<1>5. called[r] \in Nat /\ passed[r] \in Nat
  BY Here, Zenon
<1>6. ASSUME pm = "up" PROVE called[r] <= passed[r]
  BY <1>2, <1>3, <1>5, <1>6 DEF GivenUp
<1>7. ASSUME launched, Op(r) # "PMI_Init" PROVE PMI_fd[r] = "open"
  <2>1. pc[r] \in 1 .. Len(program[r]) /\ pc[r] # 1 /\ Len(program[r]) \in Nat
    BY <1>1, <1>7, OpConventional, Here, Zenon
  <2>2. pc[r] \in 2 .. Len(program[r])
    BY <2>1
  <2> QED
    BY <1>2, <1>7, <2>2, Zenon DEF Attached
<1> QED
  BY <1>1, <1>2, <1>3, <1>4, <1>5, <1>6, <1>7, Zenon DEF Attached

(* A call that does not reach the PM. *)
LEMMA LocalExchange ==
  ASSUME Conventional, BarriersGrow, IInv, ExchangeInv, NEW r \in Rank, CallLocal(r) \/ InitSingleton(r)
  PROVE  ExchangeInv'
<1>1. /\ Ready(r) /\ UNCHANGED <<launched, program, pm, kvs, toClient, called, passed>>
      /\ \E rc \in {PMI_SUCCESS, PMI_FAIL} : Return(r, rc, None)
  BY Zenon DEF CallLocal, InitSingleton, LocalRc, jobVars, wireVars, pmVars, countVars
<1>2. PICK rc \in {PMI_SUCCESS, PMI_FAIL} : Return(r, rc, None)
  BY <1>1, Zenon
<1>3. TypeOK
  BY DEF IInv
<1>4. OthersStay(r)
  <2>1. \A q \in Rank \ {r} : PMI_initialized'[q] = PMI_initialized[q] /\ PMI_fd'[q] = PMI_fd[q]
    BY <1>3, Zenon DEF CallLocal, InitSingleton, stateVars, TypeOK
  <2> QED
    BY <1>1, <1>2, <1>3, <2>1, ReturnOthers, Zenon DEF OthersStay
<1>5. /\ ExchangeOf(r) /\ ~Finished(r) /\ toClient[r] = <<>> /\ (pm = "up" => called[r] <= passed[r])
      /\ passed[r] \in Nat
      /\ launched => PMI_initialized[r] # "singleton" /\ (Op(r) # "PMI_Init" => PMI_fd[r] = "open")
      /\ ~launched => PMI_initialized[r] # "normal"
  BY <1>1, IdleFacts, Zenon
<1>6. CASE CallLocal(r)
  <2>1. UNCHANGED <<PMI_initialized, PMI_fd>> /\ IsLocal(Op(r), PMI_initialized[r])
    BY <1>6, Zenon DEF CallLocal, stateVars
  <2>2. Op(r) # "PMI_Init" /\ Op(r) # "PMI_KVS_Get"
        /\ (Op(r) = "PMI_KVS_Put" => PMI_initialized[r] = "singleton")
    BY <2>1 DEF IsLocal, QuietOps, NameOps, PutOps
  <2>3. Returning(r, rc, None)
    BY <1>1, <1>2, <1>5, <2>1, <2>2, ZenonT(30) DEF Returning
  <2>4. ExchangeOf(r)'
    BY <1>5, <2>3, ReturnExchange, Zenon
  <2> QED
    BY <1>4, <2>4, ExchangeSuffices, Zenon
<1>7. CASE InitSingleton(r)
  <2>1. /\ Op(r) = "PMI_Init" /\ ~launched /\ PMI_initialized' = [PMI_initialized EXCEPT ![r] = "singleton"]
    BY <1>7, Zenon DEF InitSingleton
  <2>2. Op(r) # "PMI_KVS_Put" /\ Op(r) # "PMI_KVS_Get" /\ PMI_initialized'[r] # "normal"
    BY <1>3, <2>1 DEF TypeOK
  <2>3. Returning(r, rc, None)
    BY <1>1, <1>2, <1>5, <2>1, <2>2, ZenonT(30) DEF Returning
  <2>4. ExchangeOf(r)'
    BY <1>5, <2>3, ReturnExchange, Zenon
  <2> QED
    BY <1>4, <2>4, ExchangeSuffices, Zenon
<1> QED
  BY <1>6, <1>7, Zenon

(* A call that sends a request. *)
LEMMA CallExchange ==
  ASSUME Conventional, BarriersGrow, IInv, ExchangeInv, NEW r \in Rank, Call(r) \/ InitLaunched(r)
  PROVE  ExchangeInv'
<1>1. Ready(r) /\ UNCHANGED <<launched, program, pm, kvs, toClient, passed>>
  BY Zenon DEF Call, InitLaunched, jobVars, wireVars, pmVars, countVars
<1>2. TypeOK /\ called \in [Rank -> Nat]
  BY Zenon DEF IInv, TypeOK
<1>3. /\ ExchangeOf(r) /\ ~Finished(r) /\ Waiting(r) = 0 /\ toClient[r] = <<>>
      /\ (pm = "up" => called[r] <= passed[r]) /\ called[r] \in Nat
      /\ launched => PMI_initialized[r] # "singleton" /\ (Op(r) # "PMI_Init" => PMI_fd[r] = "open")
      /\ ~launched => PMI_initialized[r] # "normal"
  BY <1>1, IdleFacts, Zenon
<1>4. Op(r) \in Ops /\ (Op(r) = "PMI_Init" <=> pc[r] = 1)
  BY <1>3, OpConventional, Zenon
<1>5. CASE Call(r)
  <2>1. /\ Ask(r, Request[Op(r)]) /\ Op(r) # "PMI_Init" /\ ~IsLocal(Op(r), PMI_initialized[r])
        /\ UNCHANGED <<PMI_initialized, PMI_fd>>
        /\ called' = IF Op(r) = "PMI_Barrier" THEN [called EXCEPT ![r] = @ + 1] ELSE called
    BY <1>5, Zenon DEF Call, stateVars
  <2>2. Request[Op(r)] = "barrier_in" <=> Op(r) = "PMI_Barrier"
    BY <1>4, RequestFacts, Zenon
  <2>3. /\ called'[r] = called[r] + (IF Request[Op(r)] = "barrier_in" THEN 1 ELSE 0)
        /\ \A q \in Rank \ {r} : called'[q] = called[q]
    <3>1. CASE Op(r) = "PMI_Barrier"
      BY <1>2, <2>1, <2>2, <3>1, Zenon
    <3>2. CASE Op(r) # "PMI_Barrier"
      <4>1. called' = called /\ called[r] + 0 = called[r]
        BY <1>3, <2>1, <3>2, CountUp, Zenon
      <4> QED
        BY <2>2, <3>2, <4>1, Zenon
    <3> QED
      BY <3>1, <3>2, Zenon
  <2>4. ~launched => Request[Op(r)] # "barrier_in"
    <3>1. ASSUME Op(r) = "PMI_Barrier", PMI_initialized[r] # "normal" PROVE FALSE
      BY <2>1, <3>1 DEF IsLocal, QuietOps
    <3> QED
      BY <1>3, <2>2, <3>1, Zenon
  <2>5. OthersStay(r)
    BY <1>1, <1>2, <2>1, <2>3, Zenon DEF OthersStay, Ask, TypeOK
  <2>6. Asking(r, Request[Op(r)])
    BY <1>1, <1>3, <1>4, <2>1, <2>3, <2>4, ZenonT(30) DEF Asking
  <2>7. ExchangeOf(r)'
    BY <1>3, <2>6, AskExchange, Zenon
  <2> QED
    BY <2>5, <2>7, ExchangeSuffices, Zenon
<1>6. CASE InitLaunched(r)
  <2>1. /\ Ask(r, "init") /\ launched /\ UNCHANGED called
        /\ PMI_initialized' = [PMI_initialized EXCEPT ![r] = "uninit"]
        /\ PMI_fd' = [PMI_fd EXCEPT ![r] = "open"]
    BY <1>6, Zenon DEF InitLaunched, countVars
  <2>2. /\ PMI_initialized'[r] # "singleton" /\ PMI_fd'[r] = "open"
        /\ \A q \in Rank \ {r} : PMI_initialized'[q] = PMI_initialized[q] /\ PMI_fd'[q] = PMI_fd[q]
    BY <1>2, <2>1 DEF TypeOK
  <2>3. OthersStay(r)
    BY <1>1, <1>2, <2>1, <2>2, Zenon DEF OthersStay, Ask, TypeOK
  <2>4. called'[r] = called[r] + (IF "init" = "barrier_in" THEN 1 ELSE 0)
    <3>1. called'[r] = called[r] + 0 /\ "init" # "barrier_in"
      BY <1>3, <2>1, CountUp, Zenon
    <3> QED
      BY <3>1, Zenon
  <2>5. Asking(r, "init")
    BY <1>1, <1>3, <2>1, <2>2, <2>4, ZenonT(30) DEF Asking
  <2>6. ExchangeOf(r)'
    BY <1>3, <2>5, AskExchange, Zenon
  <2> QED
    BY <2>3, <2>6, ExchangeSuffices, Zenon
<1> QED
  BY <1>5, <1>6, Zenon

(* PMIU_writeline: the call waits for its answer. *)
LEMMA WriteExchange ==
  ASSUME IInv, ExchangeInv, NEW r \in Rank, Write(r) \/ WriteDropped(r)
  PROVE  ExchangeInv'
<1>1. /\ phase[r] = "write" /\ phase' = [phase EXCEPT ![r] = "read"]
      /\ UNCHANGED <<launched, program, pm, pc, cmd, ret, PMI_initialized, PMI_fd, toClient, kvs, called, passed>>
  BY Zenon DEF Write, WriteDropped, Writing, jobVars, stateVars, wireVars, pmVars, countVars
<1>2. /\ phase'[r] = "read" /\ \A q \in Rank \ {r} : phase'[q] = phase[q]
  BY <1>1, Zenon DEF IInv, TypeOK
<1>3. OthersStay(r)
  BY <1>1, <1>2, Zenon DEF OthersStay
<1>4. Attached(r) /\ Counted(r) /\ Stored(r) /\ Found(r) /\ GivenUp(r)
  BY Zenon DEF ExchangeInv, ExchangeOf
<1>5. Waiting(r)' = Waiting(r)
  BY <1>1, <1>2, Zenon DEF Waiting
<1>6. phase[r] # "idle"
  BY <1>1
<1>7. Attached(r)'
  BY <1>1, <1>4, <1>6, Zenon DEF Attached
<1>8. Counted(r)' /\ Stored(r)' /\ GivenUp(r)'
  BY <1>1, <1>4, <1>5, Zenon DEF Counted, Barriers, Stored, GivenUp
<1>9. Found(r)'
  BY <1>1, <1>4, Zenon DEF Found, PutsBefore, Barriers, Partner
<1>10. ExchangeOf(r)'
  BY <1>7, <1>8, <1>9, Zenon DEF ExchangeOf
<1> QED
  BY <1>3, <1>10, ExchangeSuffices, Zenon

(* A GetResponse of process r ends: PMI_Init goes on or the call returns. *)
Completing(r, got, rc, val) ==
  /\ UNCHANGED <<launched, program, pm, kvs, called>> /\ toClient'[r] = <<>>
  /\ \A q \in Rank \ {r} : toClient'[q] = toClient[q]
  /\ Complete(r, got, rc, val) \/ (cmd[r] = "init" /\ InitReturn(r, FALSE))
  /\ launched /\ pm = "up" => got
  /\ launched /\ pm = "up" /\ cmd[r] = "put" /\ ~TooLong(r) => kvs[r] # None
  /\ got /\ pm = "up" /\ cmd[r] = "get" /\ PutsBefore(Partner(r), passed[r])
       => rc = PMI_SUCCESS /\ val = Partner(r)
  /\ pm = "up" /\ got => called[r] <= passed[r] + Waiting(r)

LEMMA CompleteExchange ==
  ASSUME Conventional, BarriersGrow, IInv, ExchangeInv, NEW r \in Rank, phase[r] # "idle",
         NEW got \in BOOLEAN, NEW rc \in {PMI_SUCCESS, PMI_FAIL}, NEW val \in Rank \cup {None},
         Completing(r, got, rc, val)
  PROVE  ExchangeInv'
<1>0. /\ UNCHANGED <<launched, program, pm, kvs, called>> /\ toClient'[r] = <<>>
      /\ \A q \in Rank \ {r} : toClient'[q] = toClient[q]
  BY Zenon DEF Completing
<1>1. /\ TypeOK /\ ExchangeOf(r) /\ Attached(r) /\ passed \in [Rank -> Nat]
      /\ passed[r] \in Nat /\ called[r] \in Nat
  BY Here, Zenon DEF ExchangeInv, ExchangeOf, TypeOK
<1>2. /\ ~Finished(r) /\ Op(r) \in Ops
      /\ cmd[r] = "barrier_in" <=> Op(r) = "PMI_Barrier"
      /\ cmd[r] \in InitCmds \cup {"init"} <=> Op(r) = "PMI_Init"
      /\ Op(r) = "PMI_KVS_Put" => cmd[r] = "put"
      /\ Op(r) = "PMI_KVS_Get" <=> cmd[r] = "get"
  BY CommandOf, Zenon
<1>3. launched => PMI_initialized[r] # "singleton" /\ PMI_fd[r] = "open"
  BY <1>1, Zenon DEF Attached
<1>4. ~launched => PMI_initialized[r] # "normal" /\ Op(r) # "PMI_Init" /\ called[r] = 0
  <2>1. Op(r) = "PMI_Init" <=> pc[r] = 1
    BY <1>2, OpConventional, Zenon
  <2> QED
    BY <1>1, <2>1, Zenon DEF Attached
<1>5. Waiting(r) = IF Op(r) = "PMI_Barrier" THEN 1 ELSE 0
  BY <1>2, Zenon DEF Waiting
<1>6. ASSUME pm = "up" PROVE called[r] <= passed[r] + Waiting(r)
  <2>1. CASE launched
    BY <1>6, <2>1, Zenon DEF Completing
  <2>2. CASE ~launched
    <3>1. called[r] = 0
      BY <1>4, <2>2, Zenon
    <3> QED
      BY <1>1, <1>5, <3>1
  <2> QED
    BY <2>1, <2>2, Zenon
<1>7. ASSUME NEW c \in InitCmds, Ask(r, c), Op(r) = "PMI_Init", UNCHANGED <<stateVars, passed>>
      PROVE  ExchangeInv'
  <2>1. UNCHANGED <<PMI_initialized, PMI_fd, passed>>
    BY <1>7, Zenon DEF stateVars
  <2>2. OthersStay(r)
    BY <1>0, <1>1, <1>7, <2>1, Zenon DEF OthersStay, Ask, TypeOK
  <2>3. Waiting(r) = 0 /\ launched
    BY <1>4, <1>5, <1>7
  <2>4. c # "barrier_in"
    BY <1>7, CommandFacts, Zenon
  <2>5. called'[r] = called[r] + (IF c = "barrier_in" THEN 1 ELSE 0)
    BY <1>0, <1>1, <2>4
  <2>6. pm = "up" => called[r] <= passed[r]
    BY <1>1, <1>6, <2>3
  <2>7. Asking(r, c)
    BY <1>0, <1>3, <1>7, <2>1, <2>3, <2>5, <2>6, ZenonT(30) DEF Asking
  <2>8. ExchangeOf(r)'
    BY <1>1, <1>2, <2>3, <2>7, AskExchange, Zenon
  <2> QED
    BY <2>2, <2>8, ExchangeSuffices, Zenon
<1>8. ASSUME NEW ok, InitReturn(r, ok), Op(r) = "PMI_Init"
      PROVE  ExchangeInv'
  <2>1. /\ PMI_initialized' = [PMI_initialized EXCEPT ![r] = "normal"] /\ UNCHANGED <<PMI_fd, passed>>
        /\ Return(r, PMI_SUCCESS, None)
    BY <1>8, Zenon DEF InitReturn
  <2>2. OthersStay(r)
    BY <1>0, <1>1, <2>1, Zenon DEF OthersStay, Return, TypeOK
  <2>3. PMI_initialized'[r] = "normal"
    BY <1>1, <2>1, Zenon DEF TypeOK
  <2>4. PMI_initialized'[r] # "singleton" /\ Op(r) # "PMI_KVS_Put" /\ Op(r) # "PMI_KVS_Get"
    BY <1>8, <2>3
  <2>5. Waiting(r) = 0 /\ launched
    BY <1>4, <1>5, <1>8
  <2>6. pm = "up" => called[r] <= passed'[r]
    BY <1>1, <1>6, <2>1, <2>5
  <2>7. Returning(r, PMI_SUCCESS, None)
    BY <1>0, <1>1, <1>3, <2>1, <2>4, <2>5, <2>6, ZenonT(30) DEF Returning
  <2>8. ExchangeOf(r)'
    BY <1>1, <1>2, <2>7, ReturnExchange, Zenon
  <2> QED
    BY <2>2, <2>8, ExchangeSuffices, Zenon
<1>9. ASSUME OpReturn(r, got, rc, val), Op(r) # "PMI_Init"
      PROVE  ExchangeInv'
  <2> DEFINE res == IF Op(r) = "PMI_Abort" THEN PMI_FAIL ELSE ResultRc(Op(r), got, rc)
             v == IF got /\ res = PMI_SUCCESS THEN val ELSE None
  <2>1. /\ Return(r, res, v) /\ UNCHANGED PMI_initialized
        /\ PMI_fd' = IF Op(r) = "PMI_Finalize" THEN [PMI_fd EXCEPT ![r] = "closed"] ELSE PMI_fd
        /\ passed' = IF Op(r) = "PMI_Barrier" /\ got THEN [passed EXCEPT ![r] = @ + 1] ELSE passed
    BY <1>9, Zenon DEF OpReturn
  <2>2. ASSUME Op(r) = "PMI_KVS_Get", pm = "up", PutsBefore(Partner(r), passed[r])
        PROVE  res = PMI_SUCCESS /\ v = Partner(r)
    <3>1. launched
      <4> SUFFICES ASSUME ~launched PROVE FALSE
        OBVIOUS
      <4>1. Waiting(r) = 0 /\ called[r] = 0
        BY <1>4, <1>5, <2>2, Zenon
      <4>2. called[r] >= passed[r] + Waiting(r)
        BY Here, Zenon
      <4>3. passed[r] = 0
        BY <1>1, <4>1, <4>2, NoWait, Zenon
      <4>4. PICK i \in 1 .. Len(program[Partner(r)]) : Barriers(program[Partner(r)], i) < 0
        BY <2>2, <4>3, Zenon DEF PutsBefore
      <4>5. i \in Nat
        BY <4>4
      <4>6. Barriers(program[Partner(r)], i) \in Nat
        BY <4>5, Zenon DEF BarriersGrow
      <4> QED
        BY <4>4, <4>6
    <3>2. got /\ rc = PMI_SUCCESS /\ val = Partner(r)
      BY <1>2, <2>2, <3>1, Zenon DEF Completing
    <3>3. res = PMI_SUCCESS
      BY <2>2, <3>2 DEF ResultRc, NameOps
    <3> QED
      BY <3>2, <3>3, Zenon
  <2>3. \A q \in Rank \ {r} : PMI_fd'[q] = PMI_fd[q] /\ passed'[q] = passed[q]
    BY <1>1, <2>1, Zenon DEF TypeOK
  <2>4. passed'[r] \in Nat /\ (Op(r) # "PMI_Barrier" => passed'[r] = passed[r])
    BY <1>1, <2>1, NoWait, Zenon DEF TypeOK
  <2>5. pm = "up" => called[r] <= passed'[r]
    <3>1. ASSUME pm = "up", Op(r) = "PMI_Barrier", got PROVE called[r] <= passed'[r]
      BY <1>1, <1>5, <1>6, <2>1, <3>1, Zenon DEF TypeOK
    <3>2. ASSUME pm = "up", Op(r) = "PMI_Barrier", ~got PROVE called[r] <= passed'[r]
      <4>1. called[r] = 0
        BY <1>4, <3>2, Zenon DEF Completing
      <4> QED
        BY <2>4, <4>1, NoWait, Zenon
    <3>3. ASSUME pm = "up", Op(r) # "PMI_Barrier" PROVE called[r] <= passed'[r]
      BY <1>1, <1>5, <1>6, <2>4, <3>3, NoWait, Zenon
    <3> QED
      BY <3>1, <3>2, <3>3, Zenon
  <2>6. launched /\ pm = "up" /\ Op(r) = "PMI_KVS_Put" => kvs[r] # None
    <3>1. Op(r) = "PMI_KVS_Put" => ~TooLong(r)
      BY DEF TooLong
    <3> QED
      BY <1>2, <3>1, Zenon DEF Completing
  <2>7. launched => /\ PMI_initialized'[r] # "singleton"
                    /\ Op(r) # "PMI_Finalize" => PMI_fd'[r] = "open"
    BY <1>3, <2>1, Zenon
  <2> HIDE DEF res, v
  <2>8. OthersStay(r)
    BY <1>0, <1>1, <2>1, <2>3, ReturnOthers, Zenon DEF OthersStay
  <2>9. called'[r] = called[r] /\ kvs'[r] = kvs[r] /\ (~launched => PMI_initialized'[r] # "normal")
    BY <1>0, <1>4, <2>1, Zenon
  <2>10. Returning(r, res, v)
    BY <1>0, <2>1, <2>2, <2>4, <2>5, <2>6, <2>7, <2>9, ZenonT(30) DEF Returning
  <2>11. ExchangeOf(r)'
    BY <1>1, <1>2, <2>10, ReturnExchange, Zenon
  <2> QED
    BY <2>8, <2>11, ExchangeSuffices, Zenon
<1>10. CASE Op(r) = "PMI_Init"
  <2>1. cmd[r] \in InitCmds \cup {"init"}
    BY <1>2, <1>10, Zenon
  <2>2. \/ UNCHANGED <<stateVars, passed>> /\ \E c \in InitCmds : Ask(r, c)
        \/ \E ok \in BOOLEAN : InitReturn(r, ok)
    BY <2>1, ZenonT(30) DEF Completing, Complete, InitCmds
  <2> QED
    BY <1>7, <1>8, <1>10, <2>2, Zenon
<1>11. CASE Op(r) # "PMI_Init"
  <2>1. cmd[r] \notin InitCmds \cup {"init"}
    BY <1>2, <1>11, Zenon
  <2>2. OpReturn(r, got, rc, val)
    BY <2>1, ZenonT(30) DEF Completing, Complete, InitCmds
  <2> QED
    BY <1>9, <1>11, <2>2, Zenon
<1> QED
  BY <1>10, <1>11, Zenon

(* A GetResponse that fails: the PM is gone, or was never there. *)
LEMMA FailExchange ==
  ASSUME Conventional, BarriersGrow, IInv, ExchangeInv, NEW r \in Rank,
         WriteFails(r) \/ ReadFails(r) \/ ReadErrorInInit(r)
  PROVE  ExchangeInv'
<1>1. /\ phase[r] # "idle" /\ UNCHANGED <<launched, program, pm, kvs, toClient, called>>
      /\ PMI_fd[r] # "open" \/ pm = "down"
  <2>1. phase[r] = "write" \/ phase[r] = "read"
    BY Zenon DEF WriteFails, ReadFails, ReadErrorInInit, Writing, Reading
  <2>2. phase[r] # "idle"
    BY <2>1
  <2> QED
    BY <2>2, Zenon DEF WriteFails, ReadFails, ReadErrorInInit, NothingToRead,
                       jobVars, wireVars, pmVars, countVars
<1>2. Attached(r) /\ ExchangeOf(r) /\ TypeOK /\ called[r] \in Nat /\ passed[r] \in Nat
  BY Here, Zenon DEF ExchangeInv, ExchangeOf
<1>3. launched => pm = "down" /\ PMI_fd[r] = "open" /\ PMI_initialized[r] # "singleton"
  BY <1>1, <1>2, Zenon DEF Attached
<1>4. ~(launched /\ pm = "up")
  BY <1>3
<1>5. toClient[r] = <<>>
  <2>1. ASSUME phase[r] = "write" PROVE toClient[r] = <<>>
    BY <2>1, Silent
  <2> QED
    BY <2>1, Zenon DEF WriteFails, ReadFails, ReadErrorInInit, NothingToRead, Writing
<1>6. CASE ReadErrorInInit(r)
  <2>1. Ask(r, "abort_read") /\ cmd[r] = "init" /\ UNCHANGED <<PMI_initialized, PMI_fd, passed>>
    BY <1>6, Zenon DEF ReadErrorInInit, stateVars, countVars
  <2>2. ~Finished(r) /\ Op(r) = "PMI_Init"
    BY <1>1, <2>1, CommandOf, Zenon
  <2>3. pc[r] = 1
    BY <2>2, OpConventional, Zenon
  <2>4. launched
    BY <1>1, <1>2, <2>3, Zenon DEF Attached
  <2>5. Waiting(r) = 0
    BY <2>1 DEF Waiting
  <2>6. called'[r] = called[r] + (IF "abort_read" = "barrier_in" THEN 1 ELSE 0)
    BY <1>1, <1>2
  <2>7. OthersStay(r)
    BY <1>1, <1>2, <2>1, Zenon DEF OthersStay, Ask, TypeOK
  <2>8. Asking(r, "abort_read")
    BY <1>1, <1>3, <1>4, <1>5, <2>1, <2>4, <2>6, ZenonT(30) DEF Asking
  <2>9. ExchangeOf(r)'
    BY <1>2, <2>2, <2>5, <2>8, AskExchange, Zenon
  <2> QED
    BY <2>7, <2>9, ExchangeSuffices, Zenon
<1>7. CASE WriteFails(r) \/ ReadFails(r)
  <2>1. Complete(r, FALSE, PMI_FAIL, None) \/ (cmd[r] = "init" /\ InitReturn(r, FALSE))
    BY <1>7, Zenon DEF WriteFails, ReadFails
  <2>2. Completing(r, FALSE, PMI_FAIL, None)
    BY <1>1, <1>4, <1>5, <2>1, ZenonT(30) DEF Completing
  <2> QED
    BY <1>1, <2>2, CompleteExchange, Zenon
<1> QED
  BY <1>6, <1>7, Zenon

(* The answer is read. *)
LEMMA ReadLineExchange ==
  ASSUME Conventional, BarriersGrow, IInv, ExchangeInv, NEW r \in Rank, ReadLine(r)
  PROVE  ExchangeInv'
<1> DEFINE line == Head(toClient[r])
<1>1. /\ phase[r] = "read" /\ toClient[r] # <<>>
      /\ UNCHANGED <<launched, program, pm, kvs, called>>
      /\ toClient' = [toClient EXCEPT ![r] = Tail(@)]
      /\ Complete(r, line.name = Answer[cmd[r]], line.rc, line.val)
  BY ZenonT(30) DEF ReadLine, Reading, jobVars, pmVars
<1>2. /\ InStepOf(r) /\ toClient \in [Rank -> Seq(Responses)] /\ called[r] \in Nat /\ passed[r] \in Nat
  BY Here, Zenon DEF IInv, TypeOK
<1>3. Len(toClient[r]) = 1 /\ toClient[r][1].name = Answer[cmd[r]] /\ toClient[r] \in Seq(Responses)
  BY <1>1, <1>2, Zenon DEF InStepOf
<1>4. line \in Responses /\ line = toClient[r][1] /\ Tail(toClient[r]) = <<>>
  BY <1>1, <1>3, TakeOne, Zenon
<1>5. line.rc \in {PMI_SUCCESS, PMI_FAIL} /\ line.val \in Rank \cup {None}
  BY <1>4 DEF Responses
<1>6. Complete(r, TRUE, line.rc, line.val)
  BY <1>1, <1>3, <1>4, Zenon
<1>7. Stored(r) /\ Found(r) /\ GivenUp(r)
  BY Zenon DEF ExchangeInv, ExchangeOf
<1> HIDE DEF line
<1>8. toClient'[r] = <<>> /\ \A q \in Rank \ {r} : toClient'[q] = toClient[q]
  BY <1>1, <1>2, <1>4, Zenon
<1>9. launched /\ pm = "up" /\ cmd[r] = "put" => kvs[r] # None
  BY <1>1, <1>7, Zenon DEF Stored
<1>10. pm = "up" /\ cmd[r] = "get" /\ PutsBefore(Partner(r), passed[r])
         => line.rc = PMI_SUCCESS /\ line.val = Partner(r)
  BY <1>1, <1>4, <1>7, Zenon DEF Found
<1>11. called[r] <= passed[r] + Waiting(r)
  <2>1. ~(called[r] > passed[r] + Waiting(r))
    BY <1>1, <1>7, Zenon DEF GivenUp
  <2>2. Waiting(r) \in Nat
    BY DEF Waiting
  <2> QED
    BY <1>2, <2>1, <2>2
<1>12. phase[r] # "idle"
  BY <1>1
<1>13. Completing(r, TRUE, line.rc, line.val)
  BY <1>1, <1>6, <1>8, <1>9, <1>10, <1>11, ZenonT(30) DEF Completing
<1> QED
  BY <1>5, <1>12, <1>13, CompleteExchange, ZenonT(30)

(* No process has passed a barrier another has not called. *)
LEMMA Separated ==
  ASSUME IInv, NEW r \in Rank, NEW q \in Rank
  PROVE  passed[r] <= called[q] /\ passed[r] <= passed[q] + Waiting(q)
<1>1. /\ passed[r] + Released(r) = passed[q] + Released(q)
      /\ called[q] >= passed[q] + Waiting(q)
  BY Zenon DEF IInv, Rounds
<1>2. /\ passed[r] \in Nat /\ passed[q] \in Nat /\ called[q] \in Nat
      /\ InStepOf(q) /\ InCallOf(q)
  BY Here, Zenon
<1>3. Released(q) <= Waiting(q) /\ Released(q) \in Nat /\ Waiting(q) \in Nat /\ Released(r) \in Nat
  BY <1>2 DEF Released, Waiting, InStepOf
<1> QED
  BY <1>1, <1>2, <1>3

(* What was put before a barrier that r has passed is with the PM. *)
LEMMA Published ==
  ASSUME Conventional, BarriersGrow, IInv, ExchangeInv, NEW r \in Rank, pm = "up",
         PutsBefore(Partner(r), passed[r])
  PROVE  kvs[Partner(r)] # None
<1> DEFINE q == Partner(r)
           p == program[q]
<1>1. q \in Rank
  BY PartnerInRank
<1>2. PICK i \in 1 .. Len(p) : p[i] = "PMI_KVS_Put" /\ Barriers(p, i) < passed[r]
  BY Zenon DEF PutsBefore
<1>3. /\ pc[q] \in Nat \ {0} /\ called[q] \in Nat /\ passed[r] \in Nat /\ passed[r] <= called[q]
      /\ Len(p) \in Nat
  BY <1>1, Here, Separated, Zenon
<1>4. Attached(q) /\ Counted(q) /\ Stored(q)
  BY <1>1, Zenon DEF ExchangeInv, ExchangeOf
<1>5. i \in Nat /\ pc[q] - 1 \in Nat /\ (pc[q] - 1) + 1 = pc[q] /\ pc[q] \in Nat
  BY <1>2, <1>3, PutIndex, Zenon
<1>6. Barriers(p, i) \in Nat /\ Barriers(p, pc[q] - 1) \in Nat /\ Barriers(p, pc[q]) \in Nat
  BY <1>5, Zenon DEF BarriersGrow
<1>7. \A k \in Nat : k <= i => Barriers(p, k) <= Barriers(p, i)
  BY <1>5, Zenon DEF BarriersGrow
<1>8. Barriers(p, pc[q]) = Barriers(p, pc[q] - 1) + (IF p[pc[q]] = "PMI_Barrier" THEN 1 ELSE 0)
  BY <1>5, Zenon DEF BarriersGrow
<1>9. Waiting(q) = 0 \/ (Waiting(q) = 1 /\ p[pc[q]] = "PMI_Barrier")
  BY <1>1, CommandOf, Zenon DEF Waiting, Op
<1>10. called[q] <= Barriers(p, pc[q] - 1) + Waiting(q)
  BY <1>4, Zenon DEF Counted
<1> HIDE DEF p, q
<1>11. i \in 1 .. pc[q] - 1
  <2> SUFFICES ASSUME i \notin 1 .. pc[q] - 1 PROVE FALSE
    OBVIOUS
  <2>1. pc[q] <= i /\ pc[q] - 1 <= i
    BY <1>3, PutAhead, Zenon
  <2>2. Barriers(p, pc[q]) <= Barriers(p, i) /\ Barriers(p, pc[q] - 1) <= Barriers(p, i)
    BY <1>5, <1>7, <2>1, Zenon
  <2>3. CASE Waiting(q) = 0
    BY <1>2, <1>3, <1>6, <1>10, <2>2, <2>3, BarrierAhead, Zenon
  <2>4. CASE Waiting(q) = 1 /\ p[pc[q]] = "PMI_Barrier"
    <3>1. Barriers(p, pc[q]) = Barriers(p, pc[q] - 1) + 1
      BY <1>8, <2>4, Zenon
    <3> QED
      BY <1>2, <1>3, <1>6, <1>10, <2>2, <2>4, <3>1, BarrierAhead, Zenon
  <2> QED
    BY <1>9, <2>3, <2>4, Zenon
<1>12. called[q] # 0
  BY <1>2, <1>3, <1>6, BarrierAhead, Zenon
<1>13. launched
  BY <1>4, <1>12, Zenon DEF Attached
<1> QED
  BY <1>2, <1>4, <1>11, <1>13, Zenon DEF Stored, p, q

(* The PM answers. *)
LEMMA PmAnswerExchange ==
  ASSUME Conventional, BarriersGrow, IInv, ExchangeInv, NEW r \in Rank, PmAnswer(r)
  PROVE  ExchangeInv'
<1> DEFINE resp == [name |-> Answer[cmd[r]], rc |-> PmRc(r, cmd[r]), val |-> PmVal(r, cmd[r])]
<1>1. toPm[r] # <<>>
  BY Zenon DEF PmAnswer
<1>2. /\ cmd[r] \in Cmds /\ phase[r] = "read" /\ Head(toPm[r]) = cmd[r]
      /\ toClient[r] = <<>> /\ pm = "up" /\ toClient \in [Rank -> Seq(Responses)]
  BY <1>1, Taken, Zenon
<1>3. /\ toClient' = [toClient EXCEPT ![r] = Append(@, resp)]
      /\ kvs' = IF cmd[r] = "put" /\ PmRc(r, cmd[r]) = PMI_SUCCESS THEN [kvs EXCEPT ![r] = r] ELSE kvs
      /\ UNCHANGED <<launched, program, pm, pc, cmd, phase, ret, PMI_initialized, PMI_fd, called, passed>>
  BY <1>2, Zenon DEF PmAnswer, jobVars, stateVars, callVars, countVars
<1>4. kvs \in [Rank -> Rank \cup {None}]
  BY Zenon DEF IInv, TypeOK, Keys
<1>5. Append(<<>>, resp) = <<resp>> /\ <<resp>>[1] = resp
  OBVIOUS
<1>6. toClient'[r] = <<resp>> /\ \A q \in Rank \ {r} : toClient'[q] = toClient[q]
  BY <1>2, <1>3, <1>5, Zenon
<1>7. \A q \in Rank \ {r} : kvs'[q] = kvs[q]
  BY <1>3, <1>4, Zenon
<1>8. OthersStay(r)
  BY <1>3, <1>6, <1>7, Zenon DEF OthersStay
<1>9. Attached(r) /\ Counted(r) /\ Stored(r) /\ Found(r) /\ GivenUp(r)
  BY Zenon DEF ExchangeInv, ExchangeOf
<1>10. (kvs[r] # None => kvs'[r] # None) /\ (cmd[r] = "put" => kvs'[r] # None)
  <2>1. r # None
    BY PartnerInRank, Zenon
  <2>2. cmd[r] = "put" /\ kvs[r] = None => PmRc(r, cmd[r]) = PMI_SUCCESS
    BY DEF PmRc
  <2> QED
    BY <1>3, <1>4, <2>1, <2>2, Zenon
<1>11. Attached(r)' /\ Counted(r)'
  BY <1>3, <1>9, Zenon DEF Attached, Counted, Waiting, Barriers
<1>12. Stored(r)'
  BY <1>3, <1>9, <1>10, Zenon DEF Stored
<1>13. Found(r)'
  <2>1. PutsBefore(Partner(r), passed[r])' = PutsBefore(Partner(r), passed[r])
    BY <1>3, Zenon DEF PutsBefore, Barriers, Partner
  <2>2. ASSUME cmd[r] = "get", PutsBefore(Partner(r), passed[r])
        PROVE  resp.rc = PMI_SUCCESS /\ resp.val = Partner(r)
    <3>1. kvs[Partner(r)] # None
      BY <1>2, <2>2, Published, Zenon
    <3>2. PmRc(r, cmd[r]) = PMI_SUCCESS
      BY <2>2, <3>1 DEF PmRc
    <3>3. PmVal(r, cmd[r]) = Partner(r)
      BY <2>2, <3>2 DEF PmVal
    <3> QED
      BY <3>2, <3>3, Zenon
  <2> HIDE DEF resp
  <2> QED
    BY <1>3, <1>5, <1>6, <1>9, <2>1, <2>2, Zenon DEF Found, Partner
<1>14. GivenUp(r)'
  <2>1. pm # "down"
    BY <1>2
  <2> QED
    BY <1>3, <1>9, <2>1, Zenon DEF GivenUp, Waiting
<1>15. ExchangeOf(r)'
  BY <1>11, <1>12, <1>13, <1>14, Zenon DEF ExchangeOf
<1> QED
  BY <1>8, <1>15, ExchangeSuffices, Zenon

(* Steps that move no call and store nothing: a process dies, the PM notes *)
(* a barrier_in, ends the job, or dies itself.                             *)
LEMMA RestExchange ==
  ASSUME ExchangeInv, pm' = pm \/ pm' = "down",
         UNCHANGED <<launched, program, pc, cmd, phase, ret, PMI_initialized, PMI_fd,
                     toClient, kvs, called, passed>>
  PROVE  ExchangeInv'
<1> SUFFICES ASSUME NEW q \in Rank PROVE ExchangeOf(q)'
  BY Zenon DEF ExchangeInv
<1>1. ExchangeOf(q)
  BY Zenon DEF ExchangeInv
<1> QED
  BY <1>1, ExchangeFrame, ZenonT(30)

LEMMA PmBarrierOutExchange ==
  ASSUME IInv, ExchangeInv, PmBarrierOut
  PROVE  ExchangeInv'
<1> SUFFICES ASSUME NEW q \in Rank PROVE ExchangeOf(q)'
  BY Zenon DEF ExchangeInv
<1>1. /\ inBarrier = Rank /\ pm = "up"
      /\ UNCHANGED <<launched, program, pm, pc, cmd, phase, ret, PMI_initialized, PMI_fd, kvs, called, passed>>
  BY Zenon DEF PmBarrierOut, jobVars, stateVars, callVars, countVars
<1>2. InStepOf(q)
  BY Here, Zenon
<1>3. cmd[q] = "barrier_in"
  BY <1>1, <1>2, Zenon DEF InStepOf
<1>4. cmd[q] # "put" /\ cmd[q] # "get" /\ pm # "down"
  BY <1>1, <1>3
<1>5. Attached(q) /\ Counted(q) /\ Stored(q) /\ Found(q) /\ GivenUp(q)
  BY Zenon DEF ExchangeInv, ExchangeOf
<1>6. Attached(q)' /\ Counted(q)'
  BY <1>1, <1>5, Zenon DEF Attached, Counted, Waiting, Barriers
<1>7. Stored(q)' /\ GivenUp(q)'
  BY <1>1, <1>4, <1>5, Zenon DEF Stored, GivenUp, Waiting
<1>8. Found(q)'
  BY <1>1, <1>4, <1>5, Zenon DEF Found, PutsBefore, Barriers, Partner
<1> QED
  BY <1>6, <1>7, <1>8, Zenon DEF ExchangeOf

LEMMA ExchangeInit ==
  ASSUME BarriersGrow, Init
  PROVE  ExchangeInv
<1> SUFFICES ASSUME NEW r \in Rank PROVE ExchangeOf(r)
  BY Zenon DEF ExchangeInv
<1>1. /\ pc[r] = 1 /\ phase[r] = "idle" /\ cmd[r] = "none" /\ toClient[r] = <<>>
      /\ PMI_initialized[r] = "uninit" /\ called[r] = 0 /\ passed[r] = 0
      /\ ret[r] = [op |-> "none", rc |-> PMI_SUCCESS, val |-> None] /\ pm = "up"
  BY Zenon DEF Init
<1>2. Waiting(r) = 0
  BY <1>1, Zenon DEF Waiting
<1>3. PMI_initialized[r] # "singleton" /\ PMI_initialized[r] # "normal" /\ ret[r].op # "PMI_KVS_Get"
  BY <1>1
<1>4. pc[r] \notin 2 .. Len(program[r]) /\ pc[r] - 1 = 0 /\ 1 .. pc[r] - 1 = {}
  BY <1>1
<1>5. Barriers(program[r], 0) = 0
  <2>1. 0 \in Nat
    OBVIOUS
  <2> QED
    BY <2>1, Zenon DEF BarriersGrow
<1>6. Attached(r)
  BY <1>1, <1>3, <1>4, Zenon DEF Attached
<1>7. Counted(r) /\ GivenUp(r)
  BY <1>1, <1>2, <1>4, <1>5 DEF Counted, GivenUp
<1>8. Stored(r) /\ Found(r)
  BY <1>1, <1>3, <1>4, Zenon DEF Stored, Found
<1> QED
  BY <1>6, <1>7, <1>8, Zenon DEF ExchangeOf

LEMMA ExchangeNext ==
  ASSUME Conventional, BarriersGrow, IInv, ExchangeInv, [Next]_vars
  PROVE  ExchangeInv'
<1>1. ASSUME NEW r \in Rank, ClientStep(r) PROVE ExchangeInv'
  <2>1. CASE Sigpipe(r)
    BY <2>1, RestExchange, Zenon DEF Sigpipe, jobVars, stateVars, callVars, wireVars, pmVars, countVars
  <2> QED
    BY <1>1, <2>1, LocalExchange, CallExchange, WriteExchange, FailExchange, ReadLineExchange, Zenon
       DEF ClientStep
<1>2. CASE PmStep
  <2>1. ASSUME NEW r \in Rank, PmBarrierIn(r) PROVE ExchangeInv'
    BY <2>1, RestExchange, Zenon DEF PmBarrierIn, jobVars, stateVars, callVars, countVars
  <2>2. ASSUME NEW r \in Rank, PmAbort(r) PROVE ExchangeInv'
    BY <2>2, RestExchange, Zenon DEF PmAbort, jobVars, stateVars, callVars, pmVars, countVars
  <2> QED
    BY <1>2, <2>1, <2>2, PmAnswerExchange, PmBarrierOutExchange, Zenon DEF PmStep
<1>3. CASE PmCrash
  BY <1>3, RestExchange, Zenon DEF PmCrash, jobVars, stateVars, callVars, countVars
<1>4. CASE UNCHANGED vars
  BY <1>4, RestExchange, Zenon DEF vars, jobVars, stateVars, callVars, wireVars, pmVars, countVars
<1> QED
  BY <1>1, <1>2, <1>3, <1>4, Zenon DEF Next, Over

-----------------------------------------------------------------------------
(* PMI_Barrier implements Barrier.tla. *)

Entered(r) == IF called[r] > passed[r] THEN passed[r] + 1 ELSE called[r]

LEMMA CompleteCounts ==
  ASSUME NEW r \in Rank, NEW got \in BOOLEAN, NEW rc, NEW val, Complete(r, got, rc, val)
  PROVE  \/ passed' = passed
         \/ /\ Op(r) = "PMI_Barrier" /\ got /\ cmd[r] \notin InitCmds \cup {"init"}
            /\ passed' = [passed EXCEPT ![r] = @ + 1]
BY Zenon DEF Complete, InitReturn, OpReturn

(* How a step changes the counts of calls and of successful returns. *)
LEMMA CountsMove ==
  ASSUME IInv, [Next]_vars
  PROVE  \/ called' = called /\ passed' = passed
         \/ \E r \in Rank : called' = [called EXCEPT ![r] = @ + 1] /\ passed' = passed
         \/ \E r \in Rank : /\ toClient[r] # <<>> /\ phase[r] # "idle" /\ Op(r) = "PMI_Barrier"
                            /\ passed' = [passed EXCEPT ![r] = @ + 1] /\ called' = called
<1> DEFINE Moves == \/ called' = called /\ passed' = passed
                    \/ \E r \in Rank : called' = [called EXCEPT ![r] = @ + 1] /\ passed' = passed
                    \/ \E r \in Rank : /\ toClient[r] # <<>> /\ phase[r] # "idle" /\ Op(r) = "PMI_Barrier"
                                       /\ passed' = [passed EXCEPT ![r] = @ + 1] /\ called' = called
<1>1. ASSUME NEW r \in Rank, CallLocal(r) \/ InitSingleton(r) \/ InitLaunched(r) \/ Write(r)
                             \/ WriteDropped(r) \/ Sigpipe(r) \/ ReadErrorInInit(r)
      PROVE  Moves
  BY <1>1, Zenon DEF CallLocal, InitSingleton, InitLaunched, Write, WriteDropped, Sigpipe,
                     ReadErrorInInit, countVars
<1>2. ASSUME NEW r \in Rank, Call(r) PROVE Moves
  BY <1>2, Zenon DEF Call
<1>3. ASSUME NEW r \in Rank, WriteFails(r) \/ ReadFails(r) PROVE Moves
  <2>1. /\ called' = called
        /\ Complete(r, FALSE, PMI_FAIL, None) \/ InitReturn(r, FALSE)
    BY <1>3, Zenon DEF WriteFails, ReadFails
  <2>2. passed' = passed
    BY <2>1, CompleteCounts, Zenon DEF InitReturn
  <2> QED
    BY <2>1, <2>2, Zenon
<1>4. ASSUME NEW r \in Rank, ReadLine(r) PROVE Moves
  <2> DEFINE got == Head(toClient[r]).name = Answer[cmd[r]]
  <2>1. /\ called' = called /\ toClient[r] # <<>> /\ phase[r] = "read"
        /\ Complete(r, got, Head(toClient[r]).rc, Head(toClient[r]).val)
    BY <1>4, Zenon DEF ReadLine, Reading
  <2>2. got \in BOOLEAN /\ phase[r] # "idle"
    BY <2>1
  <2> HIDE DEF got
  <2>3. passed' = passed \/ (Op(r) = "PMI_Barrier" /\ passed' = [passed EXCEPT ![r] = @ + 1])
    BY <2>1, <2>2, CompleteCounts, Zenon
  <2> QED
    BY <2>1, <2>2, <2>3, Zenon
<1>5. ASSUME PmStep \/ PmCrash PROVE Moves
  BY <1>5, Zenon DEF PmStep, PmAnswer, PmBarrierIn, PmAbort, PmBarrierOut, PmCrash, countVars
<1>6. ASSUME UNCHANGED vars PROVE Moves
  BY <1>6, Zenon DEF vars, countVars
<1> HIDE DEF Moves
<1>7. ASSUME NEW r \in Rank, ClientStep(r) PROVE Moves
  BY <1>1, <1>2, <1>3, <1>4, <1>7, Zenon DEF ClientStep
<1>8. Moves
  BY <1>5, <1>6, <1>7, Zenon DEF Next, Over
<1> QED
  BY <1>8, Zenon DEF Moves

LEMMA BarrierStep ==
  ASSUME IInv, ExchangeInv, [Next]_vars
  PROVE  [Promised!Next]_(Promised!barrierVars)
<1>1. called \in [Rank -> Nat] /\ passed \in [Rank -> Nat]
  BY DEF IInv, TypeOK
<1>2. ASSUME NEW r \in Rank
      PROVE  called[r] \in Nat /\ passed[r] \in Nat /\ passed[r] <= called[r] /\ Entered(r) \in Nat
  <2>1. called[r] \in Nat /\ passed[r] \in Nat /\ passed[r] <= called[r]
    BY <1>2, Here, Separated, Zenon
  <2> QED
    BY <2>1 DEF Entered
<1> DEFINE entered == [r \in Rank |-> Entered(r)]
<1>3. CASE called' = called /\ passed' = passed
  BY <1>3, Zenon DEF Promised!barrierVars
<1>4. ASSUME NEW r \in Rank, called' = [called EXCEPT ![r] = @ + 1], passed' = passed
      PROVE  [Promised!Next]_(Promised!barrierVars)
  <2>1. \A q \in Rank \ {r} : called'[q] = called[q]
    BY <1>1, <1>4, Zenon
  <2>2. called'[r] = called[r] + 1
    BY <1>1, <1>4, Zenon
  <2>3. \A q \in Rank \ {r} : Entered(q)' = Entered(q)
    BY <1>4, <2>1, Zenon DEF Entered
  <2>4. CASE called[r] > passed[r]
    <3>1. Entered(r)' = Entered(r)
      BY <1>2, <1>4, <2>2, <2>4 DEF Entered
    <3>2. entered' = entered
      BY <2>3, <3>1, Zenon
    <3> QED
      BY <1>4, <3>2, Zenon DEF Promised!barrierVars, Entered
  <2>5. CASE called[r] <= passed[r]
    <3>1. Entered(r) = passed[r] /\ Entered(r)' = Entered(r) + 1
      BY <1>2, <1>4, <2>2, <2>5 DEF Entered
    <3>2. entered' = [entered EXCEPT ![r] = @ + 1]
      BY <2>3, <3>1, Zenon
    <3>3. entered[r] = passed[r]
      BY <3>1, Zenon
    <3>4. Promised!Enter(r)
      BY <1>4, <3>2, <3>3, Zenon DEF Promised!Enter, Entered
    <3> QED
      BY <3>4, Zenon DEF Promised!Next
  <2> QED
    BY <1>2, <2>4, <2>5
<1>5. ASSUME NEW r \in Rank, toClient[r] # <<>>, phase[r] # "idle", Op(r) = "PMI_Barrier",
             passed' = [passed EXCEPT ![r] = @ + 1], called' = called
      PROVE  [Promised!Next]_(Promised!barrierVars)
  <2>1. cmd[r] = "barrier_in"
    BY <1>5, CommandOf, Zenon
  <2>2. Waiting(r) = 1 /\ Released(r) = 1
    BY <1>5, <2>1, Zenon DEF Waiting, Released
  <2>3. called[r] = passed[r] + 1
    <3>1. GivenUp(r)
      BY Zenon DEF ExchangeInv, ExchangeOf
    <3>2. ~(called[r] > passed[r] + Waiting(r)) /\ called[r] >= passed[r] + Waiting(r)
      BY <1>5, <3>1, Here, Zenon DEF GivenUp
    <3> QED
      BY <1>2, <2>2, <3>2
  <2>4. passed'[r] = passed[r] + 1 /\ \A q \in Rank \ {r} : passed'[q] = passed[q]
    BY <1>1, <1>5, Zenon
  <2>5. Entered(r)' = Entered(r) /\ Entered(r) = passed[r] + 1
    BY <1>2, <1>5, <2>3, <2>4 DEF Entered
  <2>6. ASSUME NEW q \in Rank \ {r} PROVE Entered(q)' = Entered(q)
    <3>1. called'[q] = called[q] /\ passed'[q] = passed[q]
      BY <1>5, <2>4, Zenon
    <3> QED
      BY <3>1, Zenon DEF Entered
  <2>7. entered' = entered
    BY <2>5, <2>6, Zenon
  <2>8. ASSUME NEW q \in Rank PROVE Entered(q) >= Entered(r)
    <3>1. passed[r] + Released(r) = passed[q] + Released(q) /\ called[q] >= passed[q] + Waiting(q)
      BY Zenon DEF IInv, Rounds
    <3>2. InStepOf(q) /\ InCallOf(q)
      BY Here, Zenon
    <3>3. (Released(q) = 1 /\ Waiting(q) = 1) \/ (Released(q) = 0 /\ Waiting(q) \in {0, 1})
      BY <3>2, Zenon DEF Released, Waiting, InStepOf
    <3>4. passed[r] + 1 = passed[q] + Released(q)
      BY <2>2, <3>1, Zenon
    <3> QED
      BY <1>2, <2>5, <3>1, <3>3, <3>4, EnteredToo, Zenon DEF Entered
  <2>9. entered[r] = passed[r] + 1 /\ \A q \in Rank : entered[q] >= entered[r]
    BY <2>5, <2>8, Zenon
  <2>10. [x \in Rank |-> Rank][r] = Rank
    OBVIOUS
  <2>11. Promised!Leave(r)
    BY <1>5, <2>7, <2>9, <2>10, Zenon DEF Promised!Leave, Promised!Inside, Entered
  <2> QED
    BY <2>11, Zenon DEF Promised!Next
<1> QED
  BY <1>3, <1>4, <1>5, CountsMove, Zenon

-----------------------------------------------------------------------------
(* The cardinalities behind BarriersGrow, and what follows.  The theorems  *)
(* about finite sets come in only here.                                    *)
INSTANCE FiniteSetTheorems

LEMMA BarriersFacts == BarriersGrow
<1> SUFFICES ASSUME NEW p, NEW i \in Nat
    PROVE  /\ Barriers(p, i) \in Nat /\ Barriers(p, 0) = 0
           /\ Barriers(p, i + 1) = Barriers(p, i) + (IF p[i + 1] = "PMI_Barrier" THEN 1 ELSE 0)
           /\ \A k \in Nat : k <= i => Barriers(p, k) <= Barriers(p, i)
  BY Zenon DEF BarriersGrow
<1> DEFINE S(k) == {j \in 1 .. k : p[j] = "PMI_Barrier"}
<1>1. ASSUME NEW k \in Nat PROVE IsFiniteSet(S(k)) /\ Cardinality(S(k)) \in Nat
  <2>1. IsFiniteSet(1 .. k)
    BY FS_Interval
  <2>2. S(k) \in SUBSET (1 .. k)
    OBVIOUS
  <2>3. IsFiniteSet(S(k))
    BY <2>1, <2>2, FS_Subset
  <2> QED
    BY <2>3, FS_CardinalityType
<1>2. Cardinality(S(0)) = 0
  <2>1. S(0) = {}
    OBVIOUS
  <2> QED
    BY <2>1, FS_EmptySet
<1>3. Cardinality(S(i + 1)) = Cardinality(S(i)) + (IF p[i + 1] = "PMI_Barrier" THEN 1 ELSE 0)
  <2>1. CASE p[i + 1] = "PMI_Barrier"
    <3>1. S(i + 1) = S(i) \cup {i + 1} /\ i + 1 \notin S(i)
      BY <2>1
    <3> QED
      BY <1>1, <2>1, <3>1, FS_AddElement
  <2>2. CASE p[i + 1] # "PMI_Barrier"
    <3>1. S(i + 1) = S(i)
      BY <2>2
    <3> QED
      BY <1>1, <2>2, <3>1
  <2> QED
    BY <2>1, <2>2
<1>4. ASSUME NEW k \in Nat, k <= i PROVE Cardinality(S(k)) <= Cardinality(S(i))
  <2>1. S(k) \in SUBSET S(i)
    BY <1>4
  <2> QED
    BY <1>1, <2>1, FS_Subset
<1> QED
  BY <1>1, <1>2, <1>3, <1>4, Zenon DEF Barriers

LEMMA ExchangeInvariance ==
  ASSUME Conventional
  PROVE  Spec => [](IInv /\ ExchangeInv)
<1>1. Init => IInv /\ ExchangeInv
  BY InitInv, BarriersFacts, ExchangeInit
<1>2. IInv /\ ExchangeInv /\ [Next]_vars => IInv' /\ ExchangeInv'
  BY NextInv, BarriersFacts, ExchangeNext
<1> QED
  BY <1>1, <1>2, PTL DEF Spec

(* For programs that call PMI_Init first and once and nothing after        *)
(* PMI_Finalize: as long as the process manager is up, PMI_KVS_Get finds   *)
(* what the other process has put before a barrier the caller has passed,  *)
(* for any number of processes and any such programs.                      *)
THEOREM ExchangeWorks ==
  ASSUME Conventional
  PROVE  Spec => []GetAfterBarrier
<1>1. ExchangeInv => GetAfterBarrier
  BY Zenon DEF ExchangeInv, ExchangeOf, Found, GetAfterBarrier
<1> QED
  BY <1>1, ExchangeInvariance, PTL

(* For programs that call PMI_Init first and once and nothing after        *)
(* PMI_Finalize, PMI_Barrier with the process manager behind it implements *)
(* the barrier that proc_barrier and the start-up of the benchmarks count  *)
(* on (Barrier.tla), also when the process manager dies and calls fail.    *)
THEOREM BarrierImplemented ==
  ASSUME Conventional
  PROVE  Spec => ImplementsBarrier
<1>1. Init => Promised!Init
  <2> SUFFICES ASSUME Init PROVE Promised!Init
    OBVIOUS
  <2>1. called = [r \in Rank |-> 0] /\ passed = [r \in Rank |-> 0]
    BY Zenon DEF Init
  <2>2. \A r \in Rank : (IF called[r] > passed[r] THEN passed[r] + 1 ELSE called[r]) = 0
    BY <2>1
  <2> QED
    BY <2>1, <2>2, Zenon DEF Promised!Init
<1>2. IInv /\ ExchangeInv /\ [Next]_vars => [Promised!Next]_(Promised!barrierVars)
  BY BarrierStep
<1> QED
  BY <1>1, <1>2, ExchangeInvariance, PTL DEF Spec, ImplementsBarrier, Promised!SafeSpec
=============================================================================
