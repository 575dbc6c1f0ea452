----------------------------- MODULE Pmi2Client -----------------------------
(***************************************************************************)
(* The PMI-2 client (src/modules/pmi/pmi2/client/pmi2_api.c, built with    *)
(* USE_PMI2): the threads of a process share one descriptor to the process *)
(* manager (PM).  A call writes a command and reads the response.  The     *)
(* responses carry no thread id (MPICH_IS_THREADED is not defined), so a   *)
(* response goes to whoever reads it; pmi2_mutex keeps the calls of the    *)
(* key-value, info and name-server functions apart.  The job functions and *)
(* PMI2_Finalize do not take it.                                           *)
(*                                                                         *)
(* Thread 0 of a process runs the main program, the others start at        *)
(* "create" and have ended at "join", both steps of the caller.  Key and   *)
(* value of a process are its rank.  The PM is not under src/: it answers  *)
(* in order, commits the puts of all processes when all of them are in a   *)
(* fence, and may die.                                                     *)
(***************************************************************************)
EXTENDS Integers, Sequences, FiniteSets

CONSTANTS Size, ThreadNum,
          Jobs,       \* the programs run: the calls of each thread
          None

Rank == 0 .. Size - 1
Thread == Rank \X (0 .. ThreadNum - 1)
Partner(r) == (r + 1) % Size

(* PutLong is a put whose value is longer than PMI2_MAX_VALLEN, WaitAttr   *)
(* a PMI2_Info_GetNodeAttr with waitfor.                                   *)
KvsOps == {"PMI2_KVS_Put", "PutLong", "PMI2_KVS_Fence", "PMI2_KVS_Get"}
InfoOps == {"PMI2_Info_GetNodeAttr", "WaitAttr", "PMI2_Info_GetNodeAttrIntArray",
            "PMI2_Info_PutNodeAttr", "PMI2_Info_GetJobAttr"}
GetAttrOps == {"PMI2_Info_GetNodeAttr", "WaitAttr", "PMI2_Info_GetNodeAttrIntArray"}
NameservOps == {"PMI2_Nameserv_publish", "PMI2_Nameserv_lookup", "PMI2_Nameserv_unpublish"}
JobOps == {"PMI2_Job_GetId", "PMI2_Job_Connect", "PMI2_Job_Disconnect", "PMI2_Job_Spawn"}
Ops == KvsOps \cup InfoOps \cup NameservOps \cup JobOps \cup {"PMI2_Init", "PMI2_Finalize"}
CallerOps == {"create", "join"}

(* Mutant: the puts do not take the mutex. *)
LockedNoPut == (KvsOps \ {"PMI2_KVS_Put"}) \cup InfoOps \cup NameservOps
Locked == KvsOps \cup InfoOps \cup NameservOps

ASSUME Pmi2Assumption ==
  /\ Size \in Nat \ {0} /\ ThreadNum \in Nat \ {0}
  /\ \A job \in Jobs : \A t \in Thread :
       job[t] \in Seq(IF t[2] = 0 THEN Ops \cup CallerOps ELSE Ops)
  /\ None \notin Int

VARIABLES
  launched,            \* the PM started the processes and has set PMI_FD
  versionOk,           \* the PM accepts the version of the client
  program, pc,         \* [Thread]: the calls, and the one that is next
  phase,               \* [Thread]: "idle", "write" or "read"
  cmd,                 \* [Thread]: the command of the call
  ret,                 \* [Thread]: what the last call returned
  started, alive,      \* [Rank]: the other threads run; the process lives
  pmi2_mutex,          \* [Rank]: the thread that holds it, or None
  PMI2_initialized,    \* [Rank]: "uninit", "singleton" or "normal"
  fd,                  \* [Rank]: PMI2_fd is "none", "open" or "closed"
  toPm, toClient,      \* [Rank]: commands and responses under way
  pm, committed, puts, attrs,  \* the PM, its keys, keys to commit, attributes
  fencing,             \* the processes the PM has in the fence
  entered, left        \* [Rank]: fences called, and fences left

jobVars == <<launched, versionOk, program>>
callVars == <<pc, phase, cmd, ret>>
procVars == <<started, alive, pmi2_mutex, PMI2_initialized, fd>>
wireVars == <<toPm, toClient>>
pmVars == <<pm, committed, puts, attrs, fencing>>
countVars == <<entered, left>>
vars == <<jobVars, callVars, procVars, wireVars, pmVars, countVars>>

Init ==
  /\ launched \in BOOLEAN /\ versionOk \in BOOLEAN
  /\ program \in Jobs
  /\ pc = [t \in Thread |-> 1] /\ phase = [t \in Thread |-> "idle"]
  /\ cmd = [t \in Thread |-> "none"]
  /\ ret = [t \in Thread |-> [op |-> "none", ok |-> TRUE, val |-> None]]
  /\ started = [r \in Rank |-> FALSE] /\ alive = [r \in Rank |-> TRUE]
  /\ pmi2_mutex = [r \in Rank |-> None]
  /\ PMI2_initialized = [r \in Rank |-> "uninit"] /\ fd = [r \in Rank |-> "none"]
  /\ toPm = [r \in Rank |-> <<>>] /\ toClient = [r \in Rank |-> <<>>]
  /\ pm = "up" /\ committed = {} /\ puts = {} /\ attrs = {} /\ fencing = {}
  /\ entered = [r \in Rank |-> 0] /\ left = [r \in Rank |-> 0]

Ended(t) == pc[t] > Len(program[t])
Op(t) == program[t][pc[t]]
Runs(t) == alive[t[1]] /\ (t[2] = 0 \/ started[t[1]])
Ready(t) == Runs(t) /\ phase[t] = "idle" /\ ~Ended(t)

-----------------------------------------------------------------------------
(* The caller creates and joins its threads. *)
Create(t) ==
  /\ Ready(t) /\ Op(t) = "create"
  /\ started' = [started EXCEPT ![t[1]] = TRUE]
  /\ pc' = [pc EXCEPT ![t] = @ + 1]
  /\ UNCHANGED <<jobVars, phase, cmd, ret, alive, pmi2_mutex, PMI2_initialized, fd,
                 wireVars, pmVars, countVars>>

Join(t) ==
  /\ Ready(t) /\ Op(t) = "join"
  /\ \A u \in Thread : u[1] = t[1] /\ u # t => Ended(u)
  /\ pc' = [pc EXCEPT ![t] = @ + 1]
  /\ UNCHANGED <<jobVars, phase, cmd, ret, procVars, wireVars, pmVars, countVars>>

(* A call begins: the mutex is taken, and the command is put together. *)
Begin(t, c) ==
  /\ cmd' = [cmd EXCEPT ![t] = c]
  /\ phase' = [phase EXCEPT ![t] = "write"]
  /\ UNCHANGED <<pc, ret>>

(* PMI2_Init with PMI_FD: first the handshake of version 1. *)
CallInit(t) ==
  /\ Ready(t) /\ Op(t) = "PMI2_Init" /\ launched
  /\ fd' = [fd EXCEPT ![t[1]] = "open"]
  /\ Begin(t, "init")
  /\ UNCHANGED <<jobVars, started, alive, pmi2_mutex, PMI2_initialized, wireVars, pmVars, countVars>>

Call(t) ==
  /\ Ready(t) /\ Op(t) \in Ops \ {"PMI2_Init"}
  /\ Op(t) = "PMI2_Finalize" => PMI2_initialized[t[1]] = "normal"
  /\ IF Op(t) \in Locked
     THEN pmi2_mutex[t[1]] = None /\ pmi2_mutex' = [pmi2_mutex EXCEPT ![t[1]] = t[2]]
     ELSE pmi2_mutex' = pmi2_mutex
  /\ Begin(t, Op(t))
  /\ entered' = IF Op(t) = "PMI2_KVS_Fence" THEN [entered EXCEPT ![t[1]] = @ + 1] ELSE entered
  /\ UNCHANGED <<jobVars, started, alive, PMI2_initialized, fd, wireVars, pmVars, left>>

-----------------------------------------------------------------------------
(* The call returns.  fn_exit of the locked functions unlocks the mutex.   *)

Unlock(t) ==
  pmi2_mutex' = IF Op(t) \in Locked THEN [pmi2_mutex EXCEPT ![t[1]] = None] ELSE pmi2_mutex

Return(t, ok, val) ==
  /\ ret' = [ret EXCEPT ![t] = [op |-> Op(t), ok |-> ok, val |-> val]]
  /\ pc' = [pc EXCEPT ![t] = @ + 1]
  /\ phase' = [phase EXCEPT ![t] = "idle"]
  /\ cmd' = [cmd EXCEPT ![t] = "none"]
  /\ Unlock(t)

(* PMI2_Init without PMI_FD, and PMI2_Finalize without a PM. *)
CallLocal(t) ==
  /\ Ready(t)
  /\ \/ /\ Op(t) = "PMI2_Init" /\ ~launched
        /\ PMI2_initialized' = [PMI2_initialized EXCEPT ![t[1]] = "singleton"]
     \/ /\ Op(t) = "PMI2_Finalize" /\ PMI2_initialized[t[1]] # "normal"
        /\ UNCHANGED PMI2_initialized
  /\ Return(t, TRUE, None)
  /\ UNCHANGED <<jobVars, started, alive, fd, wireVars, pmVars, countVars>>

Fail(t) ==
  /\ Return(t, FALSE, None)
  /\ UNCHANGED <<PMI2_initialized, fd, left>>

-----------------------------------------------------------------------------
(* PMIi_WriteSimpleCommand *)
Writing(t) == Runs(t) /\ phase[t] = "write"

(* val_too_long: nothing is written. *)
WriteRefused(t) ==
  /\ Writing(t) /\ cmd[t] = "PutLong"
  /\ Fail(t)
  /\ UNCHANGED <<jobVars, started, alive, wireVars, pmVars, entered>>

CanWrite(t) == Writing(t) /\ cmd[t] # "PutLong"

(* Mutant: a fence does not wait for the response. *)
WriteNoWait(t) ==
  /\ CanWrite(t) /\ fd[t[1]] = "open" /\ pm = "up"
  /\ toPm' = [toPm EXCEPT ![t[1]] = Append(@, [thread |-> t[2], cmd |-> cmd[t]])]
  /\ IF cmd[t] = "PMI2_KVS_Fence"
     THEN Return(t, TRUE, None) /\ left' = [left EXCEPT ![t[1]] = @ + 1]
     ELSE phase' = [phase EXCEPT ![t] = "read"] /\ UNCHANGED <<pc, cmd, ret, pmi2_mutex, left>>
  /\ UNCHANGED <<jobVars, started, alive, PMI2_initialized, fd, toClient, pmVars, entered>>

Write(t) ==
  /\ CanWrite(t) /\ fd[t[1]] = "open" /\ pm = "up"
  /\ toPm' = [toPm EXCEPT ![t[1]] = Append(@, [thread |-> t[2], cmd |-> cmd[t]])]
  /\ phase' = [phase EXCEPT ![t] = "read"]
  /\ UNCHANGED <<jobVars, pc, cmd, ret, procVars, toClient, pmVars, countVars>>

WriteFails(t) ==
  /\ CanWrite(t) /\ (fd[t[1]] # "open" \/ pm = "down")
  /\ Fail(t)
  /\ UNCHANGED <<jobVars, started, alive, wireVars, pmVars, entered>>

(* SIGPIPE, unless whoever started the process ignores it. *)
Sigpipe(t) ==
  /\ CanWrite(t) /\ fd[t[1]] = "open" /\ pm = "down"
  /\ alive' = [alive EXCEPT ![t[1]] = FALSE]
  /\ UNCHANGED <<jobVars, callVars, started, pmi2_mutex, PMI2_initialized, fd, wireVars, pmVars, countVars>>

-----------------------------------------------------------------------------
(* PMIi_ReadCommandExp, and what the call makes of the response. *)
Reading(t) == Runs(t) /\ phase[t] = "read"

(* The second half of PMI2_Init. *)
InitResponse(t, resp) ==
  \/ /\ cmd[t] = "init"
     /\ IF resp.cmd = "init" /\ resp.ok
        THEN Begin(t, "fullinit") /\ UNCHANGED pmi2_mutex
        ELSE Return(t, FALSE, None)
     /\ UNCHANGED PMI2_initialized
  \/ /\ cmd[t] = "fullinit"
     /\ LET ok == resp.cmd = "fullinit" /\ resp.ok
        IN  /\ Return(t, ok, resp.val)
            /\ PMI2_initialized' = IF ok THEN [PMI2_initialized EXCEPT ![t[1]] = "normal"]
                                   ELSE PMI2_initialized

ReadInit(t) ==
  /\ Reading(t) /\ Op(t) = "PMI2_Init" /\ toClient[t[1]] # <<>>
  /\ InitResponse(t, Head(toClient[t[1]]))
  /\ toClient' = [toClient EXCEPT ![t[1]] = Tail(@)]
  /\ UNCHANGED <<jobVars, started, alive, fd, toPm, pmVars, countVars>>

(* PMI2_Job_Spawn does not look at the rc of the response, but at whether  *)
(* it names a job.                                                         *)
Accepts(op, resp) == IF op = "PMI2_Job_Spawn" THEN resp.val # None ELSE resp.ok

(* bad_cmd, an rc other than 0, or a key that is not there are errors. *)
Read(t) ==
  /\ Reading(t) /\ Op(t) # "PMI2_Init" /\ toClient[t[1]] # <<>>
  /\ LET resp == Head(toClient[t[1]])
         ok == resp.cmd = cmd[t] /\ Accepts(Op(t), resp)
     IN  /\ Return(t, ok, IF ok THEN resp.val ELSE None)
         /\ fd' = IF Op(t) = "PMI2_Finalize" /\ ok THEN [fd EXCEPT ![t[1]] = "closed"] ELSE fd
         /\ left' = IF Op(t) = "PMI2_KVS_Fence" /\ ok THEN [left EXCEPT ![t[1]] = @ + 1] ELSE left
  /\ toClient' = [toClient EXCEPT ![t[1]] = Tail(@)]
  /\ UNCHANGED <<jobVars, started, alive, PMI2_initialized, toPm, pmVars, entered>>

(* Mutant: the read is repeated until a response comes. *)
ReadFailsAgain(t) ==
  /\ Reading(t) /\ toClient[t[1]] = <<>> /\ (fd[t[1]] # "open" \/ pm = "down")
  /\ UNCHANGED vars

(* End of file or an error. *)
ReadFails(t) ==
  /\ Reading(t) /\ toClient[t[1]] = <<>> /\ (fd[t[1]] # "open" \/ pm = "down")
  /\ Fail(t)
  /\ UNCHANGED <<jobVars, started, alive, wireVars, pmVars, entered>>

ClientStep(t) ==
  \/ Create(t) \/ Join(t) \/ CallInit(t) \/ Call(t) \/ CallLocal(t)
  \/ WriteRefused(t) \/ Write(t) \/ WriteFails(t) \/ Sigpipe(t)
  \/ ReadInit(t) \/ Read(t) \/ ReadFails(t)

-----------------------------------------------------------------------------
(* The process manager.  One that refuses the version refuses every        *)
(* command; it cannot spawn, and may or may not name a job all the same.   *)
Respond(r, req, ok, val) ==
  toClient' = [toClient EXCEPT ![r] =
                 Append(@, [thread |-> req.thread, cmd |-> req.cmd, ok |-> ok, val |-> val])]

PmOk(r, c) ==
  /\ versionOk
  /\ c # "PMI2_Job_Spawn"
  /\ c = "PMI2_KVS_Get" => Partner(r) \in committed
PmVals(r, c) ==
  CASE c = "fullinit" -> {r}
    [] c = "PMI2_Job_Spawn" -> {r, None}
    [] c = "PMI2_KVS_Get" /\ Partner(r) \in committed -> {Partner(r)}
    [] c \in GetAttrOps /\ Partner(r) \in attrs -> {Partner(r)}
    [] OTHER -> {None}

PmAnswer(r) ==
  /\ pm = "up" /\ toPm[r] # <<>>
  /\ LET req == Head(toPm[r]) IN
       /\ versionOk => /\ req.cmd # "PMI2_KVS_Fence"
                       /\ req.cmd = "WaitAttr" => Partner(r) \in attrs
       /\ \E val \in PmVals(r, req.cmd) : Respond(r, req, PmOk(r, req.cmd), val)
       /\ puts' = IF req.cmd = "PMI2_KVS_Put" THEN puts \cup {r} ELSE puts
       /\ attrs' = IF req.cmd = "PMI2_Info_PutNodeAttr" THEN attrs \cup {r} ELSE attrs
  /\ toPm' = [toPm EXCEPT ![r] = Tail(@)]
  /\ UNCHANGED <<jobVars, callVars, procVars, pm, committed, fencing, countVars>>

PmFenceIn(r) ==
  /\ pm = "up" /\ versionOk /\ toPm[r] # <<>>
  /\ LET req == Head(toPm[r])
     IN  req.cmd = "PMI2_KVS_Fence" /\ fencing' = fencing \cup {<<r, req.thread>>}
  /\ toPm' = [toPm EXCEPT ![r] = Tail(@)]
  /\ UNCHANGED <<jobVars, callVars, procVars, toClient, pm, committed, puts, attrs, countVars>>

PmFenceOut ==
  /\ pm = "up" /\ {t[1] : t \in fencing} = Rank
  /\ committed' = committed \cup puts
  /\ puts' = {} /\ fencing' = {}
  /\ toClient' = [r \in Rank |->
       LET t == CHOOSE u \in fencing : u[1] = r
       IN  Append(toClient[r], [thread |-> t[2], cmd |-> "PMI2_KVS_Fence", ok |-> TRUE, val |-> None])]
  /\ UNCHANGED <<jobVars, callVars, procVars, toPm, pm, attrs, countVars>>

(* The PM dies; commands it has not read are lost. *)
PmCrash ==
  /\ launched /\ pm = "up"
  /\ pm' = "down"
  /\ toPm' = [r \in Rank |-> <<>>] /\ fencing' = {}
  /\ UNCHANGED <<jobVars, callVars, procVars, toClient, committed, puts, attrs, countVars>>

PmStep == PmFenceOut \/ \E r \in Rank : PmAnswer(r) \/ PmFenceIn(r)

AllReturned == \A t \in Thread : Ended(t) \/ ~alive[t[1]]
Over == AllReturned /\ UNCHANGED vars

Next == (\E t \in Thread : ClientStep(t)) \/ PmStep \/ PmCrash \/ Over

Spec == Init /\ [][Next]_vars

(* Threads are scheduled, and a PM that is up answers. *)
FairSpec == Spec /\ WF_vars(PmStep) /\ \A t \in Thread : WF_vars(ClientStep(t))

-----------------------------------------------------------------------------
Cmds == Ops \cup {"init", "fullinit"}
Value == Rank \cup {None}

(* Type invariant.  The mutex is held by nobody but a thread that is in    *)
(* one of the calls that take it.                                          *)
TypeOK ==
  /\ launched \in BOOLEAN /\ versionOk \in BOOLEAN
  /\ \A t \in Thread : pc[t] \in 1 .. Len(program[t]) + 1
  /\ phase \in [Thread -> {"idle", "write", "read"}]
  /\ cmd \in [Thread -> Cmds \cup {"none"}]
  /\ ret \in [Thread -> [op : Ops \cup {"none"}, ok : BOOLEAN, val : Value]]
  /\ started \in [Rank -> BOOLEAN] /\ alive \in [Rank -> BOOLEAN]
  /\ pmi2_mutex \in [Rank -> (0 .. ThreadNum - 1) \cup {None}]
  /\ \A r \in Rank : pmi2_mutex[r] # None =>
       LET t == <<r, pmi2_mutex[r]>> IN phase[t] # "idle" /\ Op(t) \in Locked
  /\ PMI2_initialized \in [Rank -> {"uninit", "singleton", "normal"}]
  /\ fd \in [Rank -> {"none", "open", "closed"}]
  /\ toPm \in [Rank -> Seq([thread : 0 .. ThreadNum - 1, cmd : Cmds])]
  /\ toClient \in [Rank -> Seq([thread : 0 .. ThreadNum - 1, cmd : Cmds, ok : BOOLEAN, val : Value])]
  /\ pm \in {"up", "down"} /\ committed \subseteq Rank /\ puts \subseteq Rank
  /\ attrs \subseteq Rank /\ fencing \subseteq Thread
  /\ entered \in [Rank -> Nat] /\ left \in [Rank -> Nat]

(* Although responses name no thread, each thread reads the response to    *)
(* its own command: a process never has more than one command under way,   *)
(* as long as the functions without the mutex are called while no other    *)
(* thread is in a call.                                                    *)
Matched ==
  \A r \in Rank :
    /\ Len(toPm[r]) + Len(toClient[r]) + Cardinality({t \in fencing : t[1] = r}) <= 1
    /\ \A t \in Thread : t[1] = r /\ Reading(t) /\ toClient[r] # <<>> =>
         Head(toClient[r]).thread = t[2] /\ Head(toClient[r]).cmd = cmd[t]

(* "all PMI2_KVS_Put operations performed by any process in the same job   *)
(* must be visible to all processes (by using PMI2_KVS_Get) after          *)
(* PMI2_KVS_Fence completes" (pmi2.h): whichever thread of a process gets. *)
Fences(p, i) == Cardinality({j \in 1 .. i : p[j] = "PMI2_KVS_Fence"})
PutsBefore(q, n) ==
  LET p == program[<<q, 0>>]
  IN  \E i \in 1 .. Len(p) : p[i] = "PMI2_KVS_Put" /\ Fences(p, i) < n
GetAfterFence ==
  \A t \in Thread :
    (/\ Reading(t) /\ cmd[t] = "PMI2_KVS_Get" /\ toClient[t[1]] # <<>> /\ versionOk
     /\ PutsBefore(Partner(t[1]), left[t[1]]))
    => Head(toClient[t[1]]).ok /\ Head(toClient[t[1]]).val = Partner(t[1])

(* Every thread comes to the end of its calls (or the process is killed),  *)
(* whatever fails: nobody waits for ever for a response or for the mutex.  *)
(* PMI2_Info_GetNodeAttr holds the mutex while it waits for an attribute,  *)
(* so the processes can lock each other out.  That is the one exception,   *)
(* and only while each of them waits for an attribute nobody has put.      *)
WaitsForAttr(t) == Reading(t) /\ cmd[t] = "WaitAttr" /\ Partner(t[1]) \notin attrs
LockedOut == \A r \in Rank : \E t \in Thread : t[1] = r /\ WaitsForAttr(t)
AllReturn == <>[](AllReturned \/ LockedOut)

(* PMI2_KVS_Fence is the barrier that Barrier.tla promises to pmi_barrier, *)
(* however often it is used: a process may be in its next fence while the  *)
(* other one still reads the response to the last.  A fence that fails is  *)
(* to the others one that never returns, and so are those after it.        *)
Promised == INSTANCE Barrier WITH
  Party <- Rank, Group <- [r \in Rank |-> Rank],
  entered <- [r \in Rank |-> IF entered[r] > left[r] THEN left[r] + 1 ELSE entered[r]]
FenceImplementsBarrier == Promised!SafeSpec
=============================================================================
