----------------------------- MODULE SimplePmi -----------------------------
(***************************************************************************)
(* The PMI-1 client (src/modules/pmi/pmi1/simple/simple_pmi.c): every      *)
(* process of the job talks over its own descriptor with one process       *)
(* manager (PM), a line per request and a line per response.               *)
(*                                                                         *)
(* A process runs a program, the sequence of PMI calls its caller makes;   *)
(* the wrapper ignores what the calls return, so a program goes on after a *)
(* failure.  A call is a GetResponse: write a request, read the response.  *)
(* PMI_Init is two or more of them in a row.  The PM is not under src/:    *)
(* it answers requests in order, releases a barrier when all processes are *)
(* in it, ends the job at an abort, and may itself die.                    *)
(***************************************************************************)
EXTENDS Integers, Sequences, FiniteSets

CONSTANTS Size,       \* processes of the job
          Programs,   \* what a process may call, one sequence each
          Crashes,    \* the PM may die
          None        \* no value

Rank == 0 .. Size - 1

NameOps == {"PMI_Publish_name", "PMI_Unpublish_name", "PMI_Lookup_name"}
(* These do nothing, successfully, without a PM. *)
QuietOps == {"PMI_Barrier", "PMI_Finalize", "PMI_Get_universe_size", "PMI_Get_appnum"}
(* PMI_KVS_Put_long is a put whose line does not fit in PMIU_MAXLINE. *)
PutOps == {"PMI_KVS_Put", "PMI_KVS_Put_long"}
Ops == NameOps \cup QuietOps \cup PutOps
         \cup {"PMI_Init", "PMI_KVS_Get_my_name", "PMI_KVS_Get", "PMI_Abort"}

(* The request an operation sends. *)
Request == [op \in Ops |->
  CASE op = "PMI_Init" -> "init"
    [] op = "PMI_KVS_Get_my_name" -> "get_my_kvsname"
    [] op \in PutOps -> "put"
    [] op = "PMI_KVS_Get" -> "get"
    [] op = "PMI_Barrier" -> "barrier_in"
    [] op = "PMI_Finalize" -> "finalize"
    [] op = "PMI_Get_universe_size" -> "get_universe_size"
    [] op = "PMI_Get_appnum" -> "get_appnum"
    [] op = "PMI_Publish_name" -> "publish_name"
    [] op = "PMI_Unpublish_name" -> "unpublish_name"
    [] op = "PMI_Lookup_name" -> "lookup_name"
    [] op = "PMI_Abort" -> "abort"]

(* The commands of PMI_Init after the first: PMI_Abort because the read    *)
(* failed, PMI_Abort because the answer is not the expected one, maxes.    *)
InitCmds == {"abort_read", "abort_init", "get_maxes"}
Cmds == {Request[op] : op \in Ops} \cup InitCmds
Aborts == {"abort", "abort_read", "abort_init"}

(* The command name of the answer to each request. *)
Answer == [c \in Cmds |->
  CASE c = "init" -> "response_to_init"
    [] c = "get_maxes" -> "maxes"
    [] c = "get_my_kvsname" -> "my_kvsname"
    [] c = "put" -> "put_result"
    [] c = "get" -> "get_result"
    [] c = "barrier_in" -> "barrier_out"
    [] c = "finalize" -> "finalize_ack"
    [] c = "get_universe_size" -> "universe_size"
    [] c = "get_appnum" -> "appnum"
    [] c = "publish_name" -> "publish_result"
    [] c = "unpublish_name" -> "unpublish_result"
    [] c = "lookup_name" -> "lookup_result"
    [] c \in Aborts -> ""]

PMI_SUCCESS == 0
PMI_FAIL == -1

Partner(r) == (r + 1) % Size     \* whose key and service a process asks for
Keys == Rank                     \* key and value of a process are its rank
Responses == [name : {Answer[c] : c \in Cmds}, rc : {PMI_SUCCESS, PMI_FAIL},
              val : Rank \cup {None}]

ASSUME PmiAssumption ==
  /\ Size \in Nat \ {0}
  /\ Programs \subseteq Seq(Ops)
  /\ Crashes \in BOOLEAN
  /\ None \notin Int

VARIABLES
  launched,            \* the PM started the processes and has set PMI_FD
  versionOk,           \* the PM accepts the version of the client
  program, pc,         \* [Rank]: the calls, and the one that is next
  alive,               \* [Rank]: the process has not been killed
  PMI_initialized,     \* [Rank]: "uninit", "singleton" or "normal"
  PMI_fd,              \* [Rank]: "none", "open" or "closed"
  cmd, phase,          \* [Rank]: the GetResponse in progress
  maxes,               \* [Rank]: the handshake of PMI_Init succeeded
  ret,                 \* [Rank]: what the last call returned
  toPm, toClient,      \* [Rank]: lines on the wire
  pm, kvs, published,  \* the PM: "up" or "down", its keys, its services
  inBarrier,           \* the processes the PM has in the barrier
  called, passed       \* [Rank]: PMI_Barrier calls, and successful returns

jobVars == <<launched, versionOk, program>>
callVars == <<cmd, phase>>
stateVars == <<PMI_initialized, PMI_fd, maxes>>
wireVars == <<toPm, toClient>>
pmVars == <<pm, kvs, published, inBarrier>>
countVars == <<called, passed>>
vars == <<jobVars, pc, alive, stateVars, callVars, ret, wireVars, pmVars, countVars>>

Init ==
  /\ launched \in BOOLEAN /\ versionOk \in BOOLEAN
  /\ program \in [Rank -> Programs]
  /\ pc = [r \in Rank |-> 1]
  /\ alive = [r \in Rank |-> TRUE]
  /\ PMI_initialized = [r \in Rank |-> "uninit"]
  /\ PMI_fd = [r \in Rank |-> "none"]
  /\ cmd = [r \in Rank |-> "none"] /\ phase = [r \in Rank |-> "idle"]
  /\ maxes = [r \in Rank |-> FALSE]
  /\ ret = [r \in Rank |-> [op |-> "none", rc |-> PMI_SUCCESS, val |-> None]]
  /\ toPm = [r \in Rank |-> <<>>] /\ toClient = [r \in Rank |-> <<>>]
  /\ pm = "up" /\ kvs = [k \in Keys |-> None] /\ published = {}
  /\ inBarrier = {}
  /\ called = [r \in Rank |-> 0] /\ passed = [r \in Rank |-> 0]

Finished(r) == pc[r] > Len(program[r])
Op(r) == program[r][pc[r]]

-----------------------------------------------------------------------------
(* GetResponse starts on command c. *)
Ask(r, c) ==
  /\ cmd' = [cmd EXCEPT ![r] = c]
  /\ phase' = [phase EXCEPT ![r] = "write"]
  /\ UNCHANGED <<pc, ret>>

(* The call returns rc; v is what it has stored for the caller. *)
Return(r, rc, v) ==
  /\ ret' = [ret EXCEPT ![r] = [op |-> Op(r), rc |-> rc, val |-> v]]
  /\ pc' = [pc EXCEPT ![r] = @ + 1]
  /\ cmd' = [cmd EXCEPT ![r] = "none"]
  /\ phase' = [phase EXCEPT ![r] = "idle"]

(* Operations that do not talk to the PM in this state of the client. *)
IsLocal(op, st) ==
  \/ op \in QuietOps \cup NameOps /\ st # "normal"
  \/ op \in PutOps \cup {"PMI_KVS_Get_my_name"} /\ st = "singleton"
(* A put that is too long for a line is too long for the one pair that is  *)
(* kept without a PM as well (PMI_keylen_max, PMI_vallen_max).  The calls  *)
(* about names fail without a PM (454-458, and likewise the other two).    *)
LocalRc(op) == IF op \in NameOps \cup {"PMI_KVS_Put_long"} THEN PMI_FAIL ELSE PMI_SUCCESS

Ready(r) == alive[r] /\ phase[r] = "idle" /\ ~Finished(r)

CallLocal(r) ==
  /\ Ready(r)
  /\ IsLocal(Op(r), PMI_initialized[r])
  /\ Return(r, LocalRc(Op(r)), None)
  /\ UNCHANGED <<jobVars, alive, stateVars, wireVars, pmVars, countVars>>

(* Any operation but PMI_Init that sends its request. *)
Call(r) ==
  /\ Ready(r)
  /\ Op(r) # "PMI_Init" /\ ~IsLocal(Op(r), PMI_initialized[r])
  /\ Ask(r, Request[Op(r)])
  /\ called' = IF Op(r) = "PMI_Barrier" THEN [called EXCEPT ![r] = @ + 1] ELSE called
  /\ UNCHANGED <<jobVars, alive, stateVars, wireVars, pmVars, passed>>

(* PMI_Init without PMI_FD. *)
InitSingleton(r) ==
  /\ Ready(r) /\ Op(r) = "PMI_Init" /\ ~launched
  /\ PMI_initialized' = [PMI_initialized EXCEPT ![r] = "singleton"]
  /\ PMI_fd' = [PMI_fd EXCEPT ![r] = "none"]
  /\ maxes' = [maxes EXCEPT ![r] = TRUE]
  /\ Return(r, PMI_SUCCESS, None)
  /\ UNCHANGED <<jobVars, alive, wireVars, pmVars, countVars>>

(* PMI_Init with PMI_FD: PMII_getmaxes begins. *)
InitLaunched(r) ==
  /\ Ready(r) /\ Op(r) = "PMI_Init" /\ launched
  /\ PMI_initialized' = [PMI_initialized EXCEPT ![r] = "uninit"]
  /\ PMI_fd' = [PMI_fd EXCEPT ![r] = "open"]
  /\ Ask(r, "init")
  /\ UNCHANGED <<jobVars, alive, maxes, wireVars, pmVars, countVars>>

-----------------------------------------------------------------------------
(* PMIU_writeline.  A line that is too long is reported and dropped, and   *)
(* the caller told that all is well.                                       *)
TooLong(r) == Op(r) = "PMI_KVS_Put_long"
Writing(r) == alive[r] /\ phase[r] = "write"

(* Mutant: PMI_Barrier tells the PM and does not wait. *)
WriteNoWait(r) ==
  /\ Writing(r) /\ PMI_fd[r] = "open" /\ pm = "up" /\ ~TooLong(r)
  /\ toPm' = [toPm EXCEPT ![r] = Append(@, cmd[r])]
  /\ IF cmd[r] = "barrier_in"
     THEN Return(r, PMI_SUCCESS, None) /\ passed' = [passed EXCEPT ![r] = @ + 1]
     ELSE phase' = [phase EXCEPT ![r] = "read"] /\ UNCHANGED <<cmd, pc, ret, passed>>
  /\ UNCHANGED <<jobVars, alive, stateVars, toClient, pmVars, called>>

Write(r) ==
  /\ Writing(r) /\ PMI_fd[r] = "open" /\ pm = "up" /\ ~TooLong(r)
  /\ toPm' = [toPm EXCEPT ![r] = Append(@, cmd[r])]
  /\ phase' = [phase EXCEPT ![r] = "read"]
  /\ UNCHANGED <<jobVars, pc, alive, stateVars, cmd, ret, toClient, pmVars, countVars>>

WriteDropped(r) ==
  /\ Writing(r) /\ TooLong(r)
  /\ phase' = [phase EXCEPT ![r] = "read"]
  /\ UNCHANGED <<jobVars, pc, alive, stateVars, cmd, ret, wireVars, pmVars, countVars>>

(* Writing to a PM that is gone raises SIGPIPE, which kills the process    *)
(* unless whoever started it ignores the signal.                           *)
Sigpipe(r) ==
  /\ Writing(r) /\ PMI_fd[r] = "open" /\ pm = "down" /\ ~TooLong(r)
  /\ alive' = [alive EXCEPT ![r] = FALSE]
  /\ UNCHANGED <<jobVars, pc, stateVars, callVars, ret, wireVars, pmVars, countVars>>

-----------------------------------------------------------------------------
(* What an operation makes of the end of a GetResponse.  got: a line with  *)
(* the expected command came back, with rc and val.                        *)

InitReturn(r, ok) ==
  /\ PMI_initialized' = [PMI_initialized EXCEPT ![r] = "normal"]
  /\ maxes' = [maxes EXCEPT ![r] = ok]
  /\ PMI_fd' = PMI_fd
  /\ Return(r, PMI_SUCCESS, None)
  /\ passed' = passed

(* The publishing operations return PMI_SUCCESS when GetResponse fails. *)
ResultRc(op, got, rc) ==
  IF ~got THEN IF op \in NameOps THEN PMI_SUCCESS ELSE PMI_FAIL
  ELSE IF op \in NameOps \cup PutOps \cup {"PMI_KVS_Get"} THEN rc
  ELSE PMI_SUCCESS

OpReturn(r, got, rc, val) ==
  LET res == IF Op(r) = "PMI_Abort" THEN PMI_FAIL ELSE ResultRc(Op(r), got, rc) IN
  /\ Return(r, res, IF got /\ res = PMI_SUCCESS THEN val ELSE None)
  /\ PMI_fd' = IF Op(r) = "PMI_Finalize" THEN [PMI_fd EXCEPT ![r] = "closed"] ELSE PMI_fd
  /\ passed' = IF Op(r) = "PMI_Barrier" /\ got THEN [passed EXCEPT ![r] = @ + 1] ELSE passed
  /\ UNCHANGED <<PMI_initialized, maxes>>

Complete(r, got, rc, val) ==
  \/ /\ cmd[r] = "init"
     /\ IF got /\ rc = PMI_SUCCESS THEN Ask(r, "get_maxes") ELSE Ask(r, "abort_init")
     /\ UNCHANGED <<stateVars, passed>>
  \/ /\ cmd[r] = "abort_read"
     /\ Ask(r, "abort_init")
     /\ UNCHANGED <<stateVars, passed>>
  \/ /\ cmd[r] = "abort_init"
     /\ Ask(r, "get_maxes")
     /\ UNCHANGED <<stateVars, passed>>
  \/ /\ cmd[r] = "get_maxes"
     /\ InitReturn(r, got)
  \/ /\ cmd[r] \notin InitCmds \cup {"init"}
     /\ OpReturn(r, got, rc, val)

(* The descriptor is not open, or the PM is gone and SIGPIPE is ignored. *)
WriteFails(r) ==
  /\ Writing(r) /\ (PMI_fd[r] # "open" \/ pm = "down") /\ ~TooLong(r)
  /\ IF cmd[r] = "init" THEN InitReturn(r, FALSE) ELSE Complete(r, FALSE, PMI_FAIL, None)
  /\ UNCHANGED <<jobVars, alive, wireVars, pmVars, called>>

Reading(r) == alive[r] /\ phase[r] = "read"

(* Mutant: the line is left in the buffer when it reports an error. *)
ReadLineKeep(r) ==
  /\ Reading(r) /\ toClient[r] # <<>>
  /\ LET line == Head(toClient[r]) IN
       /\ Complete(r, line.name = Answer[cmd[r]], line.rc, line.val)
       /\ toClient' = IF line.rc = PMI_FAIL THEN toClient
                      ELSE [toClient EXCEPT ![r] = Tail(@)]
  /\ UNCHANGED <<jobVars, alive, toPm, pmVars, called>>

ReadLine(r) ==
  /\ Reading(r) /\ toClient[r] # <<>>
  /\ LET line == Head(toClient[r]) IN
       /\ Complete(r, line.name = Answer[cmd[r]], line.rc, line.val)
       /\ toClient' = [toClient EXCEPT ![r] = Tail(@)]
  /\ UNCHANGED <<jobVars, alive, toPm, pmVars, called>>

NothingToRead(r) == toClient[r] = <<>> /\ (PMI_fd[r] # "open" \/ pm = "down")

(* Mutant: the read is repeated until a line comes. *)
ReadFailsAgain(r) ==
  /\ Reading(r) /\ NothingToRead(r)
  /\ UNCHANGED vars

(* End of file. *)
ReadFails(r) ==
  /\ Reading(r) /\ NothingToRead(r)
  /\ Complete(r, FALSE, PMI_FAIL, None)
  /\ UNCHANGED <<jobVars, alive, wireVars, pmVars, called>>

(* An error, which PMII_getmaxes treats on its own. *)
ReadErrorInInit(r) ==
  /\ Reading(r) /\ NothingToRead(r) /\ cmd[r] = "init"
  /\ Ask(r, "abort_read")
  /\ UNCHANGED <<jobVars, alive, stateVars, wireVars, pmVars, countVars>>

ClientStep(r) ==
  \/ CallLocal(r) \/ Call(r) \/ InitSingleton(r) \/ InitLaunched(r)
  \/ Write(r) \/ WriteDropped(r) \/ Sigpipe(r) \/ WriteFails(r)
  \/ ReadLine(r) \/ ReadFails(r) \/ ReadErrorInInit(r)

-----------------------------------------------------------------------------
(* The process manager. *)

(* rc and value of its answer to command c of process r. *)
PmRc(r, c) ==
  IF \/ c = "init" /\ ~versionOk
     \/ c = "put" /\ kvs[r] # None
     \/ c = "get" /\ kvs[Partner(r)] = None
     \/ c = "publish_name" /\ r \in published
     \/ c = "unpublish_name" /\ r \notin published
     \/ c = "lookup_name" /\ Partner(r) \notin published
  THEN PMI_FAIL ELSE PMI_SUCCESS
PmVal(r, c) ==
  IF c \in {"get", "lookup_name"} /\ PmRc(r, c) = PMI_SUCCESS THEN Partner(r) ELSE None

PmAnswer(r) ==
  /\ pm = "up" /\ toPm[r] # <<>>
  /\ LET c == Head(toPm[r]) IN
       /\ c \notin Aborts \cup {"barrier_in"}
       /\ toClient' = [toClient EXCEPT ![r] =
            Append(@, [name |-> Answer[c], rc |-> PmRc(r, c), val |-> PmVal(r, c)])]
       /\ kvs' = IF c = "put" /\ PmRc(r, c) = PMI_SUCCESS THEN [kvs EXCEPT ![r] = r] ELSE kvs
       /\ published' = CASE c = "publish_name" -> published \cup {r}
                         [] c = "unpublish_name" -> published \ {r}
                         [] OTHER -> published
  /\ toPm' = [toPm EXCEPT ![r] = Tail(@)]
  /\ UNCHANGED <<jobVars, pc, alive, stateVars, callVars, ret, pm, inBarrier, countVars>>

PmBarrierIn(r) ==
  /\ pm = "up" /\ toPm[r] # <<>> /\ Head(toPm[r]) = "barrier_in"
  /\ inBarrier' = inBarrier \cup {r}
  /\ toPm' = [toPm EXCEPT ![r] = Tail(@)]
  /\ UNCHANGED <<jobVars, pc, alive, stateVars, callVars, ret, toClient, pm, kvs, published, countVars>>

PmBarrierOut ==
  /\ pm = "up" /\ inBarrier = Rank
  /\ inBarrier' = {}
  /\ toClient' = [r \in Rank |-> Append(toClient[r],
       [name |-> "barrier_out", rc |-> PMI_SUCCESS, val |-> None])]
  /\ UNCHANGED <<jobVars, pc, alive, stateVars, callVars, ret, toPm, pm, kvs, published, countVars>>

(* An abort ends the whole job. *)
PmAbort(r) ==
  /\ pm = "up" /\ toPm[r] # <<>> /\ Head(toPm[r]) \in Aborts
  /\ alive' = [q \in Rank |-> FALSE]
  /\ toPm' = [toPm EXCEPT ![r] = Tail(@)]
  /\ UNCHANGED <<jobVars, pc, stateVars, callVars, ret, toClient, pmVars, countVars>>

(* The PM dies; requests it has not read are lost. *)
PmCrash ==
  /\ Crashes /\ pm = "up"
  /\ pm' = "down"
  /\ toPm' = [r \in Rank |-> <<>>] /\ inBarrier' = {}
  /\ UNCHANGED <<jobVars, pc, alive, stateVars, callVars, ret, toClient, kvs, published, countVars>>

PmStep == \/ PmBarrierOut
          \/ \E r \in Rank : PmAnswer(r) \/ PmBarrierIn(r) \/ PmAbort(r)

(* Every process has come to its end. *)
Over == /\ \A r \in Rank : Finished(r) \/ ~alive[r]
        /\ UNCHANGED vars

Next == (\E r \in Rank : ClientStep(r)) \/ PmStep \/ PmCrash \/ Over

Spec == Init /\ [][Next]_vars

(* Processes are scheduled, and a PM that is up answers. *)
FairSpec == Spec /\ WF_vars(PmStep) /\ \A r \in Rank : WF_vars(ClientStep(r))

-----------------------------------------------------------------------------
(* Types of the state of client and PM. *)
TypeOK ==
  /\ launched \in BOOLEAN /\ versionOk \in BOOLEAN
  /\ program \in [Rank -> Programs] /\ pc \in [Rank -> Nat \ {0}]
  /\ \A r \in Rank : pc[r] <= Len(program[r]) + 1
  /\ alive \in [Rank -> BOOLEAN] /\ maxes \in [Rank -> BOOLEAN]
  /\ PMI_initialized \in [Rank -> {"uninit", "singleton", "normal"}]
  /\ PMI_fd \in [Rank -> {"none", "open", "closed"}]
  /\ cmd \in [Rank -> Cmds \cup {"none"}]
  /\ phase \in [Rank -> {"idle", "write", "read"}]
  /\ ret \in [Rank -> [op : Ops \cup {"none"}, rc : {PMI_SUCCESS, PMI_FAIL},
                       val : Rank \cup {None}]]
  /\ toPm \in [Rank -> Seq(Cmds)] /\ toClient \in [Rank -> Seq(Responses)]
  /\ pm \in {"up", "down"} /\ kvs \in [Keys -> Rank \cup {None}]
  /\ published \subseteq Rank /\ inBarrier \subseteq Rank
  /\ called \in [Rank -> Nat] /\ passed \in [Rank -> Nat]

InStepOf(r) ==
  /\ toPm[r] # <<>> => /\ phase[r] = "read" /\ toPm[r] = <<cmd[r]>>
                       /\ toClient[r] = <<>> /\ r \notin inBarrier
  /\ toClient[r] # <<>> => /\ phase[r] = "read" /\ Len(toClient[r]) = 1
                           /\ toClient[r][1].name = Answer[cmd[r]]
                           /\ r \notin inBarrier
  /\ r \in inBarrier => phase[r] = "read" /\ cmd[r] = "barrier_in"
  /\ pm = "down" \/ PMI_fd[r] # "open" => toPm[r] = <<>> /\ r \notin inBarrier

(* Request and response stay in step: the one thing that can be under way  *)
(* for a process is the request it is waiting on, or the answer to it, so  *)
(* no call ever reads the answer to an earlier one - however calls fail.   *)
InStep == \A r \in Rank : InStepOf(r)

(* PMI_Barrier returns PMI_SUCCESS only when all processes have called it, *)
(* also when the PM dies on the way and some calls fail.                   *)
BarrierHolds == \A r, q \in Rank : passed[r] <= called[q]

(* The call a process is in: what its command says. *)
InCallOf(r) ==
  /\ phase[r] = "idle" <=> cmd[r] = "none"
  /\ phase[r] # "idle" => /\ ~Finished(r)
                          /\ \/ cmd[r] = Request[Op(r)]
                             \/ cmd[r] \in InitCmds /\ Op(r) = "PMI_Init"
InCall == \A r \in Rank : InCallOf(r)

(* Barrier requests of a process that the PM has not answered yet, and     *)
(* barrier_out lines it has not read.                                      *)
Waiting(r) == IF phase[r] # "idle" /\ cmd[r] = "barrier_in" THEN 1 ELSE 0
Released(r) == IF toClient[r] # <<>> /\ cmd[r] = "barrier_in" THEN 1 ELSE 0

(* All processes have been let out of equally many barriers, and each has  *)
(* called one more for the one it is in.                                   *)
Rounds ==
  \A r, q \in Rank :
    /\ passed[r] + Released(r) = passed[q] + Released(q)
    /\ called[r] >= passed[r] + Waiting(r)

(* The inductive invariant of SimplePmiProofs.tla. *)
IInv == TypeOK /\ InCall /\ InStep /\ Rounds

(* Process q puts its value before its n-th barrier. *)
Barriers(p, i) == Cardinality({j \in 1 .. i : p[j] = "PMI_Barrier"})
PutsBefore(q, n) ==
  \E i \in 1 .. Len(program[q]) :
    program[q][i] = "PMI_KVS_Put" /\ Barriers(program[q], i) < n

(* What the address exchange of the benchmarks rests on: while the PM is   *)
(* up, a get finds what the other process has put before a barrier that    *)
(* the getting process has passed.                                         *)
GetAfterBarrier ==
  \A r \in Rank :
    (/\ ret[r].op = "PMI_KVS_Get" /\ pm = "up"
     /\ PutsBefore(Partner(r), passed[r]))
    => ret[r].rc = PMI_SUCCESS /\ ret[r].val = Partner(r)

(* What the callers of the library do: PMI_Init first and once, nothing    *)
(* after PMI_Finalize.                                                     *)
Conventional ==
  \A p \in Programs : \A i \in 1 .. Len(p) :
    /\ p[i] = "PMI_Init" <=> i = 1
    /\ p[i] = "PMI_Finalize" => i = Len(p)

(* With such programs, of process r: its descriptor is open from PMI_Init  *)
(* to PMI_Finalize,                                                        *)
Attached(r) ==
  /\ launched => /\ PMI_initialized[r] # "singleton"
                 /\ phase[r] # "idle" \/ pc[r] \in 2 .. Len(program[r]) => PMI_fd[r] = "open"
  /\ ~launched => /\ PMI_initialized[r] # "normal" /\ called[r] = 0
                  /\ pc[r] = 1 => phase[r] = "idle"
(* it has called no barrier that is not behind it in its program,          *)
Counted(r) == called[r] <= Barriers(program[r], pc[r] - 1) + Waiting(r)
(* the PM has what it has put,                                             *)
Stored(r) ==
  launched /\ pm = "up" =>
    /\ \A i \in 1 .. pc[r] - 1 : program[r][i] = "PMI_KVS_Put" => kvs[r] # None
    /\ toClient[r] # <<>> /\ cmd[r] = "put" => kvs[r] # None
(* a get that it has made, or that is answered, finds what was put,        *)
Found(r) ==
  pm = "up" /\ PutsBefore(Partner(r), passed[r]) =>
    /\ ret[r].op = "PMI_KVS_Get" => ret[r].rc = PMI_SUCCESS /\ ret[r].val = Partner(r)
    /\ toClient[r] # <<>> /\ cmd[r] = "get" =>
         toClient[r][1].rc = PMI_SUCCESS /\ toClient[r][1].val = Partner(r)
(* and a barrier that failed is followed by no other that succeeds.        *)
GivenUp(r) ==
  called[r] > passed[r] + Waiting(r) => pm = "down" /\ toClient[r] = <<>>

ExchangeOf(r) == Attached(r) /\ Counted(r) /\ Stored(r) /\ Found(r) /\ GivenUp(r)
ExchangeInv == \A r \in Rank : ExchangeOf(r)

(* PMI_Init returns PMI_SUCCESS only after a complete handshake. *)
InitHonest ==
  \A r \in Rank : ret[r].op = "PMI_Init" /\ ret[r].rc = PMI_SUCCESS => maxes[r]

(* Every call returns (or the process is killed): no process is left       *)
(* waiting for a line, whatever the PM does and whenever it dies.  What    *)
(* PMIU_writeline does with a line that is too long is the one exception:  *)
(* that put waits for an answer to a request that was not sent, and the    *)
(* other processes may wait for it in a barrier, and in nothing else.      *)
Unsent(r) == Reading(r) /\ TooLong(r)
CallsReturn ==
  <>[]\A r \in Rank :
    \/ Finished(r) \/ ~alive[r] \/ Unsent(r)
    \/ Reading(r) /\ cmd[r] = "barrier_in" /\ \E q \in Rank : Unsent(q)

(* PMI_Barrier with the PM behind it is the barrier Barrier.tla promises   *)
(* to proc_barrier and to the start-up of the benchmarks.  A call that     *)
(* fails, and every later one, is to the others one that never returns;    *)
(* that calls return while the PM is up is CallsReturn.                    *)
Promised == INSTANCE Barrier WITH
  Party <- Rank, Group <- [r \in Rank |-> Rank],
  entered <- [r \in Rank |-> IF called[r] > passed[r] THEN passed[r] + 1 ELSE called[r]],
  left <- passed
ImplementsBarrier == Promised!SafeSpec
=============================================================================
