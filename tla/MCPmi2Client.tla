---------------------------- MODULE MCPmi2Client ----------------------------
(***************************************************************************)
(* Two processes of two threads that call the PMI-2 client: an address     *)
(* exchange around a fence in the main thread, while the other thread gets *)
(* and puts, waits for an attribute or uses the name server.  In one job   *)
(* the processes meet in a second fence, which one of them may call while  *)
(* the other is still leaving the first, or after its first has failed.    *)
(* In one job the other threads may wait before the main threads have put  *)
(* the attribute.  The job functions are called while there is only one    *)
(* thread.                                                                 *)
(***************************************************************************)
EXTENDS Pmi2Client, Pmi2Wire, Functions

CONSTANTS ValueBound,   \* length of the values tried
          TextBound     \* length of the texts tried

Main(calls) ==
  <<"PMI2_Init", "PMI2_Info_PutNodeAttr", "create", "PMI2_KVS_Put", "PMI2_KVS_Fence">>
    \o calls \o <<"PMI2_Finalize">>

(* One job per row: what the main threads call after the fence, and what   *)
(* the other thread of either process calls.                               *)
TwoProcesses(calls, side0, side1) ==
  [t \in Thread |-> IF t[2] = 0 THEN Main(calls) ELSE IF t[1] = 0 THEN side0 ELSE side1]
WaitFirst ==
  [t \in Thread |->
     IF t[2] = 0 THEN <<"PMI2_Init", "create", "PMI2_Info_PutNodeAttr", "PMI2_KVS_Fence", "join", "PMI2_Finalize">>
     ELSE <<"WaitAttr">>]
TestJobs ==
  { TwoProcesses(<<"PMI2_KVS_Get", "PMI2_KVS_Fence", "join", "PMI2_Job_Spawn">>,
                 <<"PutLong", "PMI2_KVS_Get">>, <<"WaitAttr">>),
    TwoProcesses(<<"PMI2_Info_GetJobAttr", "join", "PMI2_Job_GetId">>,
                 <<"PMI2_KVS_Get", "PMI2_Info_GetNodeAttrIntArray">>, <<"PMI2_Nameserv_publish">>),
    WaitFirst }

(* The property of the command text depends on no state and is evaluated   *)
(* at the start.                                                           *)
AtStart == launched /\ versionOk /\ pm = "up" /\ pc = [t \in Thread |-> 1] /\ cmd = [t \in Thread |-> "none"]
Strings(chars, n) == UNION {[1 .. k -> chars] : k \in 0 .. n}

KeyVal(k, v) == [key |-> k, value |-> v]
Commands ==
  {[name |-> n, pairs |-> <<KeyVal(k, v), KeyVal(<<"k">>, w)>>] :
     n \in Strings({"x"}, ValueBound), k \in {<<>>, <<"k">>, <<"k", "l">>},
     v \in Strings({"x", Eq, Semi}, ValueBound), w \in Strings({"x", Semi}, ValueBound)}
WithinLimits(c) ==
  /\ Len(c.name) <= PMI2_MAX_VALLEN
  /\ \A i \in DOMAIN c.pairs : /\ Len(c.pairs[i].key) <= PMI2_MAX_KEYLEN
                                /\ Len(c.pairs[i].value) <= PMI2_MAX_VALLEN
PairLen(p) ==
  Len(p.key) + Len(p.value) + Cardinality({i \in DOMAIN p.value : p.value[i] = Semi}) + 2
TextLen(c) == PairLen(KeyVal(CmdKey, c.name)) + SumFunction([i \in DOMAIN c.pairs |-> PairLen(c.pairs[i])])

(* A command that PMIi_WriteSimpleCommand writes comes out of              *)
(* PMIi_ReadCommand as it went in, also when values contain ';' or '=' or  *)
(* are empty or as long as is allowed, and the array allocated for its     *)
(* pairs has the right size.  Written are exactly the commands within the  *)
(* limits whose text, with every ';' of a value doubled, is shorter than   *)
(* the buffer.                                                             *)
WrittenIsRead ==
  \A c \in Commands :
    LET w == WriteCommand(c.name, c.pairs)
        pairs == <<KeyVal(CmdKey, c.name)>> \o c.pairs
    IN  /\ w.rc = "ok" <=> WithinLimits(c) /\ TextLen(c) < CommandRoom
        /\ w.rc = "ok" => /\ ReadCommand(w.buf) = [ok |-> TRUE, pairs |-> pairs]
                          /\ CountPairs(w.buf) = Len(pairs)

(* Whatever text arrives, malformed ones included, no more pairs are       *)
(* stored than were counted and allocated, and on success as many, so that *)
(* the search for a key looks at no entry that was not set.  Keys with a   *)
(* ';' in them are the exception: it is counted as the end of a pair.      *)
StoredIsAllocated ==
  \A buf \in Strings({"c", Eq, Semi}, TextBound) :
    LET r == ReadCommand(buf)
    IN  /\ Len(r.pairs) <= CountPairs(buf)
        /\ r.ok /\ (\A i \in DOMAIN r.pairs : Semi \notin Range(r.pairs[i].key))
           => Len(r.pairs) = CountPairs(buf)

(* The text of a command is read as it was written, and no text makes the  *)
(* reader store more pairs than it has allocated.                          *)
CommandRoundTrip == AtStart => WrittenIsRead /\ StoredIsAllocated
=============================================================================
