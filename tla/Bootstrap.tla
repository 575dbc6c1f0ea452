----------------------------- MODULE Bootstrap -----------------------------
(***************************************************************************)
(* The life of a process of pingpong_prg around its workers, over verbs    *)
(* (src/include/bench_ib.hpp) or libfabric (src/include/bench_ofi.hpp):    *)
(* open the device, create queues and contexts, publish their addresses    *)
(* through PMI, read the partner's, connect, run the driver, free          *)
(* everything, leave.                                                      *)
(*                                                                         *)
(* Over verbs a worker's queue pair is addressed and connected to one      *)
(* queue pair of the partner.  Over libfabric the endpoint of a progress   *)
(* thread is addressed, nothing is connected, and a worker sends to the    *)
(* address of the partner's progress thread of its own class.              *)
(*                                                                         *)
(* pmi_put is a put followed by a barrier, so it is collective: every      *)
(* process has to make equally many.  Processes are started with the same  *)
(* arguments, which the constants below stand for.  The driver is seen     *)
(* here only through the pmi_barrier calls of its proc_barriers; between   *)
(* the first and the last of them the workers send.                        *)
(***************************************************************************)
EXTENDS Integers

CONSTANTS Size,             \* number of processes
          tx_thread_num,    \* workers, each with one send context
          rx_thread_num,    \* progress threads, each with one receive context
          DriverBarriers,   \* proc_barrier calls of RUN_VARY_MSG
          Word,             \* numbers an unsigned of the code can hold
          ctxNum,           \* [Ctx]: numbers the device gives to addressed contexts
          None              \* no value

ASSUME BootAssumption ==
  /\ Size \in Nat \ {0} /\ Size % 2 = 0
  /\ tx_thread_num \in Nat \ {0} /\ rx_thread_num \in Nat \ {0}
  /\ tx_thread_num % rx_thread_num = 0
  /\ DriverBarriers \in Nat \ {0}
  /\ Word \in Nat \ {0} /\ ctxNum \in [(0 .. Size - 1) \X (0 .. tx_thread_num - 1) -> 0 .. Word - 1]
  /\ None \notin Int \X Int

Rank == 0 .. Size - 1
Worker == 0 .. tx_thread_num - 1
Ctx == Rank \X Worker       \* a context, and the key its address is put under
PrgThread == 0 .. rx_thread_num - 1

(* Mutant: the partner is the next process. *)
target_rankNext(r) == (r + 1) % Size

target_rank(r) == (r + Size \div 2) % Size
Peer(c) == <<target_rank(c[1]), c[2]>>

(* get_num_ctx_addr: the workers' contexts are addressed over verbs, those *)
(* of the progress threads over libfabric.                                 *)
get_num_ctx_addr(b) == IF b = "ib" THEN tx_thread_num ELSE rx_thread_num

(* Verbs: sprintf("%d-%d", qp_num, lid) prints the unsigned qp_num as an   *)
(* int, and sscanf stores the int back into an unsigned; a lid fits in an  *)
(* int.                                                                    *)
printed_ib(n) == IF n < Word \div 2 THEN n ELSE n - Word
parsed_ib(k) == k % Word
Lid(r) == r

(* libfabric: "%016lx" shows every bit of the words of a name, and sscanf  *)
(* reads as many back.                                                     *)
printed_ofi(n) == n
parsed_ofi(k) == k % Word

printed(b, n) == IF b = "ib" THEN printed_ib(n) ELSE printed_ofi(n)
parsed(b, k) == IF b = "ib" THEN parsed_ib(k) ELSE parsed_ofi(k)

(* What a connected queue pair, or a send, names the context c by. *)
Address(c) == <<ctxNum[c], Lid(c[1])>>

VARIABLES
  backend,             \* "ib" or "ofi", chosen when the program is built
  stage, idx,          \* [Rank]: where main is, and its loop index
  live,                \* [Rank]: verbs or libfabric objects that exist
  qpState,             \* [Ctx]: state of a worker's queue pair or endpoint
  qpDest,              \* [Ctx]: number and lid a queue pair is connected to
  kvs,                 \* [Ctx]: the PMI key-value space
  addrs,               \* [Ctx]: what get_ctx_addr has read
  pmiIn, pmiOut        \* [Rank]: pmi_barrier calls and returns

qpVars == <<qpState, qpDest>>
pmiVars == <<pmiIn, pmiOut>>
vars == <<backend, stage, idx, live, qpVars, kvs, addrs, pmiVars>>

Pmi == INSTANCE Barrier WITH
  Party <- Rank, Group <- [r \in Rank |-> Rank], entered <- pmiIn, left <- pmiOut

(* The objects of a process: "rx_ctx" is the shared receive queue of a     *)
(* progress thread over verbs and its endpoint over libfabric, "tx_ctx" a  *)
(* worker's queue pair or endpoint.                                        *)
Device == <<"device", 0>>
TxObjects(i) == {<<"tx_cq", i>>, <<"tx_ctx", i>>}
RxObjects(p) == {<<"rx_cq", p>>, <<"rx_ctx", p>>}

(* The progress thread that serves worker i, and the address over which    *)
(* the worker sends with libfabric: addrs[thread_id % rx_thread_num].      *)
ClassOf(i) == i % rx_thread_num
Slot(c) == <<c[1], ClassOf(c[2])>>

(* What the send context of worker i was made with. *)
TxUses(b, i) == IF b = "ib" THEN {<<"tx_cq", i>>} \cup RxObjects(ClassOf(i)) ELSE {<<"tx_cq", i>>}

Init ==
  /\ backend \in {"ib", "ofi"}
  /\ stage = [r \in Rank |-> "device"] /\ idx = [r \in Rank |-> 0]
  /\ live = [r \in Rank |-> {}]
  /\ qpState = [c \in Ctx |-> "none"]
  /\ qpDest = [c \in Ctx |-> None]
  /\ kvs = [c \in Ctx |-> None] /\ addrs = [c \in Ctx |-> None]
  /\ Pmi!Init

Goto(r, s, i) == stage' = [stage EXCEPT ![r] = s] /\ idx' = [idx EXCEPT ![r] = i]

(* A loop of main over 0 .. bound - 1: its next round, or its end. *)
Round(r, s, bound) == stage[r] = s /\ idx[r] < bound
Over(r, s, bound) == stage[r] = s /\ idx[r] = bound

-----------------------------------------------------------------------------
(* init_device; the one of libfabric ends with a pmi_barrier. *)
device_ready(b) == IF b = "ib" THEN "createRx" ELSE "opened"

init_device(r) ==
  /\ stage[r] = "device"
  /\ live' = [live EXCEPT ![r] = @ \cup {Device}]
  /\ Goto(r, device_ready(backend), 0)
  /\ UNCHANGED <<qpVars, kvs, addrs, pmiVars>>

(* init_srq, init_cq and init_ctx.  A receive context only remembers the   *)
(* srq over verbs; over libfabric there is no srq and it is an endpoint.   *)
CreateRx(r) ==
  /\ Round(r, "createRx", rx_thread_num)
  /\ live' = [live EXCEPT ![r] = @ \cup RxObjects(idx[r])]
  /\ Goto(r, "createRx", idx[r] + 1)
  /\ UNCHANGED <<qpVars, kvs, addrs, pmiVars>>

CreateRxOver(r) ==
  /\ Over(r, "createRx", rx_thread_num)
  /\ Goto(r, "createTx", 0)
  /\ UNCHANGED <<live, qpVars, kvs, addrs, pmiVars>>

(* What init_ctx leaves a send context in: qp_create and qp_init, or       *)
(* fi_endpoint, fi_ep_bind and fi_enable.                                  *)
init_ctx(b) == IF b = "ib" THEN "INIT" ELSE "enabled"

CreateTx(r) ==
  /\ Round(r, "createTx", tx_thread_num)
  /\ live' = [live EXCEPT ![r] = @ \cup TxObjects(idx[r])]
  /\ qpState' = [qpState EXCEPT ![<<r, idx[r]>>] = init_ctx(backend)]
  /\ Goto(r, "createTx", idx[r] + 1)
  /\ UNCHANGED <<qpDest, kvs, addrs, pmiVars>>

CreateTxOver(r) ==
  /\ Over(r, "createTx", tx_thread_num)
  /\ Goto(r, "put", 0)
  /\ UNCHANGED <<live, qpVars, kvs, addrs, pmiVars>>

(* put_ctx_addr: PMI_KVS_Put, and PMI_Barrier in the next two actions. *)
put_ctx_addr(r) ==
  /\ Round(r, "put", get_num_ctx_addr(backend))
  /\ LET c == <<r, idx[r]>> IN
       kvs' = [kvs EXCEPT ![c] = <<printed(backend, ctxNum[c]), Lid(r)>>]
  /\ Goto(r, "stored", idx[r])
  /\ UNCHANGED <<live, qpVars, addrs, pmiVars>>

(* The places main, or thread 0 of its team, calls pmi_barrier from: in    *)
(* init_device, pmi_put, flush_ctx_addr, proc_barrier and comm_free.       *)
BarrierCall(r) ==
  \/ stage[r] = "opened" /\ Goto(r, "openBar", 0)
  \/ stage[r] = "stored" /\ Goto(r, "putBar", idx[r])
  \/ Over(r, "put", get_num_ctx_addr(backend)) /\ Goto(r, "flushBar", idx[r])
  \/ Round(r, "drive", DriverBarriers) /\ Goto(r, "driveBar", idx[r])
  \/ stage[r] = "leave" /\ Goto(r, "leaveBar", 0)

BarrierReturn(r) ==
  \/ stage[r] = "openBar" /\ Goto(r, "createRx", 0)
  \/ stage[r] = "putBar" /\ Goto(r, "put", idx[r] + 1)
  \/ stage[r] = "flushBar" /\ Goto(r, "get", 0)
  \/ stage[r] = "driveBar" /\ Goto(r, "drive", idx[r] + 1)
  \/ stage[r] = "leaveBar" /\ Goto(r, "finalize", 0)

EnterBarrier(r) ==
  /\ BarrierCall(r)
  /\ Pmi!Enter(r)
  /\ UNCHANGED <<live, qpVars, kvs, addrs>>

(* Mutant: a barrier that does not wait, as when PMI_Barrier fails and     *)
(* pmi_barrier drops the error.                                            *)
LeaveBarrierEarly(r) ==
  /\ BarrierReturn(r)
  /\ pmiOut' = [pmiOut EXCEPT ![r] = @ + 1]
  /\ UNCHANGED <<live, qpVars, kvs, addrs, pmiIn>>

LeaveBarrier(r) ==
  /\ BarrierReturn(r)
  /\ Pmi!Leave(r)
  /\ UNCHANGED <<live, qpVars, kvs, addrs>>

-----------------------------------------------------------------------------
(* get_ctx_addr: pmi_get and sscanf, over libfabric also fi_av_insert of   *)
(* what was read, whose handle stands for it from then on.  A key    *)
(* that is missing is not noticed; None stands for the garbage that sscanf *)
(* then leaves.                                                            *)
get_ctx_addr(r) ==
  /\ Round(r, "get", get_num_ctx_addr(backend))
  /\ LET c == <<r, idx[r]>>
         value == kvs[Peer(c)]
     IN addrs' = [addrs EXCEPT ![c] = IF value = None THEN None
                                      ELSE <<parsed(backend, value[1]), value[2]>>]
  /\ Goto(r, "get", idx[r] + 1)
  /\ UNCHANGED <<live, qpVars, kvs, pmiVars>>

GetOver(r) ==
  /\ Over(r, "get", get_num_ctx_addr(backend))
  /\ Goto(r, "connect", 0)
  /\ UNCHANGED <<live, qpVars, kvs, addrs, pmiVars>>

(* connect_ctx: qp_to_rtr with the address read, then qp_to_rts. *)
qp_to_rtr(r) ==
  /\ Round(r, "connect", tx_thread_num)
  /\ LET c == <<r, idx[r]>> IN
       /\ qpState[c] = "INIT"
       /\ qpState' = [qpState EXCEPT ![c] = "RTR"]
       /\ qpDest' = [qpDest EXCEPT ![c] = addrs[c]]
  /\ UNCHANGED <<stage, idx, live, kvs, addrs, pmiVars>>

qp_to_rts(r) ==
  /\ Round(r, "connect", tx_thread_num)
  /\ LET c == <<r, idx[r]>> IN
       /\ qpState[c] = "RTR"
       /\ qpState' = [qpState EXCEPT ![c] = "RTS"]
  /\ Goto(r, "connect", idx[r] + 1)
  /\ UNCHANGED <<live, qpDest, kvs, addrs, pmiVars>>

(* connect_ctx over libfabric: nothing. *)
connect_none(r) ==
  /\ backend = "ofi" /\ Round(r, "connect", tx_thread_num)
  /\ Goto(r, "connect", idx[r] + 1)
  /\ UNCHANGED <<live, qpVars, kvs, addrs, pmiVars>>

(* Progress threads and workers start; PingpongPrg.tla has them. *)
ConnectOver(r) ==
  /\ Over(r, "connect", tx_thread_num)
  /\ Goto(r, "drive", 0)
  /\ UNCHANGED <<live, qpVars, kvs, addrs, pmiVars>>

DriveOver(r) ==
  /\ Over(r, "drive", DriverBarriers)
  /\ Goto(r, "freeTx", 0)
  /\ UNCHANGED <<live, qpVars, kvs, addrs, pmiVars>>

(* Mutant: the loop index is not advanced. *)
FreeTxAgain(r) ==
  /\ Round(r, "freeTx", tx_thread_num)
  /\ live' = [live EXCEPT ![r] = @ \ TxObjects(idx[r])]
  /\ qpState' = [qpState EXCEPT ![<<r, idx[r]>>] = "none"]
  /\ UNCHANGED <<stage, idx, qpDest, kvs, addrs, pmiVars>>

(* free_ctx and free_cq of a worker, then of a progress thread. *)
FreeTx(r) ==
  /\ Round(r, "freeTx", tx_thread_num)
  /\ live' = [live EXCEPT ![r] = @ \ TxObjects(idx[r])]
  /\ qpState' = [qpState EXCEPT ![<<r, idx[r]>>] = "none"]
  /\ Goto(r, "freeTx", idx[r] + 1)
  /\ UNCHANGED <<qpDest, kvs, addrs, pmiVars>>

FreeTxOver(r) ==
  /\ Over(r, "freeTx", tx_thread_num)
  /\ Goto(r, "freeRx", 0)
  /\ UNCHANGED <<live, qpVars, kvs, addrs, pmiVars>>

FreeRx(r) ==
  /\ Round(r, "freeRx", rx_thread_num)
  /\ live' = [live EXCEPT ![r] = @ \ RxObjects(idx[r])]
  /\ Goto(r, "freeRx", idx[r] + 1)
  /\ UNCHANGED <<qpVars, kvs, addrs, pmiVars>>

(* free_device, before comm_free. *)
FreeRxOver(r) ==
  /\ Over(r, "freeRx", rx_thread_num)
  /\ live' = [live EXCEPT ![r] = @ \ {Device}]
  /\ Goto(r, "leave", 0)
  /\ UNCHANGED <<qpVars, kvs, addrs, pmiVars>>

(* comm_free ends with pmi_finalize; main returns. *)
Finalize(r) ==
  /\ stage[r] = "finalize"
  /\ Goto(r, "done", 0)
  /\ UNCHANGED <<live, qpVars, kvs, addrs, pmiVars>>

MainStep(r) ==
  /\ \/ init_device(r) \/ CreateRx(r) \/ CreateRxOver(r) \/ CreateTx(r) \/ CreateTxOver(r)
     \/ put_ctx_addr(r) \/ EnterBarrier(r) \/ LeaveBarrier(r) \/ get_ctx_addr(r) \/ GetOver(r)
     \/ qp_to_rtr(r) \/ qp_to_rts(r) \/ connect_none(r) \/ ConnectOver(r)
     \/ DriveOver(r) \/ FreeTx(r) \/ FreeTxOver(r) \/ FreeRx(r) \/ FreeRxOver(r) \/ Finalize(r)
  /\ UNCHANGED backend

AllDone == \A r \in Rank : stage[r] = "done"
Finished == AllDone /\ UNCHANGED vars

Next == (\E r \in Rank : MainStep(r)) \/ Finished

Spec == Init /\ [][Next]_vars
(* No process is suspended for ever. *)
FairSpec == Spec /\ \A r \in Rank : WF_vars(MainStep(r))

-----------------------------------------------------------------------------
Stage == {"device", "opened", "openBar", "createRx", "createTx", "put", "stored", "putBar",
          "flushBar", "get", "connect", "drive", "driveBar", "freeTx", "freeRx", "leave",
          "leaveBar", "finalize", "done"}
QpState == {"none", "INIT", "RTR", "RTS", "enabled"}
Object == ({"tx_cq", "tx_ctx"} \X Worker) \cup ({"rx_cq", "rx_ctx"} \X PrgThread) \cup {Device}

TypeOK ==
  /\ backend \in {"ib", "ofi"}
  /\ stage \in [Rank -> Stage] /\ idx \in [Rank -> Nat]
  /\ live \in [Rank -> SUBSET Object]
  /\ qpState \in [Ctx -> QpState]
  /\ qpDest \in [Ctx -> (Int \X Int) \cup {None}]
  /\ kvs \in [Ctx -> (Int \X Int) \cup {None}]
  /\ addrs \in [Ctx -> (Int \X Int) \cup {None}]
  /\ pmiIn \in [Rank -> Nat] /\ pmiOut \in [Rank -> Nat]

(* Every queue pair that leaves INIT is connected to the queue pair of the *)
(* same worker in the partner process, and that one, once connected, to    *)
(* it; over libfabric every worker that runs sends to the endpoint of its  *)
(* class in the partner process: get_ctx_addr found the key, and the       *)
(* address survived sprintf and sscanf.  Nothing checks the result of      *)
(* pmi_get.                                                                *)
Wired ==
  \A c \in Ctx :
    /\ qpState[c] \in {"RTR", "RTS"} => qpDest[c] = Address(Peer(c)) /\ Peer(Peer(c)) = c
    /\ backend = "ofi" /\ stage[c[1]] \in {"drive", "driveBar"} =>
         addrs[Slot(c)] = Address(Peer(Slot(c)))

(* The workers of process r may send: they are between the first and the   *)
(* last proc_barrier of the driver.                                        *)
MaySend(r) ==
  /\ stage[r] \in {"drive", "driveBar"}
  /\ 0 < idx[r] /\ idx[r] < DriverBarriers
  /\ ~(stage[r] = "driveBar" /\ idx[r] = DriverBarriers - 1)

(* A worker can send and the receive context of its class can receive. *)
Ready(c) ==
  /\ qpState[c] = IF backend = "ib" THEN "RTS" ELSE "enabled"
  /\ RxObjects(ClassOf(c[2])) \subseteq live[c[1]]

(* While workers of some process may send, every context of every process  *)
(* is ready: main connects without a barrier of its own, and frees without *)
(* one, so that only the driver's barriers guarantee it.                   *)
ConnectedWhileSending ==
  \A r \in Rank : MaySend(r) => \A c \in Ctx : Ready(c)

(* Every object exists only with the device, and a send context only with  *)
(* the queues it was made with: none is used before it is made, none is    *)
(* destroyed while in use, where verbs and libfabric would refuse and the  *)
(* program exit.                                                           *)
UsesLive ==
  \A c \in Ctx :
    /\ live[c[1]] # {} => Device \in live[c[1]]
    /\ <<"tx_ctx", c[2]>> \in live[c[1]] => TxUses(backend, c[2]) \subseteq live[c[1]]

(* A process leaves PMI only when every process has freed what it made. *)
LeavesLast ==
  \A r, q \in Rank : stage[r] \in {"finalize", "done"} => live[q] = {}

(* Every process gets through start-up, driver and teardown: the barriers  *)
(* hidden in init_device, pmi_put, flush_ctx_addr, proc_barrier and        *)
(* comm_free pair up.                                                      *)
Termination == <>AllDone

-----------------------------------------------------------------------------
(* Strengthening that makes the invariants above inductive: what a process *)
(* of back end b has done follows from where its main is, s, and its loop  *)
(* index k.                                                                *)

InBarrier == {"openBar", "putBar", "flushBar", "driveBar", "leaveBar"}
Early == {"device", "opened", "openBar", "createRx", "createTx"}

(* The barriers a process passes before its first put_ctx_addr, and before *)
(* it reads addresses.                                                     *)
OpenBarriers(b) == IF b = "ib" THEN 0 ELSE 1
StartBarriers(b) == OpenBarriers(b) + get_num_ctx_addr(b) + 1

(* The barriers a process has returned from. *)
Passed(b, s, k, out) ==
  /\ s \in {"device", "opened", "openBar"} => out = 0
  /\ s \in {"createRx", "createTx"} => out = OpenBarriers(b)
  /\ s \in {"put", "stored", "putBar"} => out = OpenBarriers(b) + k
  /\ s = "flushBar" => out + 1 = StartBarriers(b)
  /\ s \in {"get", "connect"} => out = StartBarriers(b)
  /\ s \in {"drive", "driveBar"} => out = StartBarriers(b) + k
  /\ s \in {"freeTx", "freeRx", "leave", "leaveBar"} => out = StartBarriers(b) + DriverBarriers
  /\ s \in {"finalize", "done"} => out = StartBarriers(b) + DriverBarriers + 1

Bounded(b, s, k) ==
  /\ s \in {"opened", "openBar"} => b = "ofi"
  /\ s \in {"createRx", "freeRx"} => k <= rx_thread_num
  /\ s \in {"createTx", "connect", "freeTx"} => k <= tx_thread_num
  /\ s \in {"put", "get"} => k <= get_num_ctx_addr(b)
  /\ s \in {"stored", "putBar"} => k < get_num_ctx_addr(b)
  /\ s = "drive" => k <= DriverBarriers
  /\ s = "driveBar" => k < DriverBarriers

Counts ==
  \A r \in Rank :
    /\ Bounded(backend, stage[r], idx[r])
    /\ Passed(backend, stage[r], idx[r], pmiOut[r])
    /\ stage[r] \in InBarrier => pmiIn[r] = pmiOut[r] + 1
    /\ stage[r] \notin InBarrier => pmiIn[r] = pmiOut[r]

Published(b, s, k, i) ==
  /\ s \notin Early /\ i < get_num_ctx_addr(b)
  /\ s = "put" => i < k
  /\ s \in {"stored", "putBar"} => i <= k

AddrRead(b, s, k, i) ==
  /\ s \notin Early \cup {"put", "stored", "putBar", "flushBar"} /\ i < get_num_ctx_addr(b)
  /\ s = "get" => i < k

Exchange ==
  \A c \in Ctx :
    /\ Published(backend, stage[c[1]], idx[c[1]], c[2]) => kvs[c] = <<printed(backend, ctxNum[c]), Lid(c[1])>>
    /\ AddrRead(backend, stage[c[1]], idx[c[1]], c[2]) => addrs[c] = Address(Peer(c))
    /\ qpState[c] \in {"RTR", "RTS"} => qpDest[c] = Address(Peer(c))

(* The state q of the send context of worker i. *)
QpAt(b, s, k, i, q) ==
  /\ s \in Early \ {"createTx"} => q = "none"
  /\ s \in {"freeRx", "leave", "leaveBar", "finalize", "done"} => q = "none"
  /\ b = "ib" =>
       /\ s = "createTx" => q = IF i < k THEN "INIT" ELSE "none"
       /\ s \in {"put", "stored", "putBar", "flushBar", "get"} => q = "INIT"
       /\ s = "connect" => IF i < k THEN q = "RTS" ELSE q = "INIT" \/ (q = "RTR" /\ i = k)
       /\ s \in {"drive", "driveBar"} => q = "RTS"
       /\ s = "freeTx" => q = IF i < k THEN "none" ELSE "RTS"
  /\ b = "ofi" =>
       /\ s = "createTx" => q = IF i < k THEN "enabled" ELSE "none"
       /\ s = "freeTx" => q = IF i < k THEN "none" ELSE "enabled"
       /\ s \in {"put", "stored", "putBar", "flushBar", "get", "connect", "drive", "driveBar"} => q = "enabled"

(* The objects of progress thread p exist. *)
RxLive(s, k, p) ==
  /\ s \notin {"device", "opened", "openBar", "leave", "leaveBar", "finalize", "done"}
  /\ s = "createRx" => p < k
  /\ s = "freeRx" => p >= k

Objects ==
  \A r \in Rank :
    /\ \A i \in Worker :
         /\ QpAt(backend, stage[r], idx[r], i, qpState[<<r, i>>])
         /\ \A k \in {"tx_cq", "tx_ctx"} : <<k, i>> \in live[r] <=> qpState[<<r, i>>] # "none"
    /\ \A p \in PrgThread : \A k \in {"rx_cq", "rx_ctx"} :
         <<k, p>> \in live[r] <=> RxLive(stage[r], idx[r], p)
    /\ Device \in live[r] <=> stage[r] \notin {"device", "leave", "leaveBar", "finalize", "done"}

IInv == TypeOK /\ Counts /\ Pmi!Separated /\ Exchange /\ Objects
=============================================================================
