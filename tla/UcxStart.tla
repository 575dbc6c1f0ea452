------------------------------ MODULE UcxStart ------------------------------
(***************************************************************************)
(* How the processes of a UCX benchmark find each other                    *)
(* (src/include/bench_ucx.hpp and the first half of main in                *)
(* pingpong_prg_ucx.cpp and pingpong_sym_ucx.cpp): create the contexts,    *)
(* publish the addresses of their endpoints, read the partner's, connect,  *)
(* and pass a pmi_barrier.  PingpongPrgUcx and PingpongSymUcx instantiate  *)
(* this module with their contexts and with the calls of                   *)
(* uct_ep_connect_to_ep they make.                                         *)
(*                                                                         *)
(* A context <<t, i>> is the i-th of type "p" (progress thread) or "w"     *)
(* (worker).  Its item 0 is the device address and its items from 1 on are *)
(* its endpoints.  Each item has a key of its own in the PMI key-value     *)
(* space.  pmi_put is a put followed by a barrier, so every process has to *)
(* put equally many items; all processes are started with the same         *)
(* arguments.                                                              *)
(***************************************************************************)
EXTENDS Integers, Sequences

CONSTANTS Size,       \* number of processes
          Ctxs,       \* the contexts, in the order main creates them
          EpCount,    \* [context -> number of its endpoints]
          Links,      \* the connects of main: <<own item, item of the partner>>
          AddrWord,   \* addresses that the printed bytes can hold
          epAddr,     \* [address of an item in each process]
          None        \* no value

Rank == 0 .. Size - 1
Ctx == {Ctxs[k] : k \in 1 .. Len(Ctxs)}
Item == UNION {{c} \X (0 .. EpCount[c]) : c \in Ctx}
Endpoint == {e \in Item : e[2] > 0}

target_rank(r) == (r + Size \div 2) % Size

(* sprintf prints the first bytes of an address with "%02x" and sscanf     *)
(* reads as many back into a zeroed buffer.                                *)
printed(a) == a % AddrWord

VARIABLES
  start, ctx, item,    \* [Rank]: where main is, and its loop indices
  kvs,                 \* [Rank -> Item]: the PMI key-value space
  peer,                \* [Rank -> Item]: what get_ctx_addr has read
  dest,                \* [Rank -> Endpoint]: where an endpoint is connected to
  pmiIn, pmiOut        \* [Rank]: pmi_barrier calls and returns

pmiVars == <<pmiIn, pmiOut>>
startVars == <<start, ctx, item, kvs, peer, dest, pmiVars>>

Pmi == INSTANCE Barrier WITH
  Party <- Rank, Group <- [r \in Rank |-> Rank], entered <- pmiIn, left <- pmiOut

Init ==
  /\ start = [r \in Rank |-> "init"]
  /\ ctx = [r \in Rank |-> 1] /\ item = [r \in Rank |-> 0]
  /\ kvs = [r \in Rank |-> [i \in Item |-> None]]
  /\ peer = [r \in Rank |-> [i \in Item |-> None]]
  /\ dest = [r \in Rank |-> [e \in Endpoint |-> None]]
  /\ Pmi!Init

Goto(r, s, k, i) ==
  /\ start' = [start EXCEPT ![r] = s]
  /\ ctx' = [ctx EXCEPT ![r] = k] /\ item' = [item EXCEPT ![r] = i]

(* The item main is at, and the one that comes next. *)
This(r) == <<Ctxs[ctx[r]], item[r]>>
GotoNextItem(r, within, beyond) ==
  IF item[r] < EpCount[Ctxs[ctx[r]]]
  THEN Goto(r, within, ctx[r], item[r] + 1)
  ELSE Goto(r, beyond, ctx[r] + 1, 0)

-----------------------------------------------------------------------------
(* init_ctx: a worker, its interface and its endpoints, whose addresses    *)
(* the transport gives.                                                    *)
init_ctx(r) ==
  /\ start[r] = "init" /\ ctx[r] <= Len(Ctxs)
  /\ Goto(r, "put", ctx[r], 0)
  /\ UNCHANGED <<kvs, peer, dest, pmiVars>>

(* put_ctx_addr: PMI_KVS_Put of one item, and PMI_Barrier in the next two  *)
(* actions.                                                                *)
put_ctx_addr(r) ==
  /\ start[r] = "put"
  /\ kvs' = [kvs EXCEPT ![r][This(r)] = printed(epAddr[r][This(r)])]
  /\ Goto(r, "stored", ctx[r], item[r])
  /\ UNCHANGED <<peer, dest, pmiVars>>

(* The pmi_barriers of pmi_put, of flush_ctx_addr and after the connects. *)
BarrierCall(r) ==
  \/ start[r] = "stored" /\ Goto(r, "putBar", ctx[r], item[r])
  \/ start[r] = "init" /\ ctx[r] > Len(Ctxs) /\ Goto(r, "flushBar", 1, 0)
  \/ start[r] = "connect" /\ ctx[r] > Len(Links) /\ Goto(r, "lastBar", 1, 0)

BarrierReturn(r) ==
  \/ start[r] = "putBar" /\ GotoNextItem(r, "put", "init")
  \/ start[r] = "flushBar" /\ Goto(r, "get", 1, 0)
  \/ start[r] = "lastBar" /\ Goto(r, "started", 1, 0)

EnterBarrier(r) ==
  /\ BarrierCall(r)
  /\ Pmi!Enter(r)
  /\ UNCHANGED <<kvs, peer, dest>>

LeaveBarrier(r) ==
  /\ BarrierReturn(r)
  /\ Pmi!Leave(r)
  /\ UNCHANGED <<kvs, peer, dest>>

(* get_ctx_addr: pmi_get and sscanf of one item.  How many items there are *)
(* is taken from the process's own context.  A key that is missing is not  *)
(* noticed.                                                                *)
get_ctx_addr(r) ==
  /\ start[r] = "get" /\ ctx[r] <= Len(Ctxs)
  /\ peer' = [peer EXCEPT ![r][This(r)] = kvs[target_rank(r)][This(r)]]
  /\ GotoNextItem(r, "get", "get")
  /\ UNCHANGED <<kvs, dest, pmiVars>>

GetOver(r) ==
  /\ start[r] = "get" /\ ctx[r] > Len(Ctxs)
  /\ Goto(r, "connect", 1, 0)
  /\ UNCHANGED <<kvs, peer, dest, pmiVars>>

(* uct_ep_connect_to_ep with the device address and the endpoint address   *)
(* that were read.                                                         *)
connect(r) ==
  /\ start[r] = "connect" /\ ctx[r] <= Len(Links)
  /\ LET own == Links[ctx[r]][1]
         remote == Links[ctx[r]][2]
     IN  dest' = [dest EXCEPT ![r][own] = <<peer[r][<<remote[1], 0>>], peer[r][remote]>>]
  /\ Goto(r, "connect", ctx[r] + 1, 0)
  /\ UNCHANGED <<kvs, peer, pmiVars>>

StartStep(r) ==
  \/ init_ctx(r) \/ put_ctx_addr(r) \/ EnterBarrier(r) \/ LeaveBarrier(r)
  \/ get_ctx_addr(r) \/ GetOver(r) \/ connect(r)

Next == \E r \in Rank : StartStep(r)
Spec == Init /\ [][Next]_startVars

-----------------------------------------------------------------------------
Value == Int \cup {None}

StartState ==
  {"init", "put", "stored", "putBar", "flushBar", "get", "connect", "lastBar", "started"}

TypeOK ==
  /\ start \in [Rank -> StartState]
  /\ ctx \in [Rank -> Nat \ {0}] /\ item \in [Rank -> Nat]
  /\ kvs \in [Rank -> [Item -> Value]]
  /\ peer \in [Rank -> [Item -> Value]]
  /\ dest \in [Rank -> [Endpoint -> (Value \X Value) \cup {None}]]
  /\ pmiIn \in [Rank -> Nat] /\ pmiOut \in [Rank -> Nat]

(* What an endpoint of process r that is connected to e has as destination. *)
Address(r, e) == <<epAddr[r][<<e[1], 0>>], epAddr[r][e]>>

(* A process that has passed the barrier after the connects may rely on    *)
(* the partner: each endpoint of the one is connected to an endpoint of    *)
(* the other that is connected back to it.  Nothing checks the result of   *)
(* pmi_get, and the two ends are connected by different loops of main.     *)
Wired ==
  \A r \in Rank : start[r] = "started" =>
    \A e \in Endpoint : \E f \in Endpoint :
      /\ dest[r][e] = Address(target_rank(r), f)
      /\ dest[target_rank(r)][f] = Address(r, e)

-----------------------------------------------------------------------------
(* What the benchmarks give this module: connects that are made once for   *)
(* every endpoint and whose two ends are each in the list of main, and     *)
(* addresses that the printed bytes hold.                                  *)
Link == 1 .. Len(Links)

LinksMutual ==
  /\ \A m \in Link : Links[m][1] \in Endpoint /\ Links[m][2] \in Endpoint
  /\ \A e \in Endpoint : \E m \in Link : Links[m][1] = e
  /\ \A m, n \in Link : Links[m][1] = Links[n][1] => m = n
  /\ \A m \in Link : \E n \in Link : Links[n][1] = Links[m][2] /\ Links[n][2] = Links[m][1]

StartAssumption ==
  /\ Size \in Nat \ {0} /\ Size % 2 = 0
  /\ Len(Ctxs) \in Nat /\ Len(Links) \in Nat
  /\ \A c \in Ctx : EpCount[c] \in Nat
  /\ AddrWord \in Nat \ {0} /\ None \notin Int
  /\ epAddr \in [Rank -> [Item -> 0 .. AddrWord - 1]]
  /\ LinksMutual

-----------------------------------------------------------------------------
(* The inductive invariant behind Wired. *)

PutStates == {"init", "put", "stored", "putBar"}
BarrierStates == {"putBar", "flushBar", "lastBar"}

(* The stretch between two pmi_barriers a process is in: the put of an     *)
(* item, the flush, the reads and connects, the rest.                      *)
Leg(r) ==
  IF start[r] \in PutStates THEN <<ctx[r], item[r]>>
  ELSE IF start[r] = "flushBar" THEN <<Len(Ctxs) + 1, 0>>
  ELSE IF start[r] = "started" THEN <<Len(Ctxs) + 3, 0>>
  ELSE <<Len(Ctxs) + 2, 0>>

NextLeg(l) ==
  IF l[1] <= Len(Ctxs) /\ l[2] < EpCount[Ctxs[l[1]]] THEN <<l[1], l[2] + 1>>
  ELSE <<l[1] + 1, 0>>

(* Processes that have passed equally many barriers are in the same leg. *)
Lockstep ==
  \A r, q \in Rank :
    /\ pmiOut[r] = pmiOut[q] => Leg(r) = Leg(q)
    /\ pmiOut[r] = pmiOut[q] + 1 => Leg(r) = NextLeg(Leg(q))

Indices(r) ==
  /\ start[r] \in {"put", "stored", "putBar"} =>
       ctx[r] <= Len(Ctxs) /\ item[r] <= EpCount[Ctxs[ctx[r]]]
  /\ start[r] = "init" => ctx[r] <= Len(Ctxs) + 1 /\ item[r] = 0
  /\ start[r] = "get" => \/ ctx[r] <= Len(Ctxs) /\ item[r] <= EpCount[Ctxs[ctx[r]]]
                         \/ ctx[r] = Len(Ctxs) + 1 /\ item[r] = 0
  /\ start[r] = "connect" => ctx[r] <= Len(Links) + 1
  /\ pmiIn[r] = IF start[r] \in BarrierStates THEN pmiOut[r] + 1 ELSE pmiOut[r]

(* The loop of process r is past item n of its k-th context. *)
Past(r, k, n) == k < ctx[r] \/ (k = ctx[r] /\ n < item[r])

Stored(r, k, n) ==
  \/ start[r] \notin PutStates \/ Past(r, k, n)
  \/ start[r] \in {"stored", "putBar"} /\ k = ctx[r] /\ n = item[r]

Fetched(r, k, n) ==
  start[r] \in {"connect", "lastBar", "started"} \/ (start[r] = "get" /\ Past(r, k, n))

Connected(r, m) ==
  start[r] \in {"lastBar", "started"} \/ (start[r] = "connect" /\ m < ctx[r])

(* What is stored, read and connected is what it should be. *)
Addresses(r) ==
  /\ \A k \in 1 .. Len(Ctxs) : \A n \in 0 .. EpCount[Ctxs[k]] :
       /\ Stored(r, k, n) => kvs[r][<<Ctxs[k], n>>] = epAddr[r][<<Ctxs[k], n>>]
       /\ Fetched(r, k, n) =>
            peer[r][<<Ctxs[k], n>>] = epAddr[target_rank(r)][<<Ctxs[k], n>>]
  /\ \A m \in Link : Connected(r, m) =>
       dest[r][Links[m][1]] = Address(target_rank(r), Links[m][2])

StartInv ==
  /\ TypeOK /\ Pmi!Separated /\ Lockstep
  /\ \A r \in Rank : Indices(r) /\ Addresses(r)
=============================================================================
