-------------------------- MODULE BootstrapProofs --------------------------
(***************************************************************************)
(* Proofs about Bootstrap, for every even number of processes and every    *)
(* number of workers, progress threads and driver barriers, over verbs and *)
(* over libfabric.                                                         *)
(***************************************************************************)
EXTENDS Bootstrap, TLAPS

-----------------------------------------------------------------------------
(* Constants, partners and the address conversion. *)

LEMMA ConstFacts ==
  /\ Size \in Nat \ {0} /\ tx_thread_num \in Nat \ {0} /\ rx_thread_num \in Nat \ {0}
  /\ DriverBarriers \in Nat \ {0} /\ Word \in Nat \ {0}
  /\ rx_thread_num <= tx_thread_num
<1>1. \A n, m \in Nat \ {0} : n % m = 0 => m <= n
  OBVIOUS
<1> QED
  BY <1>1, BootAssumption

LEMMA NumFacts ==
  ASSUME NEW b \in {"ib", "ofi"}
  PROVE  /\ get_num_ctx_addr(b) \in Nat \ {0} /\ get_num_ctx_addr(b) <= tx_thread_num
         /\ OpenBarriers(b) \in Nat /\ StartBarriers(b) = OpenBarriers(b) + get_num_ctx_addr(b) + 1
         /\ b = "ib" => OpenBarriers(b) = 0
         /\ b = "ofi" => OpenBarriers(b) = 1
BY ConstFacts DEF get_num_ctx_addr, OpenBarriers, StartBarriers

LEMMA CtxFacts ==
  /\ \A c \in Ctx : c = <<c[1], c[2]>> /\ c[1] \in Rank /\ c[2] \in Worker
  /\ \A r \in Rank, i \in Worker : <<r, i>> \in Ctx /\ <<r, i>>[1] = r /\ <<r, i>>[2] = i
  /\ \A i \in Worker : i \in Nat /\ i < tx_thread_num
  /\ \A p \in PrgThread : p \in Nat /\ p < rx_thread_num
BY ConstFacts DEF Ctx, Worker, PrgThread

(* Every worker belongs to a progress thread, whose number is a worker's   *)
(* too.                                                                    *)
LEMMA ClassFacts ==
  ASSUME NEW c \in Ctx
  PROVE  /\ ClassOf(c[2]) \in PrgThread /\ ClassOf(c[2]) \in Worker
         /\ Slot(c) \in Ctx /\ Slot(c)[1] = c[1] /\ Slot(c)[2] = ClassOf(c[2])
<1>1. c[1] \in Rank /\ c[2] \in Nat
  BY CtxFacts
<1>2. \A n \in Nat, m \in Nat \ {0} : n % m \in 0 .. m - 1
  OBVIOUS
<1>3. c[2] % rx_thread_num \in 0 .. rx_thread_num - 1
  BY <1>1, <1>2, ConstFacts, Zenon
<1>4. ClassOf(c[2]) \in PrgThread /\ ClassOf(c[2]) \in Worker
  BY <1>3, ConstFacts DEF ClassOf, PrgThread, Worker
<1> QED
  BY <1>1, <1>4, CtxFacts DEF Slot

LEMMA TargetFacts ==
  ASSUME NEW r \in Rank
  PROVE  target_rank(r) \in Rank /\ target_rank(target_rank(r)) = r
<1> DEFINE h == Size \div 2
<1>1. h \in Nat /\ Size = h + h /\ r \in Nat /\ r < h + h
  BY BootAssumption DEF Rank
<1> HIDE DEF h
<1>2. \A n \in Rank : target_rank(n) = (n + h) % (h + h)
  BY <1>1 DEF h, target_rank
<1>3. \A n \in Nat : n < h => (n + h) % (h + h) = n + h
  BY <1>1
<1>4. \A n \in Nat : n < h + h /\ ~(n < h) => (n + h) % (h + h) = n - h
  BY <1>1
<1>5. Rank = 0 .. (h + h) - 1
  BY <1>1 DEF Rank
<1>6. CASE r < h
  <2>1. target_rank(r) = r + h
    BY <1>1, <1>2, <1>3, <1>6
  <2>2. r + h \in Rank /\ r + h \in Nat /\ r + h < h + h /\ ~(r + h < h) /\ (r + h) - h = r
    BY <1>1, <1>5, <1>6
  <2>3. target_rank(r + h) = (r + h) - h
    BY <1>2, <1>4, <2>2, Zenon
  <2> QED
    BY <2>1, <2>2, <2>3
<1>7. CASE ~(r < h)
  <2>1. target_rank(r) = r - h
    BY <1>1, <1>2, <1>4, <1>7
  <2>2. r - h \in Rank /\ r - h \in Nat /\ r - h < h /\ (r - h) + h = r
    BY <1>1, <1>5, <1>7
  <2>3. target_rank(r - h) = (r - h) + h
    BY <1>2, <1>3, <2>2, Zenon
  <2> QED
    BY <2>1, <2>2, <2>3
<1> QED
  BY <1>6, <1>7

LEMMA PeerFacts ==
  ASSUME NEW c \in Ctx
  PROVE  Peer(c) \in Ctx /\ Peer(Peer(c)) = c /\ Peer(c)[1] = target_rank(c[1]) /\ Peer(c)[2] = c[2]
<1>1. c[1] \in Rank /\ c[2] \in Worker /\ c = <<c[1], c[2]>>
  BY CtxFacts
<1>2. target_rank(c[1]) \in Rank /\ target_rank(target_rank(c[1])) = c[1]
  BY <1>1, TargetFacts
<1> QED
  BY <1>1, <1>2, CtxFacts DEF Peer

(* What sprintf prints, sscanf reads back. *)
LEMMA RoundTrip ==
  ASSUME NEW b, NEW n \in 0 .. Word - 1
  PROVE  printed(b, n) \in Int /\ parsed(b, printed(b, n)) = n
<1>1. n \in Nat /\ n < Word /\ Word \in Nat \ {0}
  BY ConstFacts
<1>2. n % Word = n /\ (n - Word) % Word = n
  BY <1>1
<1>3. printed(b, n) = n \/ printed(b, n) = n - Word
  BY DEF printed, printed_ib, printed_ofi
<1> QED
  BY <1>1, <1>2, <1>3 DEF parsed, parsed_ib, parsed_ofi

LEMMA NumberFacts == \A c \in Ctx : ctxNum[c] \in 0 .. Word - 1
BY BootAssumption DEF Ctx, Rank, Worker

LEMMA PairFacts ==
  \A a, b \in Int : /\ <<a, b>> \in Int \X Int /\ <<a, b>> # None
                    /\ <<a, b>>[1] = a /\ <<a, b>>[2] = b
BY BootAssumption

-----------------------------------------------------------------------------
(* The barrier. *)

LEMMA PmiLeave ==
  ASSUME NEW r \in Rank, Pmi!Leave(r)
  PROVE  /\ pmiIn[r] = pmiOut[r] + 1 /\ \A q \in Rank : pmiIn[q] >= pmiIn[r]
         /\ pmiOut' = [pmiOut EXCEPT ![r] = @ + 1] /\ pmiIn' = pmiIn
BY DEF Pmi!Leave, Pmi!Inside

LEMMA PmiEnter ==
  ASSUME NEW r \in Rank, Pmi!Enter(r)
  PROVE  /\ pmiIn[r] = pmiOut[r]
         /\ pmiIn' = [pmiIn EXCEPT ![r] = @ + 1] /\ pmiOut' = pmiOut
BY DEF Pmi!Enter

LEMMA PmiSeparated ==
  Pmi!Separated <=> \A p, q \in Rank : pmiOut[p] <= pmiIn[q]
BY ZenonT(30) DEF Pmi!Separated

-----------------------------------------------------------------------------
(* A step of r touches nothing of another process. *)

LEMMA Frame ==
  ASSUME TypeOK, NEW r \in Rank, MainStep(r)
  PROVE  /\ \A q \in Rank : q # r =>
              /\ stage'[q] = stage[q] /\ idx'[q] = idx[q] /\ live'[q] = live[q]
              /\ pmiIn'[q] = pmiIn[q] /\ pmiOut'[q] = pmiOut[q]
         /\ \A c \in Ctx : c[1] # r =>
              /\ qpState'[c] = qpState[c] /\ qpDest'[c] = qpDest[c]
              /\ kvs'[c] = kvs[c] /\ addrs'[c] = addrs[c]
         /\ backend' = backend
<1>0. SUFFICES /\ \A q \in Rank : q # r =>
                    /\ stage'[q] = stage[q] /\ idx'[q] = idx[q] /\ live'[q] = live[q]
                    /\ pmiIn'[q] = pmiIn[q] /\ pmiOut'[q] = pmiOut[q]
               /\ \A c \in Ctx : c[1] # r =>
                    /\ qpState'[c] = qpState[c] /\ qpDest'[c] = qpDest[c]
                    /\ kvs'[c] = kvs[c] /\ addrs'[c] = addrs[c]
  BY Zenon DEF MainStep
<1> USE DEF TypeOK, Goto, qpVars, pmiVars
<1>1. \A n : \A c \in Ctx : c[1] # r => c # <<r, n>>
  OBVIOUS
<1>2. CASE init_device(r) \/ CreateRx(r) \/ CreateRxOver(r) \/ CreateTxOver(r)
  BY <1>2 DEF init_device, CreateRx, CreateRxOver, CreateTxOver
<1>3. CASE CreateTx(r)
  BY <1>1, <1>3 DEF CreateTx
<1>4. CASE put_ctx_addr(r)
  BY <1>1, <1>4 DEF put_ctx_addr
<1>5. CASE EnterBarrier(r)
  BY <1>5, PmiEnter DEF EnterBarrier, BarrierCall
<1>6. CASE LeaveBarrier(r)
  BY <1>6, PmiLeave DEF LeaveBarrier, BarrierReturn
<1>7. CASE get_ctx_addr(r)
  BY <1>1, <1>7 DEF get_ctx_addr
<1>8. CASE \/ GetOver(r) \/ connect_none(r) \/ ConnectOver(r) \/ DriveOver(r) \/ FreeTxOver(r)
           \/ FreeRx(r) \/ FreeRxOver(r) \/ Finalize(r)
  BY <1>8 DEF GetOver, connect_none, ConnectOver, DriveOver, FreeTxOver, FreeRx, FreeRxOver, Finalize
<1>9. CASE qp_to_rtr(r) \/ qp_to_rts(r)
  BY <1>1, <1>9 DEF qp_to_rtr, qp_to_rts
<1>10. CASE FreeTx(r)
  BY <1>1, <1>10 DEF FreeTx
<1> QED
  BY <1>2, <1>3, <1>4, <1>5, <1>6, <1>7, <1>8, <1>9, <1>10 DEF MainStep

-----------------------------------------------------------------------------
(* Types. *)

LEMMA InitTypeOK == Init => TypeOK
<1> SUFFICES ASSUME Init PROVE TypeOK
  OBVIOUS
<1>1. /\ backend \in {"ib", "ofi"} /\ stage \in [Rank -> Stage] /\ idx \in [Rank -> Nat]
      /\ live \in [Rank -> SUBSET Object]
  BY DEF Init, Stage
<1>2. qpState \in [Ctx -> QpState]
  BY ConstFacts DEF Init, QpState
<1>3. /\ qpDest \in [Ctx -> (Int \X Int) \cup {None}] /\ kvs \in [Ctx -> (Int \X Int) \cup {None}]
      /\ addrs \in [Ctx -> (Int \X Int) \cup {None}]
  BY DEF Init
<1>4. pmiIn \in [Rank -> Nat] /\ pmiOut \in [Rank -> Nat]
  BY DEF Init, Pmi!Init
<1> QED
  BY <1>1, <1>2, <1>3, <1>4 DEF TypeOK

LEMMA GotoType ==
  ASSUME TypeOK, NEW r, NEW b \in {"ib", "ofi"}, NEW s \in Stage, NEW k \in Nat, Goto(r, s, k)
  PROVE  stage' \in [Rank -> Stage] /\ idx' \in [Rank -> Nat]
BY Zenon DEF TypeOK, Goto

LEMMA NextTypeOK ==
  ASSUME TypeOK, NEW r \in Rank, MainStep(r)
  PROVE  TypeOK'
<1> DEFINE Value == (Int \X Int) \cup {None}
<1>0. /\ stage \in [Rank -> Stage] /\ idx \in [Rank -> Nat] /\ idx[r] \in Nat /\ idx[r] + 1 \in Nat
      /\ live \in [Rank -> SUBSET Object] /\ live[r] \in SUBSET Object
      /\ qpState \in [Ctx -> QpState]
      /\ qpDest \in [Ctx -> Value] /\ kvs \in [Ctx -> Value] /\ addrs \in [Ctx -> Value]
      /\ pmiIn \in [Rank -> Nat] /\ pmiOut \in [Rank -> Nat]
  BY DEF TypeOK
<1>s. /\ "opened" \in Stage /\ "openBar" \in Stage /\ "leave" \in Stage /\ "createRx" \in Stage /\ "createTx" \in Stage /\ "put" \in Stage /\ "stored" \in Stage
      /\ "putBar" \in Stage /\ "flushBar" \in Stage /\ "get" \in Stage /\ "connect" \in Stage
      /\ "drive" \in Stage /\ "driveBar" \in Stage /\ "freeTx" \in Stage /\ "freeRx" \in Stage
      /\ "leaveBar" \in Stage /\ "finalize" \in Stage /\ "done" \in Stage
  BY DEF Stage
<1>r. /\ \A i \in Nat : i < tx_thread_num => i \in Worker
      /\ \A i \in Nat : i < get_num_ctx_addr(backend) => i \in Worker
  BY ConstFacts, NumFacts DEF Worker, TypeOK
<1>p. \A i \in Nat : i < rx_thread_num => i \in PrgThread
  BY ConstFacts DEF PrgThread
<1>1. stage' \in [Rank -> Stage] /\ idx' \in [Rank -> Nat]
  <2>1. CASE qp_to_rtr(r)
    BY <1>0, <2>1 DEF qp_to_rtr
  <2>2. CASE EnterBarrier(r) \/ LeaveBarrier(r)
    BY <1>0, <1>s, <2>2, GotoType, Zenon DEF EnterBarrier, LeaveBarrier, BarrierCall, BarrierReturn
  <2>3. CASE init_device(r)
    BY <1>0, <1>s, <2>3, GotoType, ZenonT(30) DEF init_device, device_ready
  <2> QED
    BY <1>0, <1>s, <2>1, <2>2, <2>3, GotoType, Zenon DEF MainStep, init_device, CreateRx, CreateRxOver, CreateTx, CreateTxOver,
       put_ctx_addr, get_ctx_addr, GetOver, qp_to_rts, connect_none, ConnectOver, DriveOver, FreeTx,
       FreeTxOver, FreeRx, FreeRxOver, Finalize
<1>2. live' \in [Rank -> SUBSET Object]
  <2>1. CASE CreateRx(r)
    <3>1. RxObjects(idx[r]) \subseteq Object
      BY <1>0, <1>p, <2>1 DEF CreateRx, Round, Object, RxObjects
    <3> QED
      BY <1>0, <2>1, <3>1, ZenonT(30) DEF CreateRx
  <2>2. CASE CreateTx(r)
    <3>1. TxObjects(idx[r]) \subseteq Object
      BY <1>0, <1>r, <2>2 DEF CreateTx, Round, Object, TxObjects
    <3> QED
      BY <1>0, <2>2, <3>1, Zenon DEF CreateTx
  <2>3. CASE FreeTx(r) \/ FreeRx(r) \/ FreeRxOver(r)
    BY <1>0, <2>3 DEF FreeTx, FreeRx, FreeRxOver
  <2>4. CASE init_device(r)
    BY <1>0, <2>4, ZenonT(30) DEF init_device, Object
  <2> QED
    BY <1>0, <2>1, <2>2, <2>3, <2>4 DEF MainStep, init_device, CreateRxOver, CreateTxOver, EnterBarrier, LeaveBarrier,
       put_ctx_addr, get_ctx_addr, GetOver, qp_to_rtr, qp_to_rts, connect_none, ConnectOver, DriveOver,
       FreeTxOver, Finalize
<1>3. qpState' \in [Ctx -> QpState] /\ qpDest' \in [Ctx -> Value]
  <2>1. CASE CreateTx(r)
    BY <1>0, <2>1, ZenonT(30) DEF CreateTx, QpState, init_ctx
  <2>2. CASE qp_to_rtr(r)
    <3>1. <<r, idx[r]>> \in Ctx
      BY <1>0, <1>r, <2>2, CtxFacts DEF qp_to_rtr, Round
    <3> QED
      BY <1>0, <2>2, <3>1 DEF qp_to_rtr, QpState
  <2>3. CASE qp_to_rts(r) \/ FreeTx(r)
    BY <1>0, <2>3, ZenonT(30) DEF qp_to_rts, FreeTx, QpState
  <2> QED
    BY <1>0, <2>1, <2>2, <2>3, Zenon DEF MainStep, init_device, CreateRx, CreateRxOver, CreateTxOver, EnterBarrier,
       LeaveBarrier, put_ctx_addr, get_ctx_addr, GetOver, connect_none, ConnectOver, DriveOver,
       FreeTxOver, FreeRx, FreeRxOver, Finalize, qpVars
<1>4. kvs' \in [Ctx -> Value]
  <2>1. CASE put_ctx_addr(r)
    <3> DEFINE c == <<r, idx[r]>>
    <3>1. c \in Ctx
      BY <1>0, <1>r, <2>1, CtxFacts DEF put_ctx_addr, Round
    <3>2. printed(backend, ctxNum[c]) \in Int /\ Lid(r) \in Int
      <4>1. ctxNum[c] \in 0 .. Word - 1
        BY <3>1, NumberFacts, Zenon
      <4>2. printed(backend, ctxNum[c]) \in Int
        BY <4>1, RoundTrip, Zenon
      <4>3. Lid(r) \in Int
        BY <1>r DEF Lid, Rank
      <4> QED  BY <4>2, <4>3, Zenon
    <3> QED
      BY <1>0, <2>1, <3>1, <3>2 DEF put_ctx_addr
  <2> QED
    BY <1>0, <2>1 DEF MainStep, init_device, CreateRx, CreateRxOver, CreateTx, CreateTxOver, EnterBarrier,
       LeaveBarrier, get_ctx_addr, GetOver, qp_to_rtr, qp_to_rts, connect_none, ConnectOver, DriveOver, FreeTx,
       FreeTxOver, FreeRx, FreeRxOver, Finalize
<1>5. addrs' \in [Ctx -> Value]
  <2>1. CASE get_ctx_addr(r)
    <3> DEFINE c == <<r, idx[r]>>
               v == kvs[Peer(c)]
               a == IF v = None THEN None ELSE <<parsed(backend, v[1]), v[2]>>
    <3>1. Peer(c) \in Ctx
      BY <1>0, <1>r, <2>1, CtxFacts, PeerFacts DEF get_ctx_addr, Round
    <3>2. v = None \/ (v[1] \in Int /\ v[2] \in Int)
      BY <1>0, <3>1
    <3>3. \A k \in Int : parsed(backend, k) \in Int
      BY ConstFacts DEF parsed, parsed_ib, parsed_ofi
    <3>4. a \in Value
      BY <3>2, <3>3
    <3>5. addrs' = [addrs EXCEPT ![c] = a]
      BY <2>1, ZenonT(30) DEF get_ctx_addr
    <3> HIDE DEF a, c
    <3> QED
      BY <1>0, <3>4, <3>5, Zenon
  <2> QED
    BY <1>0, <2>1 DEF MainStep, init_device, CreateRx, CreateRxOver, CreateTx, CreateTxOver, EnterBarrier,
       LeaveBarrier, put_ctx_addr, GetOver, qp_to_rtr, qp_to_rts, connect_none, ConnectOver, DriveOver, FreeTx,
       FreeTxOver, FreeRx, FreeRxOver, Finalize
<1>6. pmiIn' \in [Rank -> Nat] /\ pmiOut' \in [Rank -> Nat]
  <2>1. CASE EnterBarrier(r)
    BY <1>0, <2>1, PmiEnter DEF EnterBarrier
  <2>2. CASE LeaveBarrier(r)
    BY <1>0, <2>2, PmiLeave, ZenonT(30) DEF LeaveBarrier
  <2> QED
    BY <1>0, <2>1, <2>2, Zenon DEF MainStep, init_device, CreateRx, CreateRxOver, CreateTx, CreateTxOver,
       put_ctx_addr, get_ctx_addr, GetOver, qp_to_rtr, qp_to_rts, connect_none, ConnectOver, DriveOver, FreeTx,
       FreeTxOver, FreeRx, FreeRxOver, Finalize, pmiVars
<1>7. backend' \in {"ib", "ofi"}
  BY Frame DEF TypeOK
<1> QED
  BY <1>1, <1>2, <1>3, <1>4, <1>5, <1>6, <1>7 DEF TypeOK

-----------------------------------------------------------------------------
(* Barrier counts. *)

LEMMA NextSeparated ==
  ASSUME TypeOK, Pmi!Separated, NEW r \in Rank, MainStep(r)
  PROVE  Pmi!Separated'
<1>0. \A q \in Rank : pmiIn[q] \in Nat /\ pmiOut[q] \in Nat
  BY DEF TypeOK
<1>1. SUFFICES \A p, q \in Rank : pmiOut'[p] <= pmiIn'[q]
  BY DEF Pmi!Separated
<1>2. \A p, q \in Rank : pmiOut[p] <= pmiIn[q]
  BY PmiSeparated
<1>3. CASE EnterBarrier(r)
  BY <1>0, <1>2, <1>3, PmiEnter DEF EnterBarrier, TypeOK
<1>4. CASE LeaveBarrier(r)
  BY <1>0, <1>2, <1>4, PmiLeave, ZenonT(30) DEF LeaveBarrier, TypeOK
<1> QED
  BY <1>2, <1>3, <1>4, Zenon DEF MainStep, init_device, CreateRx, CreateRxOver, CreateTx, CreateTxOver,
     put_ctx_addr, get_ctx_addr, GetOver, qp_to_rtr, qp_to_rts, connect_none, ConnectOver, DriveOver, FreeTx,
     FreeTxOver, FreeRx, FreeRxOver, Finalize, pmiVars

(* Where a step takes main: from s to t, with loop index k to l. *)
Moves(b, s, k, t, l) ==
  \/ s = "device" /\ b = "ib" /\ t = "createRx" /\ l = 0
  \/ s = "device" /\ b # "ib" /\ t = "opened" /\ l = 0
  \/ s = "createRx" /\ k < rx_thread_num /\ t = "createRx" /\ l = k + 1
  \/ s = "createRx" /\ k = rx_thread_num /\ t = "createTx" /\ l = 0
  \/ s = "createTx" /\ k < tx_thread_num /\ t = "createTx" /\ l = k + 1
  \/ s = "createTx" /\ k = tx_thread_num /\ t = "put" /\ l = 0
  \/ s = "put" /\ k < get_num_ctx_addr(b) /\ t = "stored" /\ l = k
  \/ s = "get" /\ k < get_num_ctx_addr(b) /\ t = "get" /\ l = k + 1
  \/ s = "get" /\ k = get_num_ctx_addr(b) /\ t = "connect" /\ l = 0
  \/ s = "connect" /\ k < tx_thread_num /\ t = "connect" /\ l \in {k, k + 1}
  \/ s = "connect" /\ k = tx_thread_num /\ t = "drive" /\ l = 0
  \/ s = "drive" /\ k = DriverBarriers /\ t = "freeTx" /\ l = 0
  \/ s = "freeTx" /\ k < tx_thread_num /\ t = "freeTx" /\ l = k + 1
  \/ s = "freeTx" /\ k = tx_thread_num /\ t = "freeRx" /\ l = 0
  \/ s = "freeRx" /\ k < rx_thread_num /\ t = "freeRx" /\ l = k + 1
  \/ s = "freeRx" /\ k = rx_thread_num /\ t = "leave" /\ l = 0
  \/ s = "finalize" /\ t = "done" /\ l = 0

Calls(b, s, k, t, l) ==
  \/ s = "opened" /\ t = "openBar" /\ l = 0
  \/ s = "stored" /\ t = "putBar" /\ l = k
  \/ s = "put" /\ k = get_num_ctx_addr(b) /\ t = "flushBar" /\ l = k
  \/ s = "drive" /\ k < DriverBarriers /\ t = "driveBar" /\ l = k
  \/ s = "leave" /\ t = "leaveBar" /\ l = 0

Returns(b, s, k, t, l) ==
  \/ s = "openBar" /\ t = "createRx" /\ l = 0
  \/ s = "putBar" /\ t = "put" /\ l = k + 1
  \/ s = "flushBar" /\ t = "get" /\ l = 0
  \/ s = "driveBar" /\ t = "drive" /\ l = k + 1
  \/ s = "leaveBar" /\ t = "finalize" /\ l = 0

LEMMA StepMoves ==
  ASSUME TypeOK, NEW r \in Rank, MainStep(r)
  PROVE  \/ Moves(backend, stage[r], idx[r], stage'[r], idx'[r]) /\ UNCHANGED pmiVars
         \/ Calls(backend, stage[r], idx[r], stage'[r], idx'[r]) /\ Pmi!Enter(r)
         \/ Returns(backend, stage[r], idx[r], stage'[r], idx'[r]) /\ Pmi!Leave(r)
<1>0. stage \in [Rank -> Stage] /\ idx \in [Rank -> Nat]
  BY DEF TypeOK
<1>1. \A s, k : Goto(r, s, k) => stage'[r] = s /\ idx'[r] = k
  BY <1>0, ZenonT(30) DEF Goto
<1>6. CASE EnterBarrier(r)
  BY <1>1, <1>6 DEF EnterBarrier, BarrierCall, Round, Over, Calls
<1>7. CASE LeaveBarrier(r)
  BY <1>1, <1>7 DEF LeaveBarrier, BarrierReturn, Returns
<1>8. CASE CreateRx(r)
  BY <1>1, <1>8 DEF CreateRx, Round, Moves
<1>9. CASE CreateRxOver(r)
  BY <1>1, <1>9 DEF CreateRxOver, Over, Moves
<1>10. CASE CreateTx(r)
  BY <1>1, <1>10 DEF CreateTx, Round, Moves
<1>11. CASE CreateTxOver(r)
  BY <1>1, <1>11, ZenonT(30) DEF CreateTxOver, Over, Moves
<1>12. CASE put_ctx_addr(r)
  BY <1>1, <1>12, ZenonT(30) DEF put_ctx_addr, Round, Moves
<1>13. CASE get_ctx_addr(r)
  BY <1>1, <1>13, ZenonT(30) DEF get_ctx_addr, Round, Moves
<1>14. CASE GetOver(r)
  BY <1>1, <1>14 DEF GetOver, Over, Moves
<1>15. CASE qp_to_rts(r)
  BY <1>1, <1>15 DEF qp_to_rts, Round, Moves
<1>16. CASE ConnectOver(r)
  BY <1>1, <1>16 DEF ConnectOver, Over, Moves
<1>17. CASE DriveOver(r)
  BY <1>1, <1>17, ZenonT(30) DEF DriveOver, Over, Moves
<1>18. CASE FreeTx(r)
  BY <1>1, <1>18, ZenonT(30) DEF FreeTx, Round, Moves
<1>19. CASE FreeTxOver(r)
  BY <1>1, <1>19 DEF FreeTxOver, Over, Moves
<1>20. CASE FreeRx(r)
  BY <1>1, <1>20 DEF FreeRx, Round, Moves
<1>21. CASE Finalize(r)
  BY <1>1, <1>21 DEF Finalize, Moves
<1>22. CASE qp_to_rtr(r)
  BY <1>22, ZenonT(30) DEF qp_to_rtr, Round, Moves
<1>23. CASE init_device(r)
  BY <1>1, <1>23, ZenonT(30) DEF init_device, Moves, device_ready
<1>24. CASE connect_none(r)
  BY <1>1, <1>24 DEF connect_none, Round, Moves
<1>25. CASE FreeRxOver(r)
  BY <1>1, <1>25 DEF FreeRxOver, Over, Moves
<1> QED
  BY <1>23, <1>24, <1>25, <1>6, <1>7, <1>8, <1>9, <1>10, <1>11, <1>12, <1>13, <1>14, <1>15, <1>16, <1>17, <1>18, <1>19, <1>20, <1>21, <1>22, Zenon
     DEF MainStep

LEMMA MovesCount ==
  ASSUME NEW b \in {"ib", "ofi"}, NEW s \in Stage, NEW k \in Nat, NEW t, NEW l, NEW out \in Nat,
         Moves(b, s, k, t, l), Bounded(b, s, k), Passed(b, s, k, out)
  PROVE  Bounded(b, t, l) /\ Passed(b, t, l, out) /\ s \notin InBarrier /\ t \notin InBarrier
<1> USE ConstFacts
<1>0. /\ get_num_ctx_addr(b) \in Nat \ {0} /\ OpenBarriers(b) \in Nat
      /\ StartBarriers(b) = OpenBarriers(b) + get_num_ctx_addr(b) + 1
      /\ b = "ib" => OpenBarriers(b) = 0
      /\ b = "ofi" => OpenBarriers(b) = 1
  BY NumFacts
<1>1. Bounded(b, t, l)
  BY <1>0, SMTT(30) DEF Moves, Bounded
<1>2. Passed(b, t, l, out)
  BY <1>0, SMTT(30) DEF Moves, Passed
<1>3. s \notin InBarrier /\ t \notin InBarrier
  BY DEF Moves, InBarrier
<1> QED
  BY <1>1, <1>2, <1>3

LEMMA CallsCount ==
  ASSUME NEW b \in {"ib", "ofi"}, NEW s \in Stage, NEW k \in Nat, NEW t, NEW l, NEW out \in Nat,
         Calls(b, s, k, t, l), Bounded(b, s, k), Passed(b, s, k, out)
  PROVE  Bounded(b, t, l) /\ Passed(b, t, l, out) /\ s \notin InBarrier /\ t \in InBarrier
<1> USE ConstFacts
<1>0. /\ get_num_ctx_addr(b) \in Nat \ {0} /\ OpenBarriers(b) \in Nat
      /\ StartBarriers(b) = OpenBarriers(b) + get_num_ctx_addr(b) + 1
      /\ b = "ib" => OpenBarriers(b) = 0
      /\ b = "ofi" => OpenBarriers(b) = 1
  BY NumFacts
<1>1. Bounded(b, t, l) /\ Passed(b, t, l, out)
  BY <1>0 DEF Calls, Bounded, Passed
<1>2. s \notin InBarrier /\ t \in InBarrier
  BY DEF Calls, InBarrier
<1> QED
  BY <1>1, <1>2

LEMMA ReturnsCount ==
  ASSUME NEW b \in {"ib", "ofi"}, NEW s \in Stage, NEW k \in Nat, NEW t, NEW l, NEW out \in Nat,
         Returns(b, s, k, t, l), Bounded(b, s, k), Passed(b, s, k, out)
  PROVE  Bounded(b, t, l) /\ Passed(b, t, l, out + 1) /\ s \in InBarrier /\ t \notin InBarrier
<1> USE ConstFacts
<1>0. /\ get_num_ctx_addr(b) \in Nat \ {0} /\ OpenBarriers(b) \in Nat
      /\ StartBarriers(b) = OpenBarriers(b) + get_num_ctx_addr(b) + 1
      /\ b = "ib" => OpenBarriers(b) = 0
      /\ b = "ofi" => OpenBarriers(b) = 1
  BY NumFacts
<1>1. Bounded(b, t, l) /\ Passed(b, t, l, out + 1)
  BY <1>0 DEF Returns, Bounded, Passed
<1>2. s \in InBarrier /\ t \notin InBarrier
  BY DEF Returns, InBarrier
<1> QED
  BY <1>1, <1>2

LEMMA NextCounts ==
  ASSUME TypeOK, Counts, NEW r \in Rank, MainStep(r)
  PROVE  Counts'
<1> SUFFICES ASSUME NEW q \in Rank
             PROVE  /\ Bounded(backend, stage'[q], idx'[q]) /\ Passed(backend, stage'[q], idx'[q], pmiOut'[q])
                    /\ stage'[q] \in InBarrier => pmiIn'[q] = pmiOut'[q] + 1
                    /\ stage'[q] \notin InBarrier => pmiIn'[q] = pmiOut'[q]
  <2>1. backend' = backend
    BY Frame
  <2> QED
    BY <2>1, ZenonT(30) DEF Counts, InBarrier
<1>0. /\ Bounded(backend, stage[q], idx[q]) /\ Passed(backend, stage[q], idx[q], pmiOut[q])
      /\ stage[q] \in InBarrier => pmiIn[q] = pmiOut[q] + 1
      /\ stage[q] \notin InBarrier => pmiIn[q] = pmiOut[q]
  BY DEF Counts
<1>t. backend \in {"ib", "ofi"} /\ stage[q] \in Stage /\ idx[q] \in Nat /\ pmiIn[q] \in Nat /\ pmiOut[q] \in Nat
  BY DEF TypeOK
<1>1. CASE q # r
  BY <1>0, <1>1, Frame, ZenonT(30)
<1>2. CASE q = r
  <2>1. CASE Moves(backend, stage[r], idx[r], stage'[r], idx'[r]) /\ UNCHANGED pmiVars
    <3>1. pmiIn'[r] = pmiIn[r] /\ pmiOut'[r] = pmiOut[r]
      BY <2>1 DEF pmiVars
    <3>2. /\ Bounded(backend, stage'[r], idx'[r]) /\ Passed(backend, stage'[r], idx'[r], pmiOut[r])
          /\ stage[r] \notin InBarrier /\ stage'[r] \notin InBarrier
      BY <1>0, <1>t, <1>2, <2>1, MovesCount, Zenon
    <3> QED
      BY <1>0, <1>2, <3>1, <3>2
  <2>2. CASE Calls(backend, stage[r], idx[r], stage'[r], idx'[r]) /\ Pmi!Enter(r)
    <3>1. pmiIn'[r] = pmiOut'[r] + 1 /\ pmiOut'[r] = pmiOut[r]
      BY <1>t, <1>2, <2>2, PmiEnter DEF TypeOK
    <3> QED
      BY <1>0, <1>t, <1>2, <2>2, <3>1, CallsCount, ZenonT(30)
  <2>3. CASE Returns(backend, stage[r], idx[r], stage'[r], idx'[r]) /\ Pmi!Leave(r)
    <3>1. pmiIn'[r] = pmiOut'[r] /\ pmiOut'[r] = pmiOut[r] + 1
      BY <1>t, <1>2, <2>3, PmiLeave DEF TypeOK
    <3>2. /\ Bounded(backend, stage'[r], idx'[r]) /\ Passed(backend, stage'[r], idx'[r], pmiOut[r] + 1)
          /\ stage'[r] \notin InBarrier
      BY <1>0, <1>t, <1>2, <2>3, ReturnsCount, Zenon
    <3> QED
      BY <1>2, <3>1, <3>2, Zenon
  <2> QED
    BY <2>1, <2>2, <2>3, StepMoves, Zenon
<1> QED
  BY <1>1, <1>2

-----------------------------------------------------------------------------
(* Objects.  What a step does to the send context of worker i. *)

QpChange(b, s, k, l, i, q, p) ==
  /\ s = "createTx" /\ k < tx_thread_num =>
       p = IF i = k THEN init_ctx(b) ELSE q
  /\ s = "connect" /\ k < tx_thread_num =>
       \/ i = k /\ q = "INIT" /\ p = "RTR" /\ l = k
       \/ i = k /\ q = "RTR" /\ p = "RTS" /\ l = k + 1
       \/ i # k /\ p = q
       \/ b = "ofi" /\ p = q
  /\ s = "freeTx" /\ k < tx_thread_num => p = IF i = k THEN "none" ELSE q
  /\ s \notin {"createTx", "connect", "freeTx"} \/ ~(k < tx_thread_num) => p = q

LEMMA QpMoves ==
  ASSUME NEW b \in {"ib", "ofi"}, NEW s \in Stage, NEW k \in Nat, NEW t, NEW l, NEW i \in Worker, NEW q \in QpState, NEW p,
         QpAt(b, s, k, i, q), Bounded(b, s, k),
         Moves(b, s, k, t, l) \/ Calls(b, s, k, t, l) \/ Returns(b, s, k, t, l),
         QpChange(b, s, k, l, i, q, p)
  PROVE  QpAt(b, t, l, i, p)
<1>0. i \in Nat /\ i < tx_thread_num /\ tx_thread_num \in Nat /\ k \in Nat
  BY CtxFacts, ConstFacts
<1>1. CASE s = "createTx"
  BY <1>0, <1>1, SMTT(30) DEF QpAt, QpChange, Bounded, Moves, Calls, Returns, Early, init_ctx
<1>2. CASE s = "connect"
  BY <1>0, <1>2, SMTT(30) DEF QpAt, QpChange, Bounded, Moves, Calls, Returns, Early
<1>3. CASE s = "freeTx"
  BY <1>0, <1>3, SMTT(30) DEF QpAt, QpChange, Bounded, Moves, Calls, Returns, Early
<1>4. CASE s \notin {"createTx", "connect", "freeTx"}
  BY <1>0, <1>4, SMTT(30) DEF QpAt, QpChange, Bounded, Moves, Calls, Returns, Early
<1> QED
  BY <1>1, <1>2, <1>3, <1>4

Quiet(r) ==
  \/ CreateRxOver(r) \/ CreateTxOver(r) \/ put_ctx_addr(r) \/ EnterBarrier(r) \/ LeaveBarrier(r)
  \/ get_ctx_addr(r) \/ GetOver(r) \/ ConnectOver(r) \/ DriveOver(r) \/ FreeTxOver(r) \/ Finalize(r)

(* A quiet step changes no object, and is none of the loops that do. *)
LEMMA QuietFacts ==
  ASSUME TypeOK, NEW r \in Rank, Quiet(r)
  PROVE  /\ live' = live /\ qpState' = qpState /\ qpDest' = qpDest
         /\ stage[r] \in {"createTx", "connect", "freeTx"} => ~(idx[r] < tx_thread_num)
         /\ stage[r] \in {"createRx", "freeRx"} => ~(idx[r] < rx_thread_num)
<1>0. idx[r] \in Nat
  BY ZenonT(30) DEF TypeOK
<1>1. live' = live /\ qpState' = qpState /\ qpDest' = qpDest
  <2>1. live' = live /\ UNCHANGED qpVars
    BY Zenon DEF Quiet, CreateRxOver, CreateTxOver, put_ctx_addr, EnterBarrier, LeaveBarrier,
       get_ctx_addr, GetOver, ConnectOver, DriveOver, FreeTxOver, Finalize
  <2> QED
    BY <2>1 DEF qpVars
<1>2. /\ stage[r] = "createTx" => idx[r] = tx_thread_num
      /\ stage[r] = "connect" => idx[r] = tx_thread_num
      /\ stage[r] = "freeTx" => idx[r] = tx_thread_num
      /\ stage[r] = "createRx" => idx[r] = rx_thread_num
      /\ stage[r] = "freeRx" => idx[r] = rx_thread_num
  <2>1. CASE CreateRxOver(r) \/ CreateTxOver(r) \/ put_ctx_addr(r)
    BY <2>1 DEF CreateRxOver, CreateTxOver, put_ctx_addr, Round, Over
  <2>2. CASE EnterBarrier(r) \/ LeaveBarrier(r)
    BY <2>2 DEF EnterBarrier, LeaveBarrier, BarrierCall, BarrierReturn, Round, Over
  <2>3. CASE get_ctx_addr(r) \/ GetOver(r) \/ ConnectOver(r)
    BY <2>3 DEF get_ctx_addr, GetOver, connect_none, ConnectOver, Round, Over
  <2>4. CASE DriveOver(r) \/ FreeTxOver(r) \/ Finalize(r)
    BY <2>4 DEF DriveOver, FreeTxOver, Finalize, Round, Over
  <2> QED
    BY <2>1, <2>2, <2>3, <2>4, Zenon DEF Quiet
<1> QED
  BY <1>0, <1>1, <1>2, ConstFacts

LEMMA MainCases ==
  ASSUME NEW r, MainStep(r)
  PROVE  \/ init_device(r) \/ CreateRx(r) \/ CreateTx(r) \/ qp_to_rtr(r) \/ qp_to_rts(r)
         \/ connect_none(r) \/ FreeTx(r) \/ FreeRx(r) \/ FreeRxOver(r) \/ Quiet(r)
BY Zenon DEF MainStep, Quiet

LEMMA QpEffect ==
  ASSUME TypeOK, NEW r \in Rank, MainStep(r), NEW i \in Worker
  PROVE  QpChange(backend, stage[r], idx[r], idx'[r], i, qpState[<<r, i>>], qpState'[<<r, i>>])
<1> DEFINE k == idx[r]
           q == qpState[<<r, i>>]
           p == qpState'[<<r, i>>]
<1>0. /\ <<r, i>> \in Ctx /\ qpState \in [Ctx -> QpState] /\ idx \in [Rank -> Nat]
      /\ \A n : <<r, i>> = <<r, n>> <=> i = n
  BY CtxFacts DEF TypeOK
<1>1. CASE CreateRx(r) \/ init_device(r)
  BY <1>1 DEF QpChange, CreateRx, init_device, Round, qpVars
<1>2. CASE CreateTx(r)
  <2>1. p = IF i = k THEN init_ctx(backend) ELSE q
    BY <1>0, <1>2 DEF CreateTx
  <2> QED
    BY <1>2, <2>1 DEF CreateTx, Round, QpChange
<1>3. CASE qp_to_rtr(r)
  <2>1. i = k => q = "INIT"
    BY <1>3 DEF qp_to_rtr
  <2>2. p = IF i = k THEN "RTR" ELSE q
    BY <1>0, <1>3 DEF qp_to_rtr
  <2> QED
    BY <1>3, <2>1, <2>2 DEF qp_to_rtr, Round, QpChange
<1>4. CASE qp_to_rts(r)
  <2>1. i = k => q = "RTR"
    BY <1>4 DEF qp_to_rts
  <2>2. p = IF i = k THEN "RTS" ELSE q
    BY <1>0, <1>4 DEF qp_to_rts
  <2>3. idx'[r] = k + 1
    BY <1>0, <1>4 DEF qp_to_rts, Goto
  <2> QED
    BY <1>4, <2>1, <2>2, <2>3 DEF qp_to_rts, Round, QpChange
<1>5. CASE FreeTx(r)
  <2>1. p = IF i = k THEN "none" ELSE q
    BY <1>0, <1>5 DEF FreeTx
  <2> QED
    BY <1>5, <2>1 DEF FreeTx, Round, QpChange
<1>6. CASE FreeRx(r) \/ FreeRxOver(r) \/ connect_none(r)
  BY <1>6 DEF QpChange, FreeRx, FreeRxOver, connect_none, Round, Over, qpVars
<1>7. CASE Quiet(r)
  BY <1>7, QuietFacts DEF QpChange
<1> QED
  BY <1>1, <1>2, <1>3, <1>4, <1>5, <1>6, <1>7, MainCases, Zenon

LEMMA NextQpAt ==
  ASSUME TypeOK, Counts, Objects, NEW r \in Rank, MainStep(r), NEW i \in Worker
  PROVE  QpAt(backend, stage'[r], idx'[r], i, qpState'[<<r, i>>])
<1>1. backend \in {"ib", "ofi"} /\ stage[r] \in Stage /\ idx[r] \in Nat /\ qpState[<<r, i>>] \in QpState
  BY CtxFacts DEF TypeOK
<1>2. Bounded(backend, stage[r], idx[r]) /\ QpAt(backend, stage[r], idx[r], i, qpState[<<r, i>>])
  BY Zenon DEF Counts, Objects
<1>3. \/ Moves(backend, stage[r], idx[r], stage'[r], idx'[r]) \/ Calls(backend, stage[r], idx[r], stage'[r], idx'[r])
      \/ Returns(backend, stage[r], idx[r], stage'[r], idx'[r])
  BY StepMoves
<1> DEFINE b == backend
           s == stage[r]
           k == idx[r]
           l == idx'[r]
           q == qpState[<<r, i>>]
           p == qpState'[<<r, i>>]
<1>4. QpChange(b, s, k, l, i, q, p)
  BY QpEffect, ZenonT(30)
<1> DEFINE t == stage'[r]
<1>5. /\ b \in {"ib", "ofi"} /\ s \in Stage /\ k \in Nat /\ q \in QpState /\ Bounded(b, s, k) /\ QpAt(b, s, k, i, q)
      /\ Moves(b, s, k, t, l) \/ Calls(b, s, k, t, l) \/ Returns(b, s, k, t, l)
  BY <1>1, <1>2, <1>3
<1> HIDE DEF b, s, k, l, p, q, t
<1>6. QpAt(b, t, l, i, p)
  BY <1>4, <1>5, QpMoves, ZenonT(30)
<1> QED
  BY <1>6 DEF b, t, l, p

LEMMA LiveEffect ==
  ASSUME TypeOK, Counts, Objects, NEW r \in Rank, MainStep(r), NEW i \in Worker, NEW k \in {"tx_cq", "tx_ctx"}
  PROVE  <<k, i>> \in live'[r] <=> qpState'[<<r, i>>] # "none"
<1>0. /\ <<r, i>> \in Ctx /\ live \in [Rank -> SUBSET Object] /\ qpState \in [Ctx -> QpState]
      /\ \A n : <<r, i>> = <<r, n>> <=> i = n
      /\ \A n : <<k, i>> \notin RxObjects(n) /\ <<k, i>> # Device
      /\ \A n : <<k, i>> \in TxObjects(n) <=> i = n
  BY CtxFacts DEF TypeOK, TxObjects, RxObjects, Device
<1>1. <<k, i>> \in live[r] <=> qpState[<<r, i>>] # "none"
  BY ZenonT(30) DEF Objects
<1>2. CASE CreateRx(r) \/ init_device(r)
  BY <1>0, <1>1, <1>2 DEF CreateRx, init_device, qpVars
<1>3. CASE CreateTx(r)
  <2>1. live'[r] = live[r] \cup TxObjects(idx[r])
    BY <1>0, <1>3 DEF CreateTx
  <2>2. qpState'[<<r, i>>] = IF i = idx[r] THEN init_ctx(backend) ELSE qpState[<<r, i>>]
    BY <1>0, <1>3 DEF CreateTx
  <2> QED
    BY <1>0, <1>1, <2>1, <2>2 DEF init_ctx
<1>4. CASE qp_to_rtr(r) \/ qp_to_rts(r)
  <2>1. live' = live /\ (qpState'[<<r, i>>] # "none" <=> qpState[<<r, i>>] # "none")
    BY <1>0, <1>4 DEF qp_to_rtr, qp_to_rts
  <2> QED
    BY <1>1, <2>1
<1>5. CASE FreeTx(r)
  <2>1. live'[r] = live[r] \ TxObjects(idx[r])
    BY <1>0, <1>5 DEF FreeTx
  <2>2. qpState'[<<r, i>>] = IF i = idx[r] THEN "none" ELSE qpState[<<r, i>>]
    BY <1>0, <1>5 DEF FreeTx
  <2> QED
    BY <1>0, <1>1, <2>1, <2>2
<1>6. CASE FreeRx(r) \/ FreeRxOver(r) \/ connect_none(r)
  BY <1>0, <1>1, <1>6 DEF FreeRx, FreeRxOver, connect_none, qpVars
<1>7. CASE Quiet(r)
  BY <1>1, <1>7, QuietFacts
<1> QED
  BY <1>2, <1>3, <1>4, <1>5, <1>6, <1>7, MainCases, ZenonT(30)

LEMMA RxMoves ==
  ASSUME NEW b \in {"ib", "ofi"}, NEW s \in Stage, NEW k \in Nat, NEW t, NEW l, NEW p \in PrgThread, Bounded(b, s, k),
         Moves(b, s, k, t, l) \/ Calls(b, s, k, t, l) \/ Returns(b, s, k, t, l)
  PROVE  /\ s = "createRx" /\ k < rx_thread_num => (RxLive(t, l, p) <=> RxLive(s, k, p) \/ p = k)
         /\ s = "freeRx" /\ k < rx_thread_num => (RxLive(t, l, p) <=> RxLive(s, k, p) /\ p # k)
         /\ s \notin {"createRx", "freeRx"} \/ ~(k < rx_thread_num) => (RxLive(t, l, p) <=> RxLive(s, k, p))
<1>0. p \in Nat /\ p < rx_thread_num /\ rx_thread_num \in Nat /\ k \in Nat
  BY CtxFacts, ConstFacts
<1>1. CASE s = "createRx"
  BY <1>0, <1>1, SMTT(30) DEF RxLive, Bounded, Moves, Calls, Returns
<1>2. CASE s = "freeRx"
  BY <1>0, <1>2, SMTT(30) DEF RxLive, Bounded, Moves, Calls, Returns
<1>3. CASE s \notin {"createRx", "freeRx"}
  BY <1>0, <1>3, SMTT(30) DEF RxLive, Bounded, Moves, Calls, Returns
<1> QED
  BY <1>1, <1>2, <1>3

LEMMA RxLiveEffect ==
  ASSUME TypeOK, Counts, Objects, NEW r \in Rank, MainStep(r), NEW p \in PrgThread,
         NEW n \in {"rx_cq", "rx_ctx"}
  PROVE  <<n, p>> \in live'[r] <=> RxLive(stage'[r], idx'[r], p)
<1> DEFINE b == backend
           s == stage[r]
           k == idx[r]
           t == stage'[r]
           l == idx'[r]
<1>0. /\ live \in [Rank -> SUBSET Object]
      /\ \A m : <<n, p>> \notin TxObjects(m) /\ <<n, p>> # Device
      /\ \A m : <<n, p>> \in RxObjects(m) <=> p = m
  BY ZenonT(30) DEF TypeOK, TxObjects, RxObjects, Device
<1>1. <<n, p>> \in live[r] <=> RxLive(s, k, p)
  BY Zenon DEF Objects
<1>2. b \in {"ib", "ofi"} /\ s \in Stage /\ k \in Nat /\ Bounded(b, s, k)
  BY ZenonT(30) DEF TypeOK, Counts
<1>3. Moves(b, s, k, t, l) \/ Calls(b, s, k, t, l) \/ Returns(b, s, k, t, l)
  BY StepMoves
<1>4. /\ s = "createRx" /\ k < rx_thread_num => (RxLive(t, l, p) <=> RxLive(s, k, p) \/ p = k)
      /\ s = "freeRx" /\ k < rx_thread_num => (RxLive(t, l, p) <=> RxLive(s, k, p) /\ p # k)
      /\ s \notin {"createRx", "freeRx"} \/ ~(k < rx_thread_num) => (RxLive(t, l, p) <=> RxLive(s, k, p))
  <2> HIDE DEF b, s, k, t, l
  <2> QED
    BY <1>2, <1>3, RxMoves, Zenon
<1>5. CASE CreateRx(r)
  <2>1. live'[r] = live[r] \cup RxObjects(k) /\ s = "createRx" /\ k < rx_thread_num
    BY <1>0, <1>5 DEF CreateRx, Round
  <2> QED
    BY <1>0, <1>1, <1>4, <2>1, ZenonT(30)
<1>6. CASE FreeRx(r)
  <2>1. live'[r] = live[r] \ RxObjects(k) /\ s = "freeRx" /\ k < rx_thread_num
    BY <1>0, <1>6 DEF FreeRx, Round
  <2> QED
    BY <1>0, <1>1, <1>4, <2>1
<1>7. CASE \/ init_device(r) \/ CreateTx(r) \/ qp_to_rtr(r) \/ qp_to_rts(r) \/ connect_none(r)
           \/ FreeTx(r) \/ FreeRxOver(r)
  <2>1. s \notin {"createRx", "freeRx"} \/ ~(k < rx_thread_num)
    <3>1. CASE FreeRxOver(r)
      <4>1. k = rx_thread_num
        BY <3>1, Zenon DEF FreeRxOver, Over
      <4>2. ~(rx_thread_num < rx_thread_num)
        BY ConstFacts
      <4> QED  BY <4>1, <4>2, Zenon
    <3>2. CASE init_device(r) \/ CreateTx(r) \/ qp_to_rtr(r)
      BY <3>2, ZenonT(30) DEF init_device, CreateTx, qp_to_rtr, Round
    <3>3. CASE qp_to_rts(r) \/ connect_none(r) \/ FreeTx(r)
      BY <3>3, ZenonT(30) DEF qp_to_rts, connect_none, FreeTx, Round
    <3> QED
      BY <1>7, <3>1, <3>2, <3>3
  <2>2. <<n, p>> \in live'[r] <=> <<n, p>> \in live[r]
    <3>1. CASE init_device(r) \/ FreeRxOver(r)
      BY <1>0, <3>1 DEF init_device, FreeRxOver
    <3>2. CASE CreateTx(r) \/ FreeTx(r)
      BY <1>0, <3>2 DEF CreateTx, FreeTx
    <3>3. CASE qp_to_rtr(r) \/ qp_to_rts(r) \/ connect_none(r)
      BY <3>3 DEF qp_to_rtr, qp_to_rts, connect_none
    <3> QED
      BY <1>7, <3>1, <3>2, <3>3
  <2> QED
    BY <1>1, <1>4, <2>1, <2>2
<1>8. CASE Quiet(r)
  BY <1>1, <1>4, <1>8, QuietFacts, ZenonT(30)
<1> QED
  BY <1>5, <1>6, <1>7, <1>8, MainCases, Zenon

NoDevice == {"device", "leave", "leaveBar", "finalize", "done"}

LEMMA DeviceEffect ==
  ASSUME TypeOK, Objects, NEW r \in Rank, MainStep(r)
  PROVE  Device \in live'[r] <=> stage'[r] \notin NoDevice
<1>0. /\ live \in [Rank -> SUBSET Object] /\ stage \in [Rank -> Stage]
      /\ \A m : Device \notin TxObjects(m) /\ Device \notin RxObjects(m)
  BY DEF TypeOK, TxObjects, RxObjects, Device
<1>1. Device \in live[r] <=> stage[r] \notin NoDevice
  BY Zenon DEF Objects, NoDevice
<1>2. \A s, k : Goto(r, s, k) => stage'[r] = s
  BY <1>0 DEF Goto
<1>3. CASE init_device(r)
  BY <1>0, <1>2, <1>3 DEF init_device, NoDevice, device_ready
<1>4. CASE FreeRxOver(r)
  BY <1>0, <1>2, <1>4 DEF FreeRxOver, NoDevice
<1>5. CASE CreateRx(r) \/ FreeRx(r)
  BY <1>0, <1>1, <1>2, <1>5 DEF CreateRx, FreeRx, Round, NoDevice
<1>6. CASE CreateTx(r) \/ FreeTx(r)
  BY <1>0, <1>1, <1>2, <1>6 DEF CreateTx, FreeTx, Round, NoDevice
<1>7. CASE qp_to_rtr(r) \/ qp_to_rts(r) \/ connect_none(r)
  BY <1>0, <1>1, <1>2, <1>7 DEF qp_to_rtr, qp_to_rts, connect_none, Round, NoDevice
<1>8. CASE Quiet(r)
  <2>1. live' = live
    BY <1>8, QuietFacts
  <2>2. stage'[r] \in NoDevice <=> stage[r] \in NoDevice
    BY <1>2, <1>8, ZenonT(30) DEF Quiet, CreateRxOver, CreateTxOver, put_ctx_addr, EnterBarrier, LeaveBarrier, BarrierCall,
       BarrierReturn, get_ctx_addr, GetOver, ConnectOver, DriveOver, FreeTxOver, Finalize, Round, Over, NoDevice
  <2> QED
    BY <1>1, <2>1, <2>2
<1> QED
  BY <1>3, <1>4, <1>5, <1>6, <1>7, <1>8, MainCases, Zenon

LEMMA NextObjects ==
  ASSUME TypeOK, Counts, Objects, NEW r \in Rank, MainStep(r)
  PROVE  Objects'
<1> SUFFICES ASSUME NEW q \in Rank
             PROVE  /\ \A i \in Worker :
                         /\ QpAt(backend, stage'[q], idx'[q], i, qpState'[<<q, i>>])
                         /\ \A k \in {"tx_cq", "tx_ctx"} : <<k, i>> \in live'[q] <=> qpState'[<<q, i>>] # "none"
                    /\ \A p \in PrgThread : \A k \in {"rx_cq", "rx_ctx"} :
                         <<k, p>> \in live'[q] <=> RxLive(stage'[q], idx'[q], p)
                    /\ Device \in live'[q] <=> stage'[q] \notin NoDevice
  <2>1. backend' = backend
    BY Frame, ZenonT(30)
  <2> QED
    BY <2>1, ZenonT(30) DEF Objects, NoDevice, Device
<1>1. CASE q = r
  BY <1>1, NextQpAt, LiveEffect, RxLiveEffect, DeviceEffect, ZenonT(30)
<1>2. CASE q # r
  <2>1. stage'[q] = stage[q] /\ idx'[q] = idx[q] /\ live'[q] = live[q]
    BY <1>2, Frame, ZenonT(30)
  <2>2. \A i \in Worker : qpState'[<<q, i>>] = qpState[<<q, i>>]
    BY <1>2, Frame, CtxFacts
  <2> QED
    BY <2>1, <2>2, ZenonT(30) DEF Objects, NoDevice
<1> QED
  BY <1>1, <1>2

-----------------------------------------------------------------------------
(* Addresses.  A process that has passed flush_ctx_addr is Late. *)

Late(s) == s \notin Early \cup {"put", "stored", "putBar", "flushBar"}

LEMMA LatePassed ==
  ASSUME NEW b \in {"ib", "ofi"}, NEW s \in Stage, NEW k \in Nat, NEW out \in Nat, Passed(b, s, k, out), Late(s)
  PROVE  out >= StartBarriers(b)
BY ConstFacts, NumFacts DEF Passed, Late, Stage, Early

LEMMA EarlyPassed ==
  ASSUME NEW b \in {"ib", "ofi"}, NEW s \in Stage, NEW k \in Nat, NEW out \in Nat, NEW in \in Nat,
         Passed(b, s, k, out), Bounded(b, s, k),
         s \in InBarrier => in = out + 1, s \notin InBarrier => in = out,
         in >= StartBarriers(b)
  PROVE  s \notin Early \cup {"put", "stored", "putBar"}
<1>1. /\ get_num_ctx_addr(b) \in Nat \ {0} /\ OpenBarriers(b) \in Nat
      /\ StartBarriers(b) = OpenBarriers(b) + get_num_ctx_addr(b) + 1
      /\ b = "ofi" => OpenBarriers(b) = 1
  BY NumFacts
<1>2. s \notin {"device", "opened", "openBar"}
  BY <1>1 DEF Passed, Bounded, InBarrier
<1>3. s \notin {"createRx", "createTx", "put", "stored", "putBar"}
  BY <1>1 DEF Passed, Bounded, InBarrier
<1> QED
  BY <1>2, <1>3 DEF Early

(* Once one process is Late, every process has published its addresses. *)
LEMMA AllPublished ==
  ASSUME TypeOK, Counts, Pmi!Separated, NEW u \in Rank, Late(stage[u]), NEW q \in Rank
  PROVE  stage[q] \notin Early \cup {"put", "stored", "putBar"}
<1>1. /\ stage[u] \in Stage /\ idx[u] \in Nat /\ pmiOut[u] \in Nat /\ backend \in {"ib", "ofi"}
      /\ stage[q] \in Stage /\ idx[q] \in Nat /\ pmiOut[q] \in Nat /\ pmiIn[q] \in Nat
  BY DEF TypeOK
<1>2. Passed(backend, stage[u], idx[u], pmiOut[u])
  BY DEF Counts
<1>3. pmiOut[u] >= StartBarriers(backend)
  BY <1>1, <1>2, LatePassed
<1>4. pmiIn[q] >= StartBarriers(backend)
  <2>1. StartBarriers(backend) \in Nat
    BY <1>1, NumFacts
  <2> QED
    BY <1>1, <1>3, <2>1, PmiSeparated
<1>5. /\ Passed(backend, stage[q], idx[q], pmiOut[q]) /\ Bounded(backend, stage[q], idx[q])
      /\ stage[q] \in InBarrier => pmiIn[q] = pmiOut[q] + 1
      /\ stage[q] \notin InBarrier => pmiIn[q] = pmiOut[q]
  BY DEF Counts
<1> QED
  BY <1>1, <1>4, <1>5, EarlyPassed, Zenon

LEMMA PublishMoves ==
  ASSUME NEW b \in {"ib", "ofi"}, NEW s \in Stage, NEW k \in Nat, NEW t, NEW l, NEW i \in Worker, Bounded(b, s, k),
         Moves(b, s, k, t, l) \/ Calls(b, s, k, t, l) \/ Returns(b, s, k, t, l),
         Published(b, t, l, i)
  PROVE  Published(b, s, k, i) \/ (s = "put" /\ k < get_num_ctx_addr(b) /\ i = k)
<1>0. i \in Nat /\ get_num_ctx_addr(b) \in Nat \ {0} /\ k \in Nat
  BY CtxFacts, NumFacts
<1>1. CASE s \in {"put", "stored", "putBar"}
  BY <1>0, <1>1, SMTT(30) DEF Published, Bounded, Moves, Calls, Returns, Early
<1>2. CASE s \notin {"put", "stored", "putBar"}
  BY <1>0, <1>2, SMTT(30) DEF Published, Bounded, Moves, Calls, Returns, Early
<1> QED
  BY <1>1, <1>2

LEMMA ReadMoves ==
  ASSUME NEW b \in {"ib", "ofi"}, NEW s \in Stage, NEW k \in Nat, NEW t, NEW l, NEW i \in Worker, Bounded(b, s, k),
         Moves(b, s, k, t, l) \/ Calls(b, s, k, t, l) \/ Returns(b, s, k, t, l),
         AddrRead(b, t, l, i)
  PROVE  /\ Late(s)
         /\ AddrRead(b, s, k, i) \/ (s = "get" /\ k < get_num_ctx_addr(b) /\ i = k)
<1>0. i \in Nat /\ get_num_ctx_addr(b) \in Nat \ {0} /\ k \in Nat
  BY CtxFacts, NumFacts
<1>1. CASE s = "get"
  BY <1>0, <1>1, SMTT(30) DEF AddrRead, Late, Bounded, Moves, Calls, Returns, Early
<1>2. CASE s # "get"
  BY <1>0, <1>2, SMTT(30) DEF AddrRead, Late, Bounded, Moves, Calls, Returns, Early
<1> QED
  BY <1>1, <1>2

LEMMA MoveFacts ==
  ASSUME TypeOK, Counts, NEW r \in Rank, MainStep(r)
  PROVE  /\ backend \in {"ib", "ofi"} /\ stage[r] \in Stage /\ idx[r] \in Nat
         /\ Bounded(backend, stage[r], idx[r])
         /\ \/ Moves(backend, stage[r], idx[r], stage'[r], idx'[r])
            \/ Calls(backend, stage[r], idx[r], stage'[r], idx'[r])
            \/ Returns(backend, stage[r], idx[r], stage'[r], idx'[r])
<1>1. /\ backend \in {"ib", "ofi"} /\ stage[r] \in Stage /\ idx[r] \in Nat
      /\ Bounded(backend, stage[r], idx[r])
  BY ZenonT(30) DEF TypeOK, Counts
<1> QED
  BY <1>1, StepMoves, Zenon

LEMMA BelowNum ==
  ASSUME TypeOK, NEW r \in Rank, idx[r] < get_num_ctx_addr(backend)
  PROVE  idx[r] # get_num_ctx_addr(backend)
<1>1. backend \in {"ib", "ofi"} /\ idx[r] \in Nat
  BY DEF TypeOK
<1>2. get_num_ctx_addr(backend) \in Nat
  BY <1>1, NumFacts
<1>3. \A m, n \in Nat : m < n => m # n
  OBVIOUS
<1> QED
  BY <1>1, <1>2, <1>3, Zenon

(* The loops that publish and read addresses have one action each. *)
LEMMA PutOnly ==
  ASSUME TypeOK, NEW r \in Rank, MainStep(r), stage[r] = "put", idx[r] < get_num_ctx_addr(backend)
  PROVE  put_ctx_addr(r)
<1>1. idx[r] # get_num_ctx_addr(backend)
  BY BelowNum, Zenon
<1>2. ~EnterBarrier(r) /\ ~LeaveBarrier(r)
  BY <1>1, ZenonT(30) DEF EnterBarrier, LeaveBarrier, BarrierCall, BarrierReturn, Over, Round
<1>3. ~init_device(r) /\ ~CreateRx(r) /\ ~CreateRxOver(r) /\ ~CreateTx(r) /\ ~CreateTxOver(r)
  BY ZenonT(30) DEF init_device, CreateRx, CreateRxOver, CreateTx, CreateTxOver, Over, Round
<1>4. ~get_ctx_addr(r) /\ ~GetOver(r) /\ ~qp_to_rtr(r) /\ ~qp_to_rts(r) /\ ~connect_none(r) /\ ~ConnectOver(r)
  BY ZenonT(30) DEF get_ctx_addr, GetOver, qp_to_rtr, qp_to_rts, connect_none, ConnectOver, Over, Round
<1>5. ~DriveOver(r) /\ ~FreeTx(r) /\ ~FreeTxOver(r) /\ ~FreeRx(r) /\ ~FreeRxOver(r) /\ ~Finalize(r)
  BY Zenon DEF DriveOver, FreeTx, FreeTxOver, FreeRx, FreeRxOver, Finalize, Over, Round
<1> QED
  BY <1>2, <1>3, <1>4, <1>5, Zenon DEF MainStep

LEMMA GetOnly ==
  ASSUME TypeOK, NEW r \in Rank, MainStep(r), stage[r] = "get", idx[r] < get_num_ctx_addr(backend)
  PROVE  get_ctx_addr(r)
<1>1. idx[r] # get_num_ctx_addr(backend)
  BY BelowNum, Zenon
<1>2. ~EnterBarrier(r) /\ ~LeaveBarrier(r)
  BY <1>1, ZenonT(30) DEF EnterBarrier, LeaveBarrier, BarrierCall, BarrierReturn, Over, Round
<1>3. ~init_device(r) /\ ~CreateRx(r) /\ ~CreateRxOver(r) /\ ~CreateTx(r) /\ ~CreateTxOver(r)
  BY ZenonT(30) DEF init_device, CreateRx, CreateRxOver, CreateTx, CreateTxOver, Over, Round
<1>4. ~put_ctx_addr(r) /\ ~GetOver(r) /\ ~qp_to_rtr(r) /\ ~qp_to_rts(r) /\ ~connect_none(r) /\ ~ConnectOver(r)
  BY <1>1, Zenon DEF put_ctx_addr, GetOver, qp_to_rtr, qp_to_rts, connect_none, ConnectOver, Over, Round
<1>5. ~DriveOver(r) /\ ~FreeTx(r) /\ ~FreeTxOver(r) /\ ~FreeRx(r) /\ ~FreeRxOver(r) /\ ~Finalize(r)
  BY ZenonT(30) DEF DriveOver, FreeTx, FreeTxOver, FreeRx, FreeRxOver, Finalize, Over, Round
<1> QED
  BY <1>2, <1>3, <1>4, <1>5, Zenon DEF MainStep

(* The three parts of Exchange for one queue pair. *)
LEMMA NextPublished ==
  ASSUME TypeOK, Counts, Exchange, NEW r \in Rank, MainStep(r), NEW c \in Ctx,
         Published(backend, stage'[c[1]], idx'[c[1]], c[2])
  PROVE  kvs'[c] = <<printed(backend, ctxNum[c]), Lid(c[1])>>
<1>0. c[1] \in Rank /\ c[2] \in Worker /\ c = <<c[1], c[2]>>
  BY CtxFacts, ZenonT(30)
<1>1. Published(backend, stage[c[1]], idx[c[1]], c[2]) => kvs[c] = <<printed(backend, ctxNum[c]), Lid(c[1])>>
  BY ZenonT(30) DEF Exchange
<1>2. CASE c[1] # r
  BY <1>0, <1>1, <1>2, Frame, ZenonT(30)
<1>3. CASE c[1] = r
  <2>1. \/ Published(backend, stage[r], idx[r], c[2])
        \/ stage[r] = "put" /\ idx[r] < get_num_ctx_addr(backend) /\ c[2] = idx[r]
    <3> DEFINE b == backend
               s == stage[r]
               k == idx[r]
               t == stage'[r]
               l == idx'[r]
               i == c[2]
    <3>1. Published(b, t, l, i) /\ i \in Worker
      BY <1>0, <1>3, ZenonT(30)
    <3>2. /\ b \in {"ib", "ofi"} /\ s \in Stage /\ k \in Nat /\ Bounded(b, s, k)
          /\ Moves(b, s, k, t, l) \/ Calls(b, s, k, t, l) \/ Returns(b, s, k, t, l)
      BY MoveFacts, ZenonT(30)
    <3> HIDE DEF b, s, k, t, l, i
    <3>3. Published(b, s, k, i) \/ (s = "put" /\ k < get_num_ctx_addr(b) /\ i = k)
      BY <3>1, <3>2, PublishMoves, ZenonT(30)
    <3> QED
      BY <3>3 DEF b, s, k, i
  <2>3. CASE put_ctx_addr(r)
    <3>1. kvs' = [kvs EXCEPT ![<<r, idx[r]>>] = <<printed(backend, ctxNum[<<r, idx[r]>>]), Lid(r)>>]
      BY <2>3 DEF put_ctx_addr
    <3>2. CASE c[2] = idx[r]
      <4>1. c = <<r, idx[r]>>
        BY <1>0, <1>3, <3>2, ZenonT(30)
      <4> QED
        BY <1>3, <3>1, <4>1 DEF TypeOK
    <3>3. CASE c[2] # idx[r]
      <4>1. c # <<r, idx[r]>>
        BY <1>0, <3>3, SMTT(30)
      <4> QED
        BY <1>1, <1>3, <2>1, <3>1, <3>3, <4>1, Zenon DEF TypeOK
    <3> QED
      BY <3>2, <3>3, ZenonT(30)
  <2>4. CASE ~put_ctx_addr(r)
    <3>1. kvs' = kvs
      BY <2>4, ZenonT(30) DEF MainStep, init_device, CreateRx, CreateRxOver, CreateTx, CreateTxOver, EnterBarrier,
         LeaveBarrier, get_ctx_addr, GetOver, qp_to_rtr, qp_to_rts, connect_none, ConnectOver, DriveOver,
         FreeTx, FreeTxOver, FreeRx, FreeRxOver, Finalize
    <3>2. ~(stage[r] = "put" /\ idx[r] < get_num_ctx_addr(backend))
      BY <2>4, PutOnly, Zenon
    <3> QED
      BY <1>1, <1>3, <2>1, <3>1, <3>2, ZenonT(30)
  <2> QED
    BY <2>3, <2>4
<1> QED
  BY <1>2, <1>3

LEMMA NextRead ==
  ASSUME TypeOK, Counts, Pmi!Separated, Exchange, NEW r \in Rank, MainStep(r), NEW c \in Ctx,
         AddrRead(backend, stage'[c[1]], idx'[c[1]], c[2])
  PROVE  addrs'[c] = Address(Peer(c))
<1>0. c[1] \in Rank /\ c[2] \in Worker /\ c = <<c[1], c[2]>> /\ Peer(c) \in Ctx
  BY CtxFacts, PeerFacts, ZenonT(30)
<1>1. AddrRead(backend, stage[c[1]], idx[c[1]], c[2]) => addrs[c] = Address(Peer(c))
  BY ZenonT(30) DEF Exchange
<1>2. CASE c[1] # r
  <2>1. AddrRead(backend, stage[c[1]], idx[c[1]], c[2]) /\ addrs'[c] = addrs[c]
    BY <1>0, <1>2, Frame, ZenonT(30)
  <2> QED
    BY <1>1, <2>1
<1>3. CASE c[1] = r
  <2>1. /\ Late(stage[r])
        /\ \/ AddrRead(backend, stage[r], idx[r], c[2])
           \/ stage[r] = "get" /\ idx[r] < get_num_ctx_addr(backend) /\ c[2] = idx[r]
    <3> DEFINE b == backend
               s == stage[r]
               k == idx[r]
               t == stage'[r]
               l == idx'[r]
               i == c[2]
    <3>1. AddrRead(b, t, l, i) /\ i \in Worker
      BY <1>0, <1>3, ZenonT(30)
    <3>2. /\ b \in {"ib", "ofi"} /\ s \in Stage /\ k \in Nat /\ Bounded(b, s, k)
          /\ Moves(b, s, k, t, l) \/ Calls(b, s, k, t, l) \/ Returns(b, s, k, t, l)
      BY MoveFacts, ZenonT(30)
    <3> HIDE DEF b, s, k, t, l, i
    <3>3. Late(s) /\ (AddrRead(b, s, k, i) \/ (s = "get" /\ k < get_num_ctx_addr(b) /\ i = k))
      BY <3>1, <3>2, ReadMoves, Zenon
    <3> QED
      BY <3>3 DEF b, s, k, i
  <2>3. CASE stage[r] = "get" /\ idx[r] < get_num_ctx_addr(backend) /\ c[2] = idx[r]
    <3> DEFINE v == kvs[Peer(c)]
    <3>1. get_ctx_addr(r)
      BY <2>3, GetOnly
    <3>2. c = <<r, idx[r]>>
      BY <1>0, <1>3, <2>3, ZenonT(30)
    <3>3. addrs'[c] = IF v = None THEN None ELSE <<parsed(backend, v[1]), v[2]>>
      BY <3>1, <3>2, ZenonT(30) DEF get_ctx_addr, TypeOK
    <3>4. Peer(c)[1] \in Rank /\ Peer(c)[2] \in Worker
      BY <1>0, CtxFacts
    <3>5. stage[Peer(c)[1]] \notin Early \cup {"put", "stored", "putBar"}
      BY <2>1, <3>4, AllPublished
    <3>6. Published(backend, stage[Peer(c)[1]], idx[Peer(c)[1]], Peer(c)[2])
      BY <1>0, <2>3, <3>5, PeerFacts DEF Published
    <3>7. v = <<printed(backend, ctxNum[Peer(c)]), Lid(Peer(c)[1])>>
      BY <1>0, <3>6 DEF Exchange
    <3>8. ctxNum[Peer(c)] \in 0 .. Word - 1 /\ Lid(Peer(c)[1]) \in Int
      BY <1>0, <3>4, NumberFacts, ConstFacts DEF Lid, Rank
    <3>9. printed(backend, ctxNum[Peer(c)]) \in Int /\ parsed(backend, printed(backend, ctxNum[Peer(c)])) = ctxNum[Peer(c)]
      BY <3>8, RoundTrip, ZenonT(30)
    <3>10. v # None /\ v[1] = printed(backend, ctxNum[Peer(c)]) /\ v[2] = Lid(Peer(c)[1])
      <4> DEFINE p == printed(backend, ctxNum[Peer(c)])
                 l == Lid(Peer(c)[1])
      <4>1. p \in Int /\ l \in Int /\ v = <<p, l>>
        BY <3>7, <3>8, <3>9, Zenon
      <4> HIDE DEF p, l, v
      <4>2. v # None /\ v[1] = p /\ v[2] = l
        BY <4>1, PairFacts, ZenonT(30)
      <4> QED  BY <4>2, Zenon DEF p, l
    <3>11. addrs'[c] = Address(Peer(c))
      BY <3>3, <3>9, <3>10 DEF Address
    <3> QED
      BY <3>11, ZenonT(30)
  <2>4. CASE ~(stage[r] = "get" /\ idx[r] < get_num_ctx_addr(backend) /\ c[2] = idx[r])
    <3>1. addrs[c] = Address(Peer(c))
      BY <1>1, <1>3, <2>1, <2>4
    <3>2. addrs'[c] = addrs[c]
      <4>1. CASE get_ctx_addr(r)
        <5>1. c # <<r, idx[r]>>
          BY <1>0, <2>4, <4>1, SMTT(30) DEF get_ctx_addr, Round
        <5> QED
          BY <4>1, <5>1, Zenon DEF get_ctx_addr, TypeOK
      <4>2. CASE ~get_ctx_addr(r)
        BY <4>2, ZenonT(30) DEF MainStep, init_device, CreateRx, CreateRxOver, CreateTx, CreateTxOver, EnterBarrier,
           LeaveBarrier, put_ctx_addr, GetOver, qp_to_rtr, qp_to_rts, connect_none, ConnectOver, DriveOver,
           FreeTx, FreeTxOver, FreeRx, FreeRxOver, Finalize
      <4> QED
        BY <4>1, <4>2, ZenonT(30)
    <3> QED
      BY <3>1, <3>2, ZenonT(30)
  <2> QED
    BY <2>3, <2>4, ZenonT(30)
<1> QED
  BY <1>2, <1>3, Zenon

LEMMA NextWired ==
  ASSUME TypeOK, Counts, Pmi!Separated, Exchange, Objects, NEW r \in Rank, MainStep(r), NEW c \in Ctx,
         qpState'[c] \in {"RTR", "RTS"}
  PROVE  qpDest'[c] = Address(Peer(c))
<1>0. c[1] \in Rank /\ c[2] \in Worker /\ c = <<c[1], c[2]>>
  BY CtxFacts
<1>1. qpState \in [Ctx -> QpState] /\ qpDest \in [Ctx -> (Int \X Int) \cup {None}]
  BY ZenonT(30) DEF TypeOK
<1>2. CASE qp_to_rtr(r) /\ c = <<r, idx[r]>>
  <2>1. stage[c[1]] = "connect" /\ qpDest'[c] = addrs[c]
    BY <1>0, <1>1, <1>2 DEF qp_to_rtr, Round
  <2>2. AddrRead(backend, stage[c[1]], idx[c[1]], c[2])
    <3>1. QpAt(backend, stage[c[1]], idx[c[1]], c[2], qpState[c]) /\ qpState[c] = "INIT"
      BY <1>0, <1>2, ZenonT(30) DEF Objects, qp_to_rtr
    <3>2. backend = "ib"
      BY <2>1, <3>1 DEF QpAt, TypeOK
    <3> QED
      BY <1>0, <2>1, <3>2, CtxFacts DEF AddrRead, Early, get_num_ctx_addr
  <2>3. addrs[c] = Address(Peer(c))
    BY <2>2, ZenonT(30) DEF Exchange
  <2> QED
    BY <2>1, <2>3
<1>3. CASE ~(qp_to_rtr(r) /\ c = <<r, idx[r]>>)
  <2>1. qpState[c] \in {"RTR", "RTS"} /\ qpDest'[c] = qpDest[c]
    <3>1. CASE CreateTx(r)
      BY <1>1, <3>1 DEF CreateTx, init_ctx
    <3>2. CASE qp_to_rtr(r)
      BY <1>1, <1>3, <3>2 DEF qp_to_rtr
    <3>3. CASE qp_to_rts(r)
      BY <1>1, <3>3 DEF qp_to_rts
    <3>4. CASE FreeTx(r)
      BY <1>1, <3>4 DEF FreeTx
    <3>5. CASE init_device(r) \/ CreateRx(r) \/ connect_none(r) \/ FreeRx(r) \/ FreeRxOver(r)
      BY <3>5, Zenon DEF init_device, CreateRx, connect_none, FreeRx, FreeRxOver, qpVars
    <3>6. CASE Quiet(r)
      BY <3>6, QuietFacts
    <3> QED
      BY <3>1, <3>2, <3>3, <3>4, <3>5, <3>6, MainCases, ZenonT(30)
  <2>2. qpDest[c] = Address(Peer(c))
    BY <2>1, Zenon DEF Exchange
  <2> QED
    BY <2>1, <2>2
<1> QED
  BY <1>2, <1>3

LEMMA NextExchange ==
  ASSUME TypeOK, Counts, Pmi!Separated, Exchange, Objects, NEW r \in Rank, MainStep(r)
  PROVE  Exchange'
<1>1. backend' = backend
  BY Frame
<1> SUFFICES ASSUME NEW c \in Ctx
             PROVE  /\ Published(backend, stage'[c[1]], idx'[c[1]], c[2]) =>
                         kvs'[c] = <<printed(backend, ctxNum[c]), Lid(c[1])>>
                    /\ AddrRead(backend, stage'[c[1]], idx'[c[1]], c[2]) => addrs'[c] = Address(Peer(c))
                    /\ qpState'[c] \in {"RTR", "RTS"} => qpDest'[c] = Address(Peer(c))
  BY <1>1, Zenon DEF Exchange
<1> QED
  BY NextPublished, NextRead, NextWired, Zenon

-----------------------------------------------------------------------------
(* The inductive invariant. *)

LEMMA InitIInv == Init => IInv
<1> SUFFICES ASSUME Init PROVE IInv
  OBVIOUS
<1>1. TypeOK
  BY InitTypeOK
<1>2. \A r \in Rank : stage[r] = "device" /\ idx[r] = 0 /\ live[r] = {} /\ pmiIn[r] = 0 /\ pmiOut[r] = 0
  BY DEF Init, Pmi!Init
<1>3. \A c \in Ctx : qpState[c] = "none"
  BY DEF Init
<1>4. Counts
  BY <1>2, ConstFacts, ZenonT(30) DEF Counts, Bounded, Passed, InBarrier
<1>5. Pmi!Separated
  BY <1>2, PmiSeparated
<1>6. Exchange
  BY <1>2, <1>3, CtxFacts DEF Exchange, Published, AddrRead, Early
<1>7. Objects
  BY <1>2, <1>3, CtxFacts DEF Objects, QpAt, RxLive, Early
<1> QED
  BY <1>1, <1>4, <1>5, <1>6, <1>7 DEF IInv

LEMMA NextIInv == IInv /\ [Next]_vars => IInv'
<1> SUFFICES ASSUME IInv, [Next]_vars PROVE IInv'
  OBVIOUS
<1>1. ASSUME NEW r \in Rank, MainStep(r) PROVE IInv'
  BY <1>1, NextTypeOK, NextCounts, NextSeparated, NextExchange, NextObjects DEF IInv
<1>2. CASE UNCHANGED vars
  <2>1. /\ UNCHANGED <<backend, stage, idx, live, kvs, addrs>> /\ UNCHANGED <<qpState, qpDest>>
        /\ UNCHANGED <<pmiIn, pmiOut>>
    BY <1>2, ZenonT(30) DEF vars, qpVars, pmiVars
  <2>2. TypeOK' /\ Counts'
    BY <2>1 DEF IInv, TypeOK, Counts
  <2>3. Pmi!Separated'
    BY <2>1, ZenonT(30) DEF IInv, Pmi!Separated
  <2>4. Exchange' /\ Objects'
    <3>1. Exchange'
      BY <2>1, Zenon DEF IInv, Exchange, Address
    <3>2. Objects'
      BY <2>1, Zenon DEF IInv, Objects
    <3> QED
      BY <3>1, <3>2
  <2> QED
    BY <2>2, <2>3, <2>4 DEF IInv
<1> QED
  BY <1>1, <1>2 DEF Next, Finished

LEMMA InductiveInvariant == Spec => []IInv
BY InitIInv, NextIInv, PTL DEF Spec

LEMMA InvWired == IInv => Wired
<1> SUFFICES ASSUME IInv, NEW c \in Ctx
             PROVE  /\ qpState[c] \in {"RTR", "RTS"} => qpDest[c] = Address(Peer(c)) /\ Peer(Peer(c)) = c
                    /\ backend = "ofi" /\ stage[c[1]] \in {"drive", "driveBar"} =>
                         addrs[Slot(c)] = Address(Peer(Slot(c)))
  BY DEF Wired
<1>1. qpState[c] \in {"RTR", "RTS"} => qpDest[c] = Address(Peer(c)) /\ Peer(Peer(c)) = c
  BY PeerFacts, Zenon DEF IInv, Exchange
<1>2. ASSUME backend = "ofi", stage[c[1]] \in {"drive", "driveBar"}
      PROVE  addrs[Slot(c)] = Address(Peer(Slot(c)))
  <2>1. Slot(c) \in Ctx /\ Slot(c)[1] = c[1] /\ Slot(c)[2] \in PrgThread
    BY ClassFacts
  <2>2. AddrRead(backend, stage[c[1]], idx[c[1]], Slot(c)[2])
    BY <1>2, <2>1, CtxFacts DEF AddrRead, Early, get_num_ctx_addr
  <2> QED
    BY <2>1, <2>2, Zenon DEF IInv, Exchange
<1> QED
  BY <1>1, <1>2

(* The objects of a process, told from where its main is. *)
LEMMA RxThere ==
  ASSUME IInv, NEW r \in Rank, NEW p \in PrgThread, RxLive(stage[r], idx[r], p)
  PROVE  RxObjects(p) \subseteq live[r]
<1>1. <<"rx_cq", p>> \in live[r] /\ <<"rx_ctx", p>> \in live[r]
  BY DEF IInv, Objects
<1> QED
  BY <1>1 DEF RxObjects

LEMMA NothingThere ==
  ASSUME IInv, NEW q \in Rank, stage[q] \in {"device", "leave", "leaveBar", "finalize", "done"}
  PROVE  live[q] = {}
<1>6. \A i \in Worker : \A k \in {"tx_cq", "tx_ctx"} : <<k, i>> \notin live[q]
  BY Zenon DEF IInv, Objects, QpAt, Early
<1>7. \A p \in PrgThread : \A k \in {"rx_cq", "rx_ctx"} : <<k, p>> \notin live[q]
  BY Zenon DEF IInv, Objects, RxLive
<1>8. live[q] \subseteq Object /\ Device \notin live[q]
  BY DEF IInv, TypeOK, Objects
<1>9. ASSUME NEW x \in Object PROVE x \notin live[q]
  <2>1. CASE x \in {"tx_cq", "tx_ctx"} \X Worker
    <3>1. PICK k \in {"tx_cq", "tx_ctx"}, i \in Worker : x = <<k, i>>
      BY <2>1
    <3> QED
      BY <1>6, <3>1, Zenon
  <2>2. CASE x \in {"rx_cq", "rx_ctx"} \X PrgThread
    <3>1. PICK k \in {"rx_cq", "rx_ctx"}, i \in PrgThread : x = <<k, i>>
      BY <2>2
    <3> QED
      BY <1>7, <3>1, Zenon
  <2> QED
    BY <1>8, <2>1, <2>2 DEF Object
<1> QED
  BY <1>8, <1>9

LEMMA InvUsesLive == IInv => UsesLive
<1> SUFFICES ASSUME IInv, NEW c \in Ctx
             PROVE  /\ live[c[1]] # {} => Device \in live[c[1]]
                    /\ <<"tx_ctx", c[2]>> \in live[c[1]] => TxUses(backend, c[2]) \subseteq live[c[1]]
  BY DEF UsesLive
<1> DEFINE s == stage[c[1]]
           k == idx[c[1]]
           p == ClassOf(c[2])
<1>0. c[1] \in Rank /\ c[2] \in Worker /\ c = <<c[1], c[2]>> /\ s \in Stage /\ p \in PrgThread
  BY CtxFacts, ClassFacts, Zenon DEF IInv, TypeOK
<1>1. live[c[1]] # {} => Device \in live[c[1]]
  BY <1>0, NothingThere DEF IInv, Objects
<1>2. ASSUME <<"tx_ctx", c[2]>> \in live[c[1]] PROVE TxUses(backend, c[2]) \subseteq live[c[1]]
  <2>1. qpState[c] # "none" /\ QpAt(backend, s, k, c[2], qpState[c])
    BY <1>0, <1>2, Zenon DEF IInv, Objects
  <2>2. s \notin {"device", "opened", "openBar", "createRx", "freeRx", "leave", "leaveBar", "finalize", "done"}
    BY <2>1 DEF QpAt, Early
  <2>3. RxLive(s, k, p)
    BY <2>2 DEF RxLive
  <2> HIDE DEF p
  <2>4. <<"tx_cq", c[2]>> \in live[c[1]]
    BY <1>0, <2>1, Zenon DEF IInv, Objects
  <2>5. RxObjects(p) \subseteq live[c[1]]
    BY <1>0, <2>3, RxThere
  <2> QED
    BY <2>4, <2>5 DEF TxUses, p
<1> QED
  BY <1>1, <1>2

(* What the barrier counts of two processes say about each other. *)
LEMMA CountFacts ==
  ASSUME IInv, NEW r \in Rank, NEW q \in Rank
  PROVE  /\ pmiOut[r] <= pmiIn[q] /\ pmiIn[r] \in Nat /\ pmiOut[r] \in Nat
         /\ backend \in {"ib", "ofi"} /\ stage[r] \in Stage /\ idx[r] \in Nat
         /\ Bounded(backend, stage[r], idx[r]) /\ Passed(backend, stage[r], idx[r], pmiOut[r])
         /\ stage[r] \in InBarrier => pmiIn[r] = pmiOut[r] + 1
         /\ stage[r] \notin InBarrier => pmiIn[r] = pmiOut[r]
BY PmiSeparated DEF IInv, TypeOK, Counts

LEMMA Driving ==
  ASSUME NEW b \in {"ib", "ofi"}, NEW s \in Stage, NEW k \in Nat, NEW out \in Nat, NEW in \in Nat,
         Passed(b, s, k, out), Bounded(b, s, k),
         s \in InBarrier => in = out + 1, s \notin InBarrier => in = out,
         in > StartBarriers(b), out < StartBarriers(b) + DriverBarriers
  PROVE  s \in {"drive", "driveBar"}
<1>0. StartBarriers(b) \in Nat
  BY NumFacts
<1>1. s \notin Early \cup {"put", "stored", "putBar"}
  BY <1>0, EarlyPassed
<1>2. s \notin {"flushBar", "get", "connect"}
  BY <1>0, ConstFacts DEF Passed, InBarrier
<1>3. s \notin {"freeTx", "freeRx", "leave", "leaveBar", "finalize", "done"}
  BY <1>0, ConstFacts DEF Passed
<1> QED
  BY <1>1, <1>2, <1>3 DEF Stage, Early

LEMMA InvConnected == IInv => ConnectedWhileSending
<1> SUFFICES ASSUME IInv, NEW r \in Rank, MaySend(r), NEW c \in Ctx
             PROVE  Ready(c)
  BY DEF ConnectedWhileSending
<1> DEFINE q == c[1]
           N == StartBarriers(backend)
<1>n. N \in Nat
  BY NumFacts DEF IInv, TypeOK
<1> HIDE DEF N
<1>0. q \in Rank /\ c[2] \in Worker /\ c = <<q, c[2]>>
  BY CtxFacts
<1>1. pmiOut[r] > N /\ pmiIn[r] < N + DriverBarriers
  <2>1. pmiOut[r] = N + idx[r] /\ idx[r] \in Nat
    BY CountFacts, ZenonT(30) DEF MaySend, Passed, N
  <2>2. 0 < idx[r] /\ idx[r] < DriverBarriers
    BY DEF MaySend
  <2>3. CASE stage[r] = "drive"
    <3>1. pmiIn[r] = pmiOut[r]
      BY <2>3, CountFacts DEF InBarrier
    <3> QED
      BY <2>1, <2>2, <3>1, <1>n, ConstFacts, SMTT(30)
  <2>4. CASE stage[r] = "driveBar"
    <3>1. pmiIn[r] = pmiOut[r] + 1 /\ idx[r] # DriverBarriers - 1
      BY <2>4, CountFacts DEF InBarrier, MaySend
    <3> QED
      BY <2>1, <2>2, <3>1, <1>n, ConstFacts, SMTT(30)
  <2> QED
    BY <2>3, <2>4 DEF MaySend
<1> HIDE DEF q
<1>2. pmiIn[q] > N /\ pmiOut[q] < N + DriverBarriers
  <2>1. pmiOut[r] <= pmiIn[q] /\ pmiOut[q] <= pmiIn[r]
    BY <1>0, CountFacts, ZenonT(30)
  <2>2. pmiIn[r] \in Nat /\ pmiOut[r] \in Nat /\ pmiIn[q] \in Nat /\ pmiOut[q] \in Nat
    BY <1>0, CountFacts
  <2> QED
    BY <1>1, <2>1, <2>2, <1>n, ConstFacts, SMTT(30)
<1>3. stage[q] \in {"drive", "driveBar"}
  <2>1. /\ backend \in {"ib", "ofi"} /\ stage[q] \in Stage /\ idx[q] \in Nat /\ pmiIn[q] \in Nat /\ pmiOut[q] \in Nat
        /\ Passed(backend, stage[q], idx[q], pmiOut[q]) /\ Bounded(backend, stage[q], idx[q])
        /\ stage[q] \in InBarrier => pmiIn[q] = pmiOut[q] + 1
        /\ stage[q] \notin InBarrier => pmiIn[q] = pmiOut[q]
    BY <1>0, CountFacts
  <2> QED
    BY <1>2, <2>1, Driving, ZenonT(30) DEF N
<1>4. QpAt(backend, stage[q], idx[q], c[2], qpState[c])
  BY <1>0, Zenon DEF IInv, Objects
<1>5. qpState[c] = IF backend = "ib" THEN "RTS" ELSE "enabled"
  BY <1>3, <1>4 DEF QpAt, IInv, TypeOK
<1>6. ClassOf(c[2]) \in PrgThread
  BY ClassFacts
<1>7. RxLive(stage[q], idx[q], ClassOf(c[2]))
  BY <1>3, ZenonT(30) DEF RxLive
<1>8. RxObjects(ClassOf(c[2])) \subseteq live[q]
  BY <1>0, <1>6, <1>7, RxThere
<1> QED
  BY <1>5, <1>8 DEF Ready, q

LEMMA InvLeavesLast == IInv => LeavesLast
<1> SUFFICES ASSUME IInv, NEW r \in Rank, NEW q \in Rank, stage[r] \in {"finalize", "done"}
             PROVE  live[q] = {}
  BY DEF LeavesLast
<1> DEFINE N == StartBarriers(backend)
<1>n. /\ get_num_ctx_addr(backend) \in Nat \ {0} /\ OpenBarriers(backend) \in Nat
      /\ N = OpenBarriers(backend) + get_num_ctx_addr(backend) + 1
      /\ backend = "ofi" => OpenBarriers(backend) = 1
  BY NumFacts DEF IInv, TypeOK
<1> HIDE DEF N
<1>1. pmiOut[r] = N + DriverBarriers + 1
  BY CountFacts, ZenonT(30) DEF Passed, N
<1>2. pmiIn[q] >= N + DriverBarriers + 1 /\ pmiIn[q] \in Nat /\ pmiOut[q] \in Nat
  BY <1>1, <1>n, CountFacts, ConstFacts
<1>3. pmiOut[q] >= N + DriverBarriers
  BY <1>2, <1>n, CountFacts, ConstFacts
<1>4. /\ backend \in {"ib", "ofi"} /\ stage[q] \in Stage /\ idx[q] \in Nat
      /\ Passed(backend, stage[q], idx[q], pmiOut[q]) /\ Bounded(backend, stage[q], idx[q])
      /\ stage[q] \in InBarrier => pmiIn[q] = pmiOut[q] + 1
      /\ stage[q] \notin InBarrier => pmiIn[q] = pmiOut[q]
  BY CountFacts
<1>5. stage[q] \in {"leaveBar", "finalize", "done"}
  <2>1. stage[q] \notin Early \cup {"put", "stored", "putBar"}
    <3>1. pmiIn[q] >= StartBarriers(backend)
      BY <1>2, <1>n, ConstFacts, SMTT(30) DEF N
    <3> QED
      BY <1>2, <1>4, <3>1, EarlyPassed, Zenon
  <2>2. stage[q] \notin {"freeTx", "freeRx", "leave", "flushBar", "get", "connect"}
    BY <1>2, <1>3, <1>4, <1>n, ConstFacts, SMTT(30) DEF Passed, InBarrier, N
  <2>3. stage[q] # "drive"
    BY <1>2, <1>4, <1>n, ConstFacts, SMTT(30) DEF Passed, Bounded, InBarrier, N
  <2>4. stage[q] # "driveBar"
    BY <1>3, <1>4, <1>n, ConstFacts DEF Passed, Bounded, N
  <2> QED
    BY <1>4, <2>1, <2>2, <2>3, <2>4 DEF Stage, Early
<1> QED
  BY <1>5, NothingThere

-----------------------------------------------------------------------------
(* Start-up connects every queue pair of main to its counterpart in the    *)
(* partner process, or lets every worker address the endpoint of its class *)
(* there, whatever numbers the device gives out.                           *)
THEOREM ConnectsPartners == Spec => []Wired
BY InductiveInvariant, InvWired, PTL

(* The driver's barriers, the only ones between connect_ctx and free_ctx   *)
(* that concern other processes, keep every context ready as long as       *)
(* somebody may send.                                                      *)
THEOREM StaysConnected == Spec => []ConnectedWhileSending
BY InductiveInvariant, InvConnected, PTL

(* main makes and destroys objects in an order that verbs and libfabric    *)
(* accept.                                                                 *)
THEOREM ObjectsOutliveUsers == Spec => []UsesLive
BY InductiveInvariant, InvUsesLive, PTL

(* comm_free lets nobody go before all have freed their objects. *)
THEOREM LeavesTogether == Spec => []LeavesLast
BY InductiveInvariant, InvLeavesLast, PTL
=============================================================================
