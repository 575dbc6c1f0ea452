--------------------------- MODULE UcxStartProofs ---------------------------
(***************************************************************************)
(* The start-up of a UCX benchmark connects every endpoint to the one it   *)
(* is meant for, for every number of processes, contexts and endpoints.    *)
(* The invariant is that the processes go through the same sequence of     *)
(* pmi_barriers in step, and what is therefore stored when it is read.     *)
(* The contexts and connects of pingpong_prg_ucx (UcxLinks.tla) meet the   *)
(* assumption this rests on.                                               *)
(***************************************************************************)
EXTENDS UcxStart, UcxLinks, TLAPS

LEMMA TargetFacts ==
  ASSUME StartAssumption, NEW r \in Rank
  PROVE  target_rank(r) \in Rank /\ target_rank(target_rank(r)) = r
<1> DEFINE h == Size \div 2
<1>1. h \in Nat \ {0} /\ Size = h + h /\ r \in Nat /\ r < h + h
  BY DEF StartAssumption, Rank
<1> HIDE DEF h
<1>2. \A q \in Rank : target_rank(q) = (q + h) % (h + h)
  BY <1>1 DEF h, target_rank
<1>3. \A q \in 0 .. h + h - 1 :
        (q < h => (q + h) % (h + h) = q + h) /\ (~(q < h) => (q + h) % (h + h) = q - h)
  <2> SUFFICES ASSUME NEW q \in 0 .. h + h - 1
               PROVE  /\ q < h => (q + h) % (h + h) = q + h
                      /\ ~(q < h) => (q + h) % (h + h) = q - h
    OBVIOUS
  <2>1. ASSUME q < h PROVE (q + h) % (h + h) = q + h
    BY <1>1, <2>1
  <2>2. ASSUME ~(q < h) PROVE (q + h) % (h + h) = q - h
    BY <1>1, <2>2
  <2> QED  BY <2>1, <2>2
<1>4. Rank = 0 .. h + h - 1
  BY <1>1 DEF Rank
<1>5. \A q \in Rank : target_rank(q) = IF q < h THEN q + h ELSE q - h
  BY <1>2, <1>3, <1>4
<1>6. target_rank(r) \in Rank
  BY <1>1, <1>4, <1>5
<1> QED
  BY <1>1, <1>4, <1>5, <1>6

LEMMA ItemFacts ==
  ASSUME StartAssumption
  PROVE  /\ \A k \in 1 .. Len(Ctxs) : Ctxs[k] \in Ctx /\ EpCount[Ctxs[k]] \in Nat
         /\ \A k \in 1 .. Len(Ctxs), n \in Nat : n <= EpCount[Ctxs[k]] => <<Ctxs[k], n>> \in Item
         /\ \A r \in Rank, i \in Item : epAddr[r][i] \in Int /\ printed(epAddr[r][i]) = epAddr[r][i]
<1>1. \A k \in 1 .. Len(Ctxs) : Ctxs[k] \in Ctx /\ EpCount[Ctxs[k]] \in Nat
  BY DEF StartAssumption, Ctx
<1>2. ASSUME NEW k \in 1 .. Len(Ctxs), NEW n \in Nat, n <= EpCount[Ctxs[k]]
      PROVE  <<Ctxs[k], n>> \in Item
  <2>1. <<Ctxs[k], n>> \in {Ctxs[k]} \X (0 .. EpCount[Ctxs[k]])
    BY <1>1, <1>2
  <2> QED  BY <1>1, <2>1 DEF Item
<1>3. ASSUME NEW r \in Rank, NEW i \in Item
      PROVE  epAddr[r][i] \in Int /\ printed(epAddr[r][i]) = epAddr[r][i]
  <2>1. AddrWord \in Nat \ {0} /\ epAddr[r][i] \in 0 .. AddrWord - 1
    BY DEF StartAssumption
  <2> HIDE DEF StartAssumption
  <2>2. \A a \in 0 .. AddrWord - 1 : a % AddrWord = a
    BY <2>1
  <2> QED  BY <2>1, <2>2 DEF printed
<1> QED
  BY <1>1, <1>2, <1>3

(* An endpoint belongs to a context; its item and the device's are items.  *)
LEMMA EndpointFacts ==
  ASSUME StartAssumption, NEW e \in Endpoint
  PROVE  \E k \in 1 .. Len(Ctxs) : \E n \in 0 .. EpCount[Ctxs[k]] :
           e = <<Ctxs[k], n>> /\ e[1] = Ctxs[k] /\ 0 \in 0 .. EpCount[Ctxs[k]]
<1>1. PICK c \in Ctx : e \in {c} \X (0 .. EpCount[c])
  BY DEF Endpoint, Item
<1>2. PICK k \in 1 .. Len(Ctxs) : c = Ctxs[k]
  BY DEF Ctx
<1>3. EpCount[c] \in Nat
  BY DEF StartAssumption
<1> QED
  BY <1>1, <1>2, <1>3

-----------------------------------------------------------------------------
(* The pmi_barrier in terms of the variables it is instantiated with. *)
LEMMA PmiFacts ==
  /\ \A r \in Rank : Pmi!Enter(r) <=> /\ pmiIn[r] = pmiOut[r]
                                      /\ pmiIn' = [pmiIn EXCEPT ![r] = @ + 1]
                                      /\ pmiOut' = pmiOut
  /\ \A r \in Rank : Pmi!Leave(r) <=> /\ pmiIn[r] = pmiOut[r] + 1
                                      /\ \A q \in Rank : pmiIn[q] >= pmiIn[r]
                                      /\ pmiOut' = [pmiOut EXCEPT ![r] = @ + 1]
                                      /\ pmiIn' = pmiIn
  /\ Pmi!Separated <=> \A r, q \in Rank : pmiOut[r] <= pmiIn[q]
BY DEF Pmi!Enter, Pmi!Leave, Pmi!Inside, Pmi!Separated

LEMMA InitStartInv == StartAssumption /\ Init => StartInv
<1> SUFFICES ASSUME StartAssumption, Init PROVE StartInv
  OBVIOUS
<1>0. Len(Ctxs) \in Nat /\ Len(Links) \in Nat
  BY DEF StartAssumption
<1> USE DEF Init, Pmi!Init
<1>1. TypeOK
  <2>1. None \in Value /\ "init" \in StartState
    BY DEF Value, StartState
  <2>2. start \in [Rank -> StartState] /\ ctx \in [Rank -> Nat \ {0}] /\ item \in [Rank -> Nat]
    BY <2>1
  <2>3. kvs \in [Rank -> [Item -> Value]] /\ peer \in [Rank -> [Item -> Value]]
    BY <2>1
  <2>4. dest \in [Rank -> [Endpoint -> (Value \X Value) \cup {None}]]
    OBVIOUS
  <2>5. pmiIn \in [Rank -> Nat] /\ pmiOut \in [Rank -> Nat]
    OBVIOUS
  <2> QED  BY <2>2, <2>3, <2>4, <2>5 DEF TypeOK
<1>2. Pmi!Separated
  BY PmiFacts
<1>3. \A r \in Rank : Leg(r) = <<1, 0>> /\ pmiOut[r] = 0
  BY DEF Leg, PutStates
<1>4. Lockstep
  <2> HIDE DEF Init, Pmi!Init
  <2> QED  BY <1>3 DEF Lockstep
<1>5. ASSUME NEW r \in Rank PROVE Indices(r)
  BY <1>0 DEF Indices, BarrierStates
<1>6. ASSUME NEW r \in Rank PROVE Addresses(r)
  BY <1>0 DEF Addresses, Stored, Fetched, Connected, Past, PutStates
<1> QED
  BY <1>1, <1>2, <1>4, <1>5, <1>6 DEF StartInv

-----------------------------------------------------------------------------
(* What one step of process r does. *)

LEMMA GotoFacts ==
  ASSUME TypeOK, NEW r \in Rank, NEW s, NEW k, NEW i, Goto(r, s, k, i)
  PROVE  /\ start'[r] = s /\ ctx'[r] = k /\ item'[r] = i
         /\ \A q \in Rank : q # r => start'[q] = start[q] /\ ctx'[q] = ctx[q] /\ item'[q] = item[q]
         /\ s \in StartState => start' \in [Rank -> StartState]
         /\ k \in Nat \ {0} => ctx' \in [Rank -> Nat \ {0}]
         /\ i \in Nat => item' \in [Rank -> Nat]
BY DEF TypeOK, Goto

(* Where a step takes process r, and what it does to the barrier. *)
Jump(r, s, k, i) == start'[r] = s /\ ctx'[r] = k /\ item'[r] = i
AtItem(r) == ctx[r] \in 1 .. Len(Ctxs) /\ item[r] <= EpCount[Ctxs[ctx[r]]]
NextItem(r, within, beyond) ==
  \/ item[r] < EpCount[Ctxs[ctx[r]]] /\ Jump(r, within, ctx[r], item[r] + 1)
  \/ ~(item[r] < EpCount[Ctxs[ctx[r]]]) /\ Jump(r, beyond, ctx[r] + 1, 0)

Moves(r) ==
  \/ start[r] = "init" /\ ctx[r] <= Len(Ctxs) /\ Jump(r, "put", ctx[r], 0)
  \/ start[r] = "put" /\ Jump(r, "stored", ctx[r], item[r])
  \/ start[r] = "get" /\ ctx[r] <= Len(Ctxs) /\ NextItem(r, "get", "get")
  \/ start[r] = "get" /\ ctx[r] > Len(Ctxs) /\ Jump(r, "connect", 1, 0)
  \/ start[r] = "connect" /\ ctx[r] <= Len(Links) /\ Jump(r, "connect", ctx[r] + 1, 0)
Calls(r) ==
  \/ start[r] = "stored" /\ Jump(r, "putBar", ctx[r], item[r])
  \/ start[r] = "init" /\ ctx[r] > Len(Ctxs) /\ Jump(r, "flushBar", 1, 0)
  \/ start[r] = "connect" /\ ctx[r] > Len(Links) /\ Jump(r, "lastBar", 1, 0)
Returns(r) ==
  \/ start[r] = "putBar" /\ NextItem(r, "put", "init")
  \/ start[r] = "flushBar" /\ Jump(r, "get", 1, 0)
  \/ start[r] = "lastBar" /\ Jump(r, "started", 1, 0)

LEMMA NextItemFacts ==
  ASSUME TypeOK, NEW r \in Rank, NEW within, NEW beyond, GotoNextItem(r, within, beyond)
  PROVE  NextItem(r, within, beyond)
BY GotoFacts DEF GotoNextItem, NextItem, Jump

LEMMA StepMoves ==
  ASSUME TypeOK, NEW r \in Rank, StartStep(r)
  PROVE  \/ Moves(r) /\ UNCHANGED pmiVars
         \/ Calls(r) /\ EnterBarrier(r)
         \/ Returns(r) /\ LeaveBarrier(r)
<1>1. CASE init_ctx(r)
  BY <1>1, GotoFacts DEF init_ctx, Moves, Jump
<1>2. CASE put_ctx_addr(r)
  BY <1>2, GotoFacts DEF put_ctx_addr, Moves, Jump
<1>3. CASE EnterBarrier(r)
  BY <1>3, GotoFacts DEF EnterBarrier, BarrierCall, Calls, Jump
<1>4. CASE LeaveBarrier(r)
  BY <1>4, GotoFacts, NextItemFacts DEF LeaveBarrier, BarrierReturn, Returns, Jump
<1>5. CASE get_ctx_addr(r)
  BY <1>5, NextItemFacts DEF get_ctx_addr, Moves
<1>6. CASE GetOver(r)
  BY <1>6, GotoFacts DEF GetOver, Moves, Jump
<1>7. CASE connect(r)
  BY <1>7, GotoFacts DEF connect, Moves, Jump
<1> QED
  BY <1>1, <1>2, <1>3, <1>4, <1>5, <1>6, <1>7 DEF StartStep

(* The state of the other processes stays. *)
Frame(r) ==
  \A q \in Rank : q # r =>
    /\ start'[q] = start[q] /\ ctx'[q] = ctx[q] /\ item'[q] = item[q]
    /\ kvs'[q] = kvs[q] /\ peer'[q] = peer[q] /\ dest'[q] = dest[q]
    /\ pmiIn'[q] = pmiIn[q] /\ pmiOut'[q] = pmiOut[q]

LEMMA StepFrame ==
  ASSUME TypeOK, NEW r \in Rank, StartStep(r)
  PROVE  Frame(r)
<1>1. CASE init_ctx(r) \/ GetOver(r)
  BY <1>1, GotoFacts DEF init_ctx, GetOver, Frame, pmiVars
<1>2. CASE put_ctx_addr(r)
  BY <1>2, GotoFacts DEF TypeOK, put_ctx_addr, Frame, pmiVars
<1>3. CASE EnterBarrier(r)
  <2>1. \A q \in Rank : q # r => pmiIn'[q] = pmiIn[q] /\ pmiOut'[q] = pmiOut[q]
    BY <1>3, PmiFacts DEF TypeOK, EnterBarrier
  <2>2. \A q \in Rank : q # r => start'[q] = start[q] /\ ctx'[q] = ctx[q] /\ item'[q] = item[q]
    BY <1>3, GotoFacts DEF EnterBarrier, BarrierCall
  <2>3. UNCHANGED <<kvs, peer, dest>>
    BY <1>3 DEF EnterBarrier
  <2> QED  BY <2>1, <2>2, <2>3 DEF Frame
<1>4. CASE LeaveBarrier(r)
  <2>1. \A q \in Rank : q # r => pmiIn'[q] = pmiIn[q] /\ pmiOut'[q] = pmiOut[q]
    BY <1>4, PmiFacts DEF TypeOK, LeaveBarrier
  <2>2. \A q \in Rank : q # r => start'[q] = start[q] /\ ctx'[q] = ctx[q] /\ item'[q] = item[q]
    BY <1>4, GotoFacts DEF LeaveBarrier, BarrierReturn, GotoNextItem
  <2>3. UNCHANGED <<kvs, peer, dest>>
    BY <1>4 DEF LeaveBarrier
  <2> QED  BY <2>1, <2>2, <2>3 DEF Frame
<1>5. CASE get_ctx_addr(r)
  <2>1. \A q \in Rank : q # r => start'[q] = start[q] /\ ctx'[q] = ctx[q] /\ item'[q] = item[q]
    BY <1>5, GotoFacts DEF get_ctx_addr, GotoNextItem
  <2>2. \A q \in Rank : q # r => peer'[q] = peer[q]
    BY <1>5 DEF TypeOK, get_ctx_addr
  <2>3. UNCHANGED <<kvs, dest, pmiIn, pmiOut>>
    BY <1>5 DEF get_ctx_addr, pmiVars
  <2> QED  BY <2>1, <2>2, <2>3 DEF Frame
<1>6. CASE connect(r)
  <2>1. \A q \in Rank : q # r => start'[q] = start[q] /\ ctx'[q] = ctx[q] /\ item'[q] = item[q]
    BY <1>6, GotoFacts DEF connect
  <2>2. \A q \in Rank : q # r => dest'[q] = dest[q]
    BY <1>6 DEF TypeOK, connect
  <2>3. UNCHANGED <<kvs, peer, pmiIn, pmiOut>>
    BY <1>6 DEF connect, pmiVars
  <2> QED  BY <2>1, <2>2, <2>3 DEF Frame
<1> QED
  BY <1>1, <1>2, <1>3, <1>4, <1>5, <1>6 DEF StartStep

LEMMA OthersKeep ==
  ASSUME NEW r \in Rank, Frame(r), NEW q \in Rank, q # r
  PROVE  /\ Leg(q)' = Leg(q)
         /\ Indices(q) => Indices(q)'
         /\ Addresses(q) => Addresses(q)'
<1>1. /\ start'[q] = start[q] /\ ctx'[q] = ctx[q] /\ item'[q] = item[q]
      /\ kvs'[q] = kvs[q] /\ peer'[q] = peer[q] /\ dest'[q] = dest[q]
      /\ pmiIn'[q] = pmiIn[q] /\ pmiOut'[q] = pmiOut[q]
  BY DEF Frame
<1>2. Leg(q)' = Leg(q)
  BY <1>1 DEF Leg
<1>3. Indices(q) => Indices(q)'
  BY <1>1 DEF Indices
<1>4. Addresses(q) => Addresses(q)'
  BY <1>1, ZenonT(30) DEF Addresses, Stored, Fetched, Connected, Past, Address, target_rank
<1> QED
  BY <1>2, <1>3, <1>4

(* Types and indices of the process that moves. *)
LEMMA IndexFacts ==
  ASSUME StartAssumption, TypeOK, NEW r \in Rank
  PROVE  /\ ctx[r] \in Nat \ {0} /\ item[r] \in Nat /\ Len(Ctxs) \in Nat /\ Len(Links) \in Nat
         /\ \A k \in 1 .. Len(Ctxs) : EpCount[Ctxs[k]] \in Nat
         /\ pmiIn[r] \in Nat /\ pmiOut[r] \in Nat /\ start[r] \in StartState
BY ItemFacts, ZenonT(30) DEF TypeOK, StartAssumption

LEMMA ThisFacts ==
  ASSUME StartAssumption, TypeOK, NEW r \in Rank, Indices(r),
         start[r] = "put" \/ (start[r] = "get" /\ ctx[r] <= Len(Ctxs))
  PROVE  AtItem(r) /\ This(r) = <<Ctxs[ctx[r]], item[r]>> /\ This(r) \in Item
<1>1. ctx[r] \in 1 .. Len(Ctxs) /\ item[r] \in Nat /\ item[r] <= EpCount[Ctxs[ctx[r]]]
  BY IndexFacts DEF Indices
<1> QED  BY <1>1, ItemFacts DEF This, AtItem

LEMMA StepType ==
  ASSUME StartAssumption, TypeOK, NEW r \in Rank, Indices(r), StartStep(r)
  PROVE  TypeOK'
<1>0. /\ target_rank(r) \in Rank /\ ctx[r] \in Nat \ {0} /\ item[r] \in Nat
      /\ kvs \in [Rank -> [Item -> Value]] /\ peer \in [Rank -> [Item -> Value]]
      /\ dest \in [Rank -> [Endpoint -> (Value \X Value) \cup {None}]]
      /\ pmiIn \in [Rank -> Nat] /\ pmiOut \in [Rank -> Nat]
  BY TargetFacts DEF TypeOK
<1>1. start' \in [Rank -> StartState] /\ ctx' \in [Rank -> Nat \ {0}] /\ item' \in [Rank -> Nat]
  <2>1. /\ \A s \in {"put", "stored", "putBar", "init", "flushBar", "get", "connect", "lastBar",
                     "started"} : s \in StartState
        /\ ctx[r] + 1 \in Nat \ {0} /\ item[r] + 1 \in Nat /\ 1 \in Nat \ {0} /\ 0 \in Nat
    BY <1>0 DEF StartState
  <2>2. ASSUME NEW s \in StartState, NEW k \in Nat \ {0}, NEW i \in Nat, Goto(r, s, k, i)
        PROVE  /\ start' \in [Rank -> StartState] /\ ctx' \in [Rank -> Nat \ {0}]
               /\ item' \in [Rank -> Nat]
    BY <2>2, GotoFacts
  <2>3. \E s \in StartState, k \in Nat \ {0}, i \in Nat : Goto(r, s, k, i)
    <3>1. CASE init_ctx(r) \/ GetOver(r) \/ put_ctx_addr(r) \/ connect(r)
      BY <1>0, <2>1, <3>1, ZenonT(30) DEF init_ctx, GetOver, put_ctx_addr, connect
    <3>2. CASE EnterBarrier(r)
      BY <1>0, <2>1, <3>2 DEF EnterBarrier, BarrierCall
    <3>3. CASE LeaveBarrier(r)
      BY <1>0, <2>1, <3>3, ZenonT(30) DEF LeaveBarrier, BarrierReturn, GotoNextItem
    <3>4. CASE get_ctx_addr(r)
      BY <1>0, <2>1, <3>4 DEF get_ctx_addr, GotoNextItem
    <3> QED  BY <3>1, <3>2, <3>3, <3>4 DEF StartStep
  <2> QED  BY <2>2, <2>3
<1>2. pmiIn' \in [Rank -> Nat] /\ pmiOut' \in [Rank -> Nat]
  <2>1. CASE EnterBarrier(r)
    BY <1>0, <2>1, PmiFacts DEF EnterBarrier
  <2>2. CASE LeaveBarrier(r)
    BY <1>0, <2>2, PmiFacts, ZenonT(30) DEF LeaveBarrier
  <2> QED  BY <1>0, <2>1, <2>2, StepMoves DEF pmiVars
<1>3. kvs' \in [Rank -> [Item -> Value]]
  <2>1. CASE put_ctx_addr(r)
    <3>1. printed(epAddr[r][This(r)]) \in Value
      BY <2>1, ThisFacts, ItemFacts DEF put_ctx_addr, Value
    <3>2. kvs' = [kvs EXCEPT ![r][This(r)] = printed(epAddr[r][This(r)])]
      BY <2>1 DEF put_ctx_addr
    <3> HIDE DEF printed, This
    <3> QED  BY <1>0, <3>1, <3>2, ZenonT(30)
  <2> QED  BY <1>0, <2>1 DEF StartStep, init_ctx, EnterBarrier, LeaveBarrier, get_ctx_addr, GetOver,
                             connect
<1>4. peer' \in [Rank -> [Item -> Value]]
  <2>1. CASE get_ctx_addr(r)
    <3>1. kvs[target_rank(r)][This(r)] \in Value
      BY <1>0, <2>1, ThisFacts DEF get_ctx_addr
    <3>2. peer' = [peer EXCEPT ![r][This(r)] = kvs[target_rank(r)][This(r)]]
      BY <2>1 DEF get_ctx_addr
    <3> HIDE DEF target_rank, This
    <3> QED  BY <1>0, <3>1, <3>2, ZenonT(30)
  <2> QED  BY <1>0, <2>1 DEF StartStep, init_ctx, EnterBarrier, LeaveBarrier, put_ctx_addr, GetOver,
                             connect
<1>5. dest' \in [Rank -> [Endpoint -> (Value \X Value) \cup {None}]]
  <2>1. CASE connect(r)
    <3> DEFINE own == Links[ctx[r]][1]
               remote == Links[ctx[r]][2]
    <3>1. remote \in Endpoint
      BY <1>0, <2>1 DEF connect, Link, StartAssumption, LinksMutual
    <3>2. dest' = [dest EXCEPT ![r][own] = <<peer[r][<<remote[1], 0>>], peer[r][remote]>>]
      BY <2>1 DEF connect
    <3> HIDE DEF own, remote
    <3>3. remote \in Item /\ <<remote[1], 0>> \in Item
      BY <3>1, EndpointFacts, ItemFacts DEF Endpoint
    <3>4. <<peer[r][<<remote[1], 0>>], peer[r][remote]>> \in (Value \X Value) \cup {None}
      BY <1>0, <3>3
    <3> QED  BY <1>0, <3>2, <3>4, ZenonT(30)
  <2> QED  BY <1>0, <2>1 DEF StartStep, init_ctx, EnterBarrier, LeaveBarrier, put_ctx_addr, GetOver,
                             get_ctx_addr
<1> QED
  BY <1>1, <1>2, <1>3, <1>4, <1>5 DEF TypeOK

LEMMA StepIndices ==
  ASSUME StartAssumption, TypeOK, NEW r \in Rank, Indices(r), StartStep(r)
  PROVE  Indices(r)'
<1>0. /\ ctx[r] \in Nat \ {0} /\ item[r] \in Nat /\ Len(Ctxs) \in Nat /\ Len(Links) \in Nat
      /\ \A k \in 1 .. Len(Ctxs) : EpCount[Ctxs[k]] \in Nat
      /\ pmiIn[r] \in Nat /\ pmiOut[r] \in Nat
  BY IndexFacts
<1>1. CASE Moves(r) /\ UNCHANGED pmiVars
  <2>0. pmiIn' = pmiIn /\ pmiOut' = pmiOut
    BY <1>1 DEF pmiVars
  <2>1. CASE start[r] = "init" /\ ctx[r] <= Len(Ctxs) /\ Jump(r, "put", ctx[r], 0)
    <3>1. 0 <= EpCount[Ctxs[ctx[r]]]
      BY <1>0, <2>1
    <3> QED  BY <2>0, <2>1, <3>1 DEF Jump, Indices, BarrierStates
  <2>2. CASE start[r] = "put" /\ Jump(r, "stored", ctx[r], item[r])
    BY <2>0, <2>2 DEF Jump, Indices, BarrierStates
  <2>3. CASE start[r] = "get" /\ ctx[r] <= Len(Ctxs) /\ NextItem(r, "get", "get")
    <3>1. start'[r] = "get" /\ pmiIn[r] = pmiOut[r]
      BY <2>3 DEF NextItem, Jump, Indices, BarrierStates
    <3>2. \/ ctx'[r] <= Len(Ctxs) /\ item'[r] <= EpCount[Ctxs[ctx'[r]]]
          \/ ctx'[r] = Len(Ctxs) + 1 /\ item'[r] = 0
      <4>1. CASE item[r] < EpCount[Ctxs[ctx[r]]] /\ Jump(r, "get", ctx[r], item[r] + 1)
        <5>1. item[r] + 1 <= EpCount[Ctxs[ctx[r]]]
          BY <1>0, <2>3, <4>1
        <5> QED  BY <2>3, <4>1, <5>1 DEF Jump
      <4>2. CASE Jump(r, "get", ctx[r] + 1, 0)
        <5>1. CASE ctx[r] = Len(Ctxs)
          BY <4>2, <5>1 DEF Jump
        <5>2. CASE ctx[r] + 1 \in 1 .. Len(Ctxs)
          <6>1. EpCount[Ctxs[ctx[r] + 1]] \in Nat
            BY <1>0, <5>2
          <6> QED  BY <4>2, <5>2, <6>1 DEF Jump
        <5> QED  BY <1>0, <2>3, <5>1, <5>2
      <4> QED  BY <2>3, <4>1, <4>2 DEF NextItem
    <3> QED  BY <2>0, <3>1, <3>2 DEF Indices, BarrierStates
  <2>4. CASE start[r] = "get" /\ ctx[r] > Len(Ctxs) /\ Jump(r, "connect", 1, 0)
    BY <1>0, <2>0, <2>4 DEF Jump, Indices, BarrierStates
  <2>5. CASE start[r] = "connect" /\ ctx[r] <= Len(Links) /\ Jump(r, "connect", ctx[r] + 1, 0)
    BY <1>0, <2>0, <2>5 DEF Jump, Indices, BarrierStates
  <2> QED  BY <1>1, <2>1, <2>2, <2>3, <2>4, <2>5 DEF Moves
<1>2. CASE Calls(r) /\ EnterBarrier(r)
  <2>1. pmiIn'[r] = pmiIn[r] + 1 /\ pmiOut'[r] = pmiOut[r]
    BY <1>2, PmiFacts DEF EnterBarrier, TypeOK
  <2> QED  BY <1>0, <1>2, <2>1 DEF Calls, Jump, Indices, BarrierStates
<1>3. CASE Returns(r) /\ LeaveBarrier(r)
  <2>1. pmiIn'[r] = pmiIn[r] /\ pmiOut'[r] = pmiOut[r] + 1
    BY <1>3, PmiFacts DEF LeaveBarrier, TypeOK
  <2>2. CASE start[r] = "putBar" /\ NextItem(r, "put", "init")
    <3>0. ctx[r] <= Len(Ctxs) /\ pmiIn[r] = pmiOut[r] + 1
      BY <2>2 DEF Indices, BarrierStates
    <3>1. CASE item[r] < EpCount[Ctxs[ctx[r]]] /\ Jump(r, "put", ctx[r], item[r] + 1)
      <4>1. item[r] + 1 <= EpCount[Ctxs[ctx[r]]]
        BY <1>0, <3>0, <3>1
      <4> QED  BY <2>1, <3>0, <3>1, <4>1 DEF Jump, Indices, BarrierStates
    <3>2. CASE Jump(r, "init", ctx[r] + 1, 0)
      <4>1. ctx[r] + 1 <= Len(Ctxs) + 1
        BY <1>0, <3>0
      <4> QED  BY <2>1, <3>0, <3>2, <4>1 DEF Jump, Indices, BarrierStates
    <3> QED  BY <2>2, <3>1, <3>2 DEF NextItem
  <2>3. CASE start[r] = "flushBar" /\ Jump(r, "get", 1, 0)
    <3>1. pmiIn[r] = pmiOut[r] + 1
      BY <2>3 DEF Indices, BarrierStates
    <3>2. (1 <= Len(Ctxs) /\ 0 <= EpCount[Ctxs[1]]) \/ 1 = Len(Ctxs) + 1
      BY <1>0
    <3> QED  BY <2>1, <2>3, <3>1, <3>2 DEF Jump, Indices, BarrierStates
  <2>4. CASE start[r] = "lastBar" /\ Jump(r, "started", 1, 0)
    BY <2>1, <2>4 DEF Jump, Indices, BarrierStates
  <2> QED  BY <1>3, <2>2, <2>3, <2>4 DEF Returns
<1> QED
  BY <1>1, <1>2, <1>3, StepMoves

(* A process changes its leg when it returns from a barrier, and only then. *)
LEMMA StepLeg ==
  ASSUME StartAssumption, TypeOK, NEW r \in Rank, Indices(r), StartStep(r)
  PROVE  \/ LeaveBarrier(r) /\ Leg(r)' = NextLeg(Leg(r))
         \/ ~LeaveBarrier(r) /\ Leg(r)' = Leg(r) /\ pmiOut' = pmiOut
<1>0. /\ ctx[r] \in Nat \ {0} /\ item[r] \in Nat /\ Len(Ctxs) \in Nat
      /\ \A k \in 1 .. Len(Ctxs) : EpCount[Ctxs[k]] \in Nat
  BY IndexFacts
<1>1. LeaveBarrier(r) => start[r] \in BarrierStates
  BY DEF LeaveBarrier, BarrierReturn, BarrierStates
<1>2. CASE Moves(r) /\ UNCHANGED pmiVars
  <2>1. start[r] \notin BarrierStates
    BY <1>2 DEF Moves, BarrierStates
  <2>2. Leg(r)' = Leg(r)
    BY <1>0, <1>2 DEF Moves, NextItem, Jump, Leg, PutStates, Indices
  <2> QED  BY <1>1, <1>2, <2>1, <2>2 DEF pmiVars
<1>3. CASE Calls(r) /\ EnterBarrier(r)
  <2>1. start[r] \notin BarrierStates /\ pmiOut' = pmiOut
    BY <1>3, PmiFacts DEF Calls, BarrierStates, EnterBarrier
  <2>2. Leg(r)' = Leg(r)
    <3>1. CASE start[r] = "stored" /\ Jump(r, "putBar", ctx[r], item[r])
      BY <3>1 DEF Jump, Leg, PutStates
    <3>2. CASE start[r] = "init" /\ ctx[r] > Len(Ctxs) /\ Jump(r, "flushBar", 1, 0)
      <4>1. ctx[r] = Len(Ctxs) + 1 /\ item[r] = 0
        BY <1>0, <3>2 DEF Indices
      <4> QED  BY <3>2, <4>1 DEF Jump, Leg, PutStates
    <3>3. CASE start[r] = "connect" /\ Jump(r, "lastBar", 1, 0)
      BY <3>3 DEF Jump, Leg, PutStates
    <3> QED  BY <1>3, <3>1, <3>2, <3>3 DEF Calls
  <2> QED  BY <1>1, <2>1, <2>2
<1>4. CASE Returns(r) /\ LeaveBarrier(r)
  <2>1. CASE start[r] = "putBar" /\ NextItem(r, "put", "init")
    <3>1. Leg(r) = <<ctx[r], item[r]>> /\ ctx[r] <= Len(Ctxs)
      BY <2>1 DEF Leg, PutStates, Indices
    <3>2. CASE item[r] < EpCount[Ctxs[ctx[r]]] /\ Jump(r, "put", ctx[r], item[r] + 1)
      <4>1. Leg(r)' = <<ctx[r], item[r] + 1>>
        BY <3>2 DEF Jump, Leg, PutStates
      <4> QED  BY <1>4, <3>1, <3>2, <4>1 DEF NextLeg
    <3>3. CASE ~(item[r] < EpCount[Ctxs[ctx[r]]]) /\ Jump(r, "init", ctx[r] + 1, 0)
      <4>1. Leg(r)' = <<ctx[r] + 1, 0>>
        BY <3>3 DEF Jump, Leg, PutStates
      <4> QED  BY <1>4, <3>1, <3>3, <4>1 DEF NextLeg
    <3> QED  BY <2>1, <3>2, <3>3 DEF NextItem
  <2>2. CASE start[r] = "flushBar" /\ Jump(r, "get", 1, 0)
    <3>1. Leg(r) = <<Len(Ctxs) + 1, 0>> /\ Leg(r)' = <<Len(Ctxs) + 2, 0>>
      BY <2>2 DEF Jump, Leg, PutStates
    <3>2. NextLeg(<<Len(Ctxs) + 1, 0>>) = <<Len(Ctxs) + 2, 0>>
      BY <1>0 DEF NextLeg
    <3> QED  BY <1>4, <3>1, <3>2
  <2>3. CASE start[r] = "lastBar" /\ Jump(r, "started", 1, 0)
    <3>1. Leg(r) = <<Len(Ctxs) + 2, 0>> /\ Leg(r)' = <<Len(Ctxs) + 3, 0>>
      BY <2>3 DEF Jump, Leg, PutStates
    <3>2. NextLeg(<<Len(Ctxs) + 2, 0>>) = <<Len(Ctxs) + 3, 0>>
      BY <1>0 DEF NextLeg
    <3> QED  BY <1>4, <3>1, <3>2
  <2> QED  BY <1>4, <2>1, <2>2, <2>3 DEF Returns
<1> QED
  BY <1>2, <1>3, <1>4, StepMoves

-----------------------------------------------------------------------------
(* The barriers keep the processes in step. *)
LEMMA StepLockstep ==
  ASSUME StartAssumption, StartInv, NEW r \in Rank, StartStep(r)
  PROVE  Pmi!Separated' /\ Lockstep'
<1>0. /\ TypeOK /\ Frame(r) /\ Indices(r)
      /\ pmiIn \in [Rank -> Nat] /\ pmiOut \in [Rank -> Nat]
      /\ \A p, q \in Rank : pmiOut[p] <= pmiIn[q]
      /\ \A q \in Rank : pmiIn[q] <= pmiOut[q] + 1
  <2>1. TypeOK /\ Frame(r) /\ \A q \in Rank : Indices(q)
    BY StepFrame DEF StartInv
  <2>2. pmiIn \in [Rank -> Nat] /\ pmiOut \in [Rank -> Nat]
    BY <2>1 DEF TypeOK
  <2>3. \A p, q \in Rank : pmiOut[p] <= pmiIn[q]
    BY PmiFacts DEF StartInv
  <2>4. \A q \in Rank : pmiIn[q] <= pmiOut[q] + 1
    BY <2>1, <2>2 DEF Indices
  <2> QED  BY <2>1, <2>2, <2>3, <2>4
<1>1. \A q \in Rank : q # r => Leg(q)' = Leg(q) /\ pmiOut'[q] = pmiOut[q]
  BY <1>0, OthersKeep DEF Frame
<1>2. CASE LeaveBarrier(r)
  <2>1. /\ pmiIn[r] = pmiOut[r] + 1 /\ \A q \in Rank : pmiIn[q] >= pmiIn[r]
        /\ pmiOut' = [pmiOut EXCEPT ![r] = @ + 1] /\ pmiIn' = pmiIn
    BY <1>2, PmiFacts DEF LeaveBarrier
  <2>2. Leg(r)' = NextLeg(Leg(r)) /\ pmiOut'[r] = pmiOut[r] + 1
    BY <1>0, <1>2, <2>1, StepLeg
  <2>3. \A p, q \in Rank : pmiOut'[p] <= pmiIn'[q]
    BY <1>0, <2>1
  <2>4. ASSUME NEW q \in Rank, q # r
        PROVE  /\ pmiOut'[r] = pmiOut'[q] => Leg(r)' = Leg(q)'
               /\ pmiOut'[r] = pmiOut'[q] + 1 => Leg(r)' = NextLeg(Leg(q)')
               /\ pmiOut'[q] # pmiOut'[r] + 1
    <3>1. /\ pmiOut[q] = pmiOut[r] + 1 => Leg(q) = NextLeg(Leg(r))
          /\ pmiOut[r] = pmiOut[q] => Leg(r) = Leg(q)
      BY DEF StartInv, Lockstep
    <3>2. pmiOut[q] <= pmiOut[r] + 1 /\ pmiOut[q] \in Nat /\ pmiOut[r] \in Nat
      BY <1>0, <2>1
    <3> QED  BY <1>1, <2>2, <2>4, <3>1, <3>2
  <2>5. ASSUME NEW p \in Rank, NEW q \in Rank
        PROVE  /\ pmiOut'[p] = pmiOut'[q] => Leg(p)' = Leg(q)'
               /\ pmiOut'[p] = pmiOut'[q] + 1 => Leg(p)' = NextLeg(Leg(q)')
    <3>1. CASE p # r /\ q # r
      BY <1>1, <3>1 DEF StartInv, Lockstep
    <3>2. CASE p = r /\ q # r
      BY <2>4, <3>2
    <3>3. CASE p # r /\ q = r
      BY <2>4, <3>3
    <3>4. CASE p = r /\ q = r
      <4>1. pmiOut'[r] \in Nat
        BY <1>0, <2>2
      <4> QED  BY <3>4, <4>1
    <3> QED  BY <3>1, <3>2, <3>3, <3>4
  <2>6. Pmi!Separated'
    BY <2>3 DEF Pmi!Separated
  <2>7. Lockstep'
    BY <2>5 DEF Lockstep, NextLeg
  <2> QED  BY <2>6, <2>7
<1>3. CASE ~LeaveBarrier(r)
  <2>1. Leg(r)' = Leg(r) /\ pmiOut' = pmiOut
    BY <1>0, <1>3, StepLeg
  <2>2. \A q \in Rank : pmiIn'[q] >= pmiIn[q]
    <3>1. CASE EnterBarrier(r)
      BY <1>0, <3>1, PmiFacts DEF EnterBarrier
    <3>2. CASE UNCHANGED pmiVars
      BY <1>0, <3>2 DEF pmiVars
    <3> QED  BY <1>0, <1>3, <3>1, <3>2, StepMoves
  <2>3. \A p, q \in Rank : pmiOut'[p] <= pmiIn'[q]
    <3>1. pmiIn' \in [Rank -> Nat]
      BY <1>0, StepType DEF TypeOK
    <3> QED  BY <1>0, <2>1, <2>2, <3>1
  <2>4. \A q \in Rank : Leg(q)' = Leg(q)
    BY <1>1, <2>1
  <2>5. Lockstep'
    BY <2>1, <2>4 DEF StartInv, Lockstep, NextLeg
  <2> QED  BY <2>3, <2>5 DEF Pmi!Separated
<1> QED
  BY <1>2, <1>3

(* Whoever reads is past the flush: everybody has put all its items. *)
LEMMA AllStored ==
  ASSUME StartAssumption, StartInv, NEW r \in Rank, start[r] = "get", NEW q \in Rank
  PROVE  start[q] \notin PutStates
<1> SUFFICES ASSUME start[q] \in PutStates PROVE FALSE
  OBVIOUS
<1>0. /\ Len(Ctxs) \in Nat /\ ctx[q] \in Nat \ {0} /\ item[q] \in Nat
      /\ pmiOut[r] \in Nat /\ pmiOut[q] \in Nat
      /\ \A k \in 1 .. Len(Ctxs) : EpCount[Ctxs[k]] \in Nat
  BY IndexFacts DEF StartInv
<1>1. /\ pmiOut[q] <= pmiIn[r] /\ pmiOut[r] <= pmiIn[q] /\ Indices(r) /\ Indices(q)
      /\ pmiOut[r] = pmiOut[q] => Leg(r) = Leg(q)
      /\ pmiOut[r] = pmiOut[q] + 1 => Leg(r) = NextLeg(Leg(q))
  BY PmiFacts DEF StartInv, Lockstep
<1>2. /\ Leg(r) = <<Len(Ctxs) + 2, 0>> /\ Leg(q) = <<ctx[q], item[q]>>
      /\ pmiIn[r] = pmiOut[r]
  BY <1>1, ZenonT(30) DEF Leg, PutStates, Indices, BarrierStates
<1>3. ctx[q] <= Len(Ctxs) + 1 /\ (start[q] = "putBar" => ctx[q] <= Len(Ctxs))
  BY <1>0, <1>1, SMTT(30) DEF Indices, PutStates
<1>4. CASE pmiOut[r] = pmiOut[q]
  BY <1>0, <1>1, <1>2, <1>3, <1>4
<1>5. CASE pmiOut[r] # pmiOut[q]
  <2>1. start[q] = "putBar" /\ pmiOut[r] = pmiOut[q] + 1
    BY <1>0, <1>1, <1>2, <1>5 DEF Indices, PutStates, BarrierStates
  <2>2. Leg(r) = NextLeg(<<ctx[q], item[q]>>)
    BY <1>1, <1>2, <2>1
  <2>3. NextLeg(<<ctx[q], item[q]>>)[1] <= ctx[q] + 1
    BY <1>0 DEF NextLeg
  <2>4. Leg(r)[1] = Len(Ctxs) + 2
    BY <1>2
  <2> QED  BY <1>0, <1>3, <2>1, <2>2, <2>3, <2>4
<1> QED
  BY <1>4, <1>5

(* Whoever has started is past the barrier after the connects: everybody   *)
(* has connected its endpoints.                                            *)
LEMMA AllConnected ==
  ASSUME StartAssumption, StartInv, NEW r \in Rank, start[r] = "started", NEW q \in Rank
  PROVE  start[q] \in {"lastBar", "started"}
<1>0. /\ Len(Ctxs) \in Nat /\ ctx[q] \in Nat \ {0} /\ item[q] \in Nat
      /\ pmiOut[r] \in Nat /\ pmiOut[q] \in Nat
      /\ start[q] \in PutStates \cup {"flushBar", "get", "connect", "lastBar", "started"}
      /\ \A k \in 1 .. Len(Ctxs) : EpCount[Ctxs[k]] \in Nat
  BY IndexFacts DEF StartInv, StartState, PutStates
<1>1. /\ pmiOut[q] <= pmiIn[r] /\ pmiOut[r] <= pmiIn[q] /\ Indices(r) /\ Indices(q)
      /\ pmiOut[r] = pmiOut[q] => Leg(r) = Leg(q)
      /\ pmiOut[r] = pmiOut[q] + 1 => Leg(r) = NextLeg(Leg(q))
  BY PmiFacts DEF StartInv, Lockstep
<1>2. Leg(r) = <<Len(Ctxs) + 3, 0>> /\ Leg(r)[1] = Len(Ctxs) + 3 /\ pmiIn[r] = pmiOut[r]
  BY <1>1 DEF Leg, PutStates, Indices, BarrierStates
<1>3. ASSUME start[q] \notin {"lastBar", "started"}
      PROVE  /\ Leg(q)[1] \in Nat /\ Leg(q)[1] <= Len(Ctxs) + 2
             /\ start[q] \in BarrierStates => Leg(q)[1] <= Len(Ctxs) + 1
  BY <1>0, <1>1, <1>3, SMTT(30) DEF Leg, Indices, PutStates, BarrierStates
<1>4. CASE pmiOut[r] = pmiOut[q]
  BY <1>0, <1>1, <1>2, <1>3, <1>4
<1>5. CASE pmiOut[r] # pmiOut[q]
  <2>1. start[q] \in BarrierStates /\ pmiOut[r] = pmiOut[q] + 1
    BY <1>0, <1>1, <1>2, <1>5 DEF Indices
  <2>2. \A l : l[1] \in Nat => NextLeg(l)[1] <= l[1] + 1
    BY <1>0 DEF NextLeg
  <2> QED  BY <1>0, <1>1, <1>2, <1>3, <2>1, <2>2
<1> QED
  BY <1>4, <1>5

-----------------------------------------------------------------------------
(* What is stored, read and connected: a step adds at most the item or the *)
(* link that the loop of main is at.                                       *)
LEMMA PastMoves ==
  ASSUME NEW r \in Rank, ctx[r] \in Nat, item[r] \in Nat, NEW k \in Nat, NEW n \in Nat,
         EpCount[Ctxs[k]] \in Nat, n <= EpCount[Ctxs[k]],
         NEW within, NEW beyond, NextItem(r, within, beyond), Past(r, k, n)'
  PROVE  Past(r, k, n) \/ (k = ctx[r] /\ n = item[r])
<1>1. CASE ctx'[r] = ctx[r] /\ item'[r] = item[r] + 1
  BY <1>1 DEF Past
<1>2. CASE ~(item[r] < EpCount[Ctxs[ctx[r]]]) /\ ctx'[r] = ctx[r] + 1 /\ item'[r] = 0
  BY <1>2 DEF Past
<1> QED  BY <1>1, <1>2 DEF NextItem, Jump

LEMMA StoredMoves ==
  ASSUME StartAssumption, TypeOK, NEW r \in Rank, StartStep(r),
         NEW k \in 1 .. Len(Ctxs), NEW n \in 0 .. EpCount[Ctxs[k]], Stored(r, k, n)'
  PROVE  Stored(r, k, n) \/ (start[r] = "put" /\ k = ctx[r] /\ n = item[r])
<1>0. ctx[r] \in Nat /\ item[r] \in Nat /\ EpCount[Ctxs[k]] \in Nat /\ k \in Nat /\ n \in Nat
      /\ k <= Len(Ctxs) /\ n <= EpCount[Ctxs[k]] /\ Len(Ctxs) \in Nat
  BY IndexFacts
<1>1. start[r] \notin PutStates => Stored(r, k, n)
  BY DEF Stored
<1>2. CASE start[r] = "init" /\ Jump(r, "put", ctx[r], 0)
  BY <1>0, <1>2 DEF Jump, Stored, Past, PutStates
<1>3. CASE start[r] = "put" /\ Jump(r, "stored", ctx[r], item[r])
  BY <1>3 DEF Jump, Stored, Past, PutStates
<1>4. CASE start[r] = "stored" /\ Jump(r, "putBar", ctx[r], item[r])
  BY <1>4 DEF Jump, Stored, Past, PutStates
<1>5. CASE start[r] = "init" /\ ctx[r] > Len(Ctxs)
  BY <1>0, <1>5 DEF Stored, Past
<1>6. CASE start[r] = "putBar" /\ NextItem(r, "put", "init")
  <2>1. Past(r, k, n) \/ (k = ctx[r] /\ n = item[r])
    <3>1. Past(r, k, n)'
      BY <1>6 DEF NextItem, Jump, Stored, PutStates
    <3> QED  BY <1>0, <1>6, <3>1, PastMoves
  <2> QED  BY <1>6, <2>1 DEF Stored
<1>7. \/ start[r] \notin PutStates
      \/ start[r] = "init" /\ Jump(r, "put", ctx[r], 0)
      \/ start[r] = "put" /\ Jump(r, "stored", ctx[r], item[r])
      \/ start[r] = "stored" /\ Jump(r, "putBar", ctx[r], item[r])
      \/ start[r] = "init" /\ ctx[r] > Len(Ctxs)
      \/ start[r] = "putBar" /\ NextItem(r, "put", "init")
  BY StepMoves DEF Moves, Calls, Returns, PutStates
<1> QED
  BY <1>1, <1>2, <1>3, <1>4, <1>5, <1>6, <1>7

LEMMA FetchedMoves ==
  ASSUME StartAssumption, TypeOK, NEW r \in Rank, StartStep(r),
         NEW k \in 1 .. Len(Ctxs), NEW n \in 0 .. EpCount[Ctxs[k]], Fetched(r, k, n)'
  PROVE  Fetched(r, k, n) \/ (start[r] = "get" /\ ctx[r] <= Len(Ctxs) /\ k = ctx[r] /\ n = item[r])
<1>0. ctx[r] \in Nat /\ item[r] \in Nat /\ EpCount[Ctxs[k]] \in Nat /\ k \in Nat /\ n \in Nat
      /\ 1 <= k /\ k <= Len(Ctxs) /\ n <= EpCount[Ctxs[k]] /\ Len(Ctxs) \in Nat
  BY IndexFacts
<1>1. start[r] \in {"connect", "lastBar", "started"} => Fetched(r, k, n)
  BY DEF Fetched
<1>2. start'[r] \notin {"init", "put", "stored", "putBar", "flushBar"}
  BY DEF Fetched
<1>3. CASE start[r] = "get" /\ ctx[r] > Len(Ctxs)
  BY <1>0, <1>3 DEF Fetched, Past
<1>4. CASE start[r] = "flushBar" /\ Jump(r, "get", 1, 0)
  BY <1>0, <1>4 DEF Jump, Fetched, Past
<1>5. CASE start[r] = "get" /\ ctx[r] <= Len(Ctxs) /\ NextItem(r, "get", "get")
  <2>1. Past(r, k, n) \/ (k = ctx[r] /\ n = item[r])
    <3>1. Past(r, k, n)'
      BY <1>5 DEF NextItem, Jump, Fetched
    <3> QED  BY <1>0, <1>5, <3>1, PastMoves
  <2> QED  BY <1>5, <2>1 DEF Fetched
<1>6. \/ start[r] \in {"connect", "lastBar", "started"}
      \/ start'[r] \in {"init", "put", "stored", "putBar", "flushBar"}
      \/ start[r] = "get" /\ ctx[r] > Len(Ctxs)
      \/ start[r] = "flushBar" /\ Jump(r, "get", 1, 0)
      \/ start[r] = "get" /\ ctx[r] <= Len(Ctxs) /\ NextItem(r, "get", "get")
  BY StepMoves, ZenonT(30) DEF Moves, Calls, Returns, NextItem, Jump
<1> QED
  BY <1>1, <1>2, <1>3, <1>4, <1>5, <1>6

LEMMA ConnectedMoves ==
  ASSUME StartAssumption, TypeOK, NEW r \in Rank, StartStep(r), NEW m \in Link, Connected(r, m)'
  PROVE  Connected(r, m) \/ (start[r] = "connect" /\ ctx[r] <= Len(Links) /\ m = ctx[r])
<1>0. ctx[r] \in Nat /\ Len(Links) \in Nat /\ m \in Nat /\ 1 <= m /\ m <= Len(Links)
  BY IndexFacts DEF Link
<1>1. start'[r] \in {"connect", "lastBar", "started"}
  BY DEF Connected
<1>2. CASE start[r] = "lastBar"
  BY <1>2 DEF Connected
<1>3. CASE start[r] = "connect" /\ ctx[r] > Len(Links)
  BY <1>0, <1>3 DEF Connected
<1>4. CASE start[r] = "connect" /\ ctx[r] <= Len(Links) /\ Jump(r, "connect", ctx[r] + 1, 0)
  BY <1>0, <1>4 DEF Jump, Connected
<1>5. CASE Jump(r, "connect", 1, 0)
  BY <1>0, <1>5 DEF Jump, Connected
<1>6. \/ start[r] = "lastBar"
      \/ start[r] = "connect" /\ ctx[r] > Len(Links)
      \/ start[r] = "connect" /\ ctx[r] <= Len(Links) /\ Jump(r, "connect", ctx[r] + 1, 0)
      \/ Jump(r, "connect", 1, 0)
  BY <1>1, StepMoves DEF Moves, Calls, Returns, NextItem, Jump
<1> QED
  BY <1>2, <1>3, <1>4, <1>5, <1>6

(* What is added is what it should be. *)
LEMMA StepStored ==
  ASSUME StartAssumption, StartInv, NEW r \in Rank, StartStep(r),
         NEW k \in 1 .. Len(Ctxs), NEW n \in 0 .. EpCount[Ctxs[k]], Stored(r, k, n)'
  PROVE  kvs'[r][<<Ctxs[k], n>>] = epAddr[r][<<Ctxs[k], n>>]
<1> DEFINE i == <<Ctxs[k], n>>
<1>0. /\ TypeOK /\ Indices(r) /\ i \in Item
      /\ Stored(r, k, n) => kvs[r][i] = epAddr[r][i]
  <2>1. TypeOK /\ Indices(r) /\ Addresses(r)
    BY DEF StartInv
  <2>2. n \in Nat /\ n <= EpCount[Ctxs[k]]
    <3>1. EpCount[Ctxs[k]] \in Nat
      BY ItemFacts, Zenon
    <3> QED  BY <3>1
  <2> QED  BY <2>1, <2>2, ItemFacts, ZenonT(30) DEF Addresses
<1>1. Stored(r, k, n) \/ (start[r] = "put" /\ i = This(r))
  BY <1>0, StoredMoves DEF This
<1> HIDE DEF i
<1>2. CASE put_ctx_addr(r)
  <2>1. This(r) \in Item
    BY <1>0, <1>2, ThisFacts DEF put_ctx_addr
  <2>2. kvs' = [kvs EXCEPT ![r][This(r)] = printed(epAddr[r][This(r)])]
    BY <1>2 DEF put_ctx_addr
  <2>3. kvs \in [Rank -> [Item -> Value]]
    BY <1>0 DEF TypeOK
  <2>4. printed(epAddr[r][This(r)]) = epAddr[r][This(r)]
    BY <2>1, ItemFacts
  <2>5. kvs'[r][i] = IF i = This(r) THEN epAddr[r][This(r)] ELSE kvs[r][i]
    BY <1>0, <2>1, <2>2, <2>3, <2>4, Zenon
  <2> QED  BY <1>0, <1>1, <2>5 DEF i
<1>3. CASE ~put_ctx_addr(r)
  <2>1. kvs' = kvs /\ start[r] # "put"
    BY <1>3 DEF StartStep, init_ctx, EnterBarrier, BarrierCall, LeaveBarrier, BarrierReturn,
                get_ctx_addr, GetOver, connect
  <2> QED  BY <1>0, <1>1, <2>1 DEF i
<1> QED
  BY <1>2, <1>3, ZenonT(30) DEF i

LEMMA StepFetched ==
  ASSUME StartAssumption, StartInv, NEW r \in Rank, StartStep(r),
         NEW k \in 1 .. Len(Ctxs), NEW n \in 0 .. EpCount[Ctxs[k]], Fetched(r, k, n)'
  PROVE  peer'[r][<<Ctxs[k], n>>] = epAddr[target_rank(r)][<<Ctxs[k], n>>]
<1> DEFINE i == <<Ctxs[k], n>>
           t == target_rank(r)
<1>0. /\ TypeOK /\ Indices(r) /\ i \in Item /\ t \in Rank
      /\ Fetched(r, k, n) => peer[r][i] = epAddr[t][i]
      /\ Stored(t, k, n) => kvs[t][i] = epAddr[t][i]
  <2>1. t \in Rank
    BY TargetFacts
  <2> HIDE DEF t
  <2>2. TypeOK /\ Indices(r) /\ Addresses(r) /\ Addresses(t)
    BY <2>1 DEF StartInv
  <2>3. n \in Nat /\ n <= EpCount[Ctxs[k]]
    <3>1. EpCount[Ctxs[k]] \in Nat
      BY ItemFacts, Zenon
    <3> QED  BY <3>1
  <2>4. i \in Item
    BY <2>3, ItemFacts, ZenonT(30)
  <2>5. Fetched(r, k, n) => peer[r][i] = epAddr[t][i]
    BY <2>2, ZenonT(30) DEF Addresses, t
  <2>6. Stored(t, k, n) => kvs[t][i] = epAddr[t][i]
    BY <2>2, ZenonT(30) DEF Addresses
  <2> QED  BY <2>1, <2>2, <2>4, <2>5, <2>6
<1>1. Fetched(r, k, n) \/ (start[r] = "get" /\ ctx[r] <= Len(Ctxs) /\ i = This(r))
  BY <1>0, FetchedMoves, ZenonT(30) DEF This
<1> HIDE DEF i, t
<1>2. CASE get_ctx_addr(r)
  <2>1. start[r] = "get" /\ This(r) \in Item
    BY <1>0, <1>2, ThisFacts DEF get_ctx_addr
  <2>2. peer' = [peer EXCEPT ![r][This(r)] = kvs[t][This(r)]]
    BY <1>2 DEF get_ctx_addr, t
  <2>3. peer \in [Rank -> [Item -> Value]]
    BY <1>0 DEF TypeOK
  <2>4. Stored(t, k, n)
    BY <1>0, <2>1, AllStored DEF Stored
  <2>5. peer'[r][i] = IF i = This(r) THEN kvs[t][i] ELSE peer[r][i]
    BY <1>0, <2>1, <2>2, <2>3, Zenon
  <2> QED  BY <1>0, <1>1, <2>4, <2>5 DEF i, t
<1>3. CASE ~get_ctx_addr(r)
  <2>1. peer' = peer /\ ~(start[r] = "get" /\ ctx[r] <= Len(Ctxs))
    <3>1. ctx[r] \in Nat /\ Len(Ctxs) \in Nat
      BY <1>0, IndexFacts
    <3> QED  BY <1>3, <3>1 DEF StartStep, init_ctx, put_ctx_addr, EnterBarrier, BarrierCall,
                               LeaveBarrier, BarrierReturn, GetOver, connect
  <2> QED  BY <1>0, <1>1, <2>1 DEF i, t
<1> QED
  BY <1>2, <1>3, Zenon DEF i, t

LEMMA StepConnected ==
  ASSUME StartAssumption, StartInv, NEW r \in Rank, StartStep(r), NEW m \in Link, Connected(r, m)'
  PROVE  dest'[r][Links[m][1]] = Address(target_rank(r), Links[m][2])
<1> DEFINE t == target_rank(r)
<1>0. TypeOK /\ Addresses(r) /\ (Connected(r, m) => dest[r][Links[m][1]] = Address(t, Links[m][2]))
  BY ZenonT(30) DEF StartInv, Addresses
<1>1. Connected(r, m) \/ (start[r] = "connect" /\ ctx[r] <= Len(Links) /\ m = ctx[r])
  BY <1>0, ConnectedMoves
<1>2. Links[m][1] \in Endpoint /\ Links[m][2] \in Endpoint
  BY DEF StartAssumption, LinksMutual
<1>3. CASE connect(r)
  <2>1. start[r] = "connect" /\ ctx[r] \in Link
    BY <1>0, <1>3, IndexFacts DEF connect, Link
  <2>2. Links[ctx[r]][1] \in Endpoint /\ (Links[m][1] = Links[ctx[r]][1] => m = ctx[r])
    BY <2>1 DEF StartAssumption, LinksMutual
  <2>3. dest' = [dest EXCEPT ![r][Links[ctx[r]][1]]
                   = <<peer[r][<<Links[ctx[r]][2][1], 0>>], peer[r][Links[ctx[r]][2]]>>]
    BY <1>3 DEF connect
  <2>4. dest \in [Rank -> [Endpoint -> (Value \X Value) \cup {None}]]
    BY <1>0 DEF TypeOK
  <2>5. CASE m = ctx[r]
    <3>1. <<peer[r][<<Links[m][2][1], 0>>], peer[r][Links[m][2]]>> = Address(t, Links[m][2])
      <4>1. PICK k \in 1 .. Len(Ctxs) : \E n \in 0 .. EpCount[Ctxs[k]] :
              Links[m][2] = <<Ctxs[k], n>> /\ Links[m][2][1] = Ctxs[k] /\ 0 \in 0 .. EpCount[Ctxs[k]]
        BY <1>2, EndpointFacts, Zenon
      <4>2. PICK n \in 0 .. EpCount[Ctxs[k]] :
              Links[m][2] = <<Ctxs[k], n>> /\ Links[m][2][1] = Ctxs[k] /\ 0 \in 0 .. EpCount[Ctxs[k]]
        BY <4>1, Zenon
      <4>3. Fetched(r, k, n) /\ Fetched(r, k, 0)
        BY <2>1 DEF Fetched
      <4>4. /\ peer[r][<<Ctxs[k], n>>] = epAddr[t][<<Ctxs[k], n>>]
            /\ peer[r][<<Ctxs[k], 0>>] = epAddr[t][<<Ctxs[k], 0>>]
        BY <1>0, <4>2, <4>3, Zenon DEF Addresses
      <4> QED  BY <4>2, <4>4, Zenon DEF Address
    <3>2. dest'[r][Links[m][1]] = <<peer[r][<<Links[m][2][1], 0>>], peer[r][Links[m][2]]>>
      BY <1>2, <2>3, <2>4, <2>5, Zenon
    <3> QED  BY <3>1, <3>2
  <2>6. CASE m # ctx[r]
    <3>1. dest'[r][Links[m][1]] = dest[r][Links[m][1]]
      BY <1>2, <2>2, <2>3, <2>4, <2>6, Zenon
    <3> QED  BY <1>0, <1>1, <2>6, <3>1
  <2> QED  BY <2>5, <2>6
<1>4. CASE ~connect(r)
  <2>1. dest' = dest /\ ~(start[r] = "connect" /\ ctx[r] <= Len(Links))
    <3>1. ctx[r] \in Nat /\ Len(Links) \in Nat
      BY <1>0, IndexFacts
    <3> QED  BY <1>4, <3>1 DEF StartStep, init_ctx, put_ctx_addr, EnterBarrier, BarrierCall,
                               LeaveBarrier, BarrierReturn, get_ctx_addr, GetOver
  <2> QED  BY <1>0, <1>1, <2>1
<1> QED
  BY <1>3, <1>4, Zenon

LEMMA StepAddresses ==
  ASSUME StartAssumption, StartInv, NEW r \in Rank, StartStep(r)
  PROVE  Addresses(r)'
BY StepStored, StepFetched, StepConnected, Zenon DEF Addresses, Address, target_rank

LEMMA StepStartInv ==
  ASSUME StartAssumption, StartInv, NEW r \in Rank, StartStep(r)
  PROVE  StartInv'
<1>1. TypeOK /\ Indices(r) /\ Frame(r)
  BY StepFrame DEF StartInv
<1>2. TypeOK' /\ Indices(r)' /\ Addresses(r)' /\ Pmi!Separated' /\ Lockstep'
  BY <1>1, StepType, StepIndices, StepAddresses, StepLockstep
<1>3. ASSUME NEW q \in Rank PROVE Indices(q)' /\ Addresses(q)'
  BY <1>1, <1>2, OthersKeep DEF StartInv
<1> QED
  BY <1>2, <1>3 DEF StartInv

LEMMA NextStartInv == StartAssumption /\ StartInv /\ [Next]_startVars => StartInv'
<1> SUFFICES ASSUME StartAssumption, StartInv, [Next]_startVars PROVE StartInv'
  OBVIOUS
<1>1. CASE UNCHANGED startVars
  <2>1. UNCHANGED <<start, ctx, item, kvs, peer, dest, pmiIn, pmiOut>>
    BY <1>1 DEF startVars, pmiVars
  <2>2. TypeOK' /\ Pmi!Separated'
    BY <2>1 DEF StartInv, TypeOK, Pmi!Separated
  <2>3. Lockstep'
    <3>1. \A r \in Rank : Leg(r)' = Leg(r)
      BY <2>1 DEF Leg
    <3>2. ASSUME NEW r \in Rank, NEW q \in Rank
          PROVE  /\ pmiOut'[r] = pmiOut'[q] => Leg(r)' = Leg(q)'
                 /\ pmiOut'[r] = pmiOut'[q] + 1 => Leg(r)' = NextLeg(Leg(q)')
      BY <2>1, <3>1 DEF StartInv, Lockstep
    <3> QED  BY <3>2, ZenonT(30) DEF Lockstep, NextLeg
  <2>4. ASSUME NEW r \in Rank PROVE Indices(r)' /\ Addresses(r)'
    <3>1. Indices(r) /\ Addresses(r)
      BY DEF StartInv
    <3>2. Indices(r)'
      BY <2>1, <3>1, ZenonT(30) DEF Indices
    <3>3. Addresses(r)'
      BY <2>1, <3>1, ZenonT(30) DEF Addresses, Stored, Fetched, Connected, Past, Address, target_rank
    <3> QED  BY <3>2, <3>3
  <2> QED  BY <2>2, <2>3, <2>4 DEF StartInv
<1> QED
  BY <1>1, StepStartInv DEF Next

-----------------------------------------------------------------------------
(* In the end every endpoint is connected to the endpoint its link names. *)
LEMMA InvLinked ==
  ASSUME StartAssumption, StartInv, NEW r \in Rank, start[r] = "started",
         NEW q \in Rank, NEW m \in Link
  PROVE  dest[q][Links[m][1]] = Address(target_rank(q), Links[m][2])
<1>1. start[q] \in {"lastBar", "started"}
  BY AllConnected
<1>2. Addresses(q) /\ Connected(q, m)
  BY <1>1 DEF StartInv, Connected
<1> QED  BY <1>2, ZenonT(30) DEF Addresses

LEMMA InvWired == StartAssumption /\ StartInv => Wired
<1> SUFFICES ASSUME StartAssumption, StartInv, NEW r \in Rank, start[r] = "started",
                    NEW e \in Endpoint
             PROVE  \E f \in Endpoint :
                      /\ dest[r][e] = Address(target_rank(r), f)
                      /\ dest[target_rank(r)][f] = Address(r, e)
  BY DEF Wired
<1>1. PICK m \in Link : Links[m][1] = e
  BY DEF StartAssumption, LinksMutual
<1>2. PICK n \in Link : Links[n][1] = Links[m][2] /\ Links[n][2] = e
  BY <1>1 DEF StartAssumption, LinksMutual
<1>3. Links[m][2] \in Endpoint /\ target_rank(r) \in Rank /\ target_rank(target_rank(r)) = r
  BY TargetFacts DEF StartAssumption, LinksMutual
<1>4. dest[r][e] = Address(target_rank(r), Links[m][2])
  BY <1>1, InvLinked
<1>5. dest[target_rank(r)][Links[m][2]] = Address(r, e)
  BY <1>2, <1>3, InvLinked
<1> QED
  BY <1>3, <1>4, <1>5

(* Every endpoint of a process that has passed the barrier after the       *)
(* connects is connected to an endpoint of the partner that is connected   *)
(* back to it: main of the UCX benchmarks, for all contexts and connects   *)
(* that StartAssumption allows.                                            *)
THEOREM Connects == StartAssumption => (Spec => []Wired)
<1> SUFFICES ASSUME StartAssumption PROVE Spec => []Wired
  OBVIOUS
<1>1. Init => StartInv
  BY InitStartInv
<1>2. StartInv /\ [Next]_startVars => StartInv'
  BY NextStartInv
<1>3. StartInv => Wired
  BY InvWired
<1> QED
  BY <1>1, <1>2, <1>3, PTL DEF Spec
-----------------------------------------------------------------------------
(* The connects of pingpong_prg_ucx meet the assumption, whatever the      *)
(* numbers of workers and progress threads: a worker t is the q-th of      *)
(* progress thread id when t = id + rx * q, and the second loop of main    *)
(* comes to it in its step W * id + q, with W workers per progress thread. *)

LEMMA SmallMultiple ==
  ASSUME NEW R \in Nat, NEW m \in Int, -R < R * m, R * m < R
  PROVE  m = 0
<1>1. ASSUME m >= 1 PROVE FALSE
  <2>1. PICK k \in Nat : m = k + 1
    BY <1>1
  <2> QED  BY <2>1
<1>2. ASSUME m <= -1 PROVE FALSE
  <2>1. PICK k \in Nat : m = -1 - k
    BY <1>2
  <2> QED  BY <2>1
<1> QED
  BY <1>1, <1>2

(* Division with remainder. *)
LEMMA QuotientBound ==
  ASSUME NEW R \in Nat \ {0}, NEW N \in Nat, NEW a \in 0 .. R * N - 1,
         NEW q \in Int, NEW s \in 0 .. R - 1, a = R * q + s
  PROVE  q \in 0 .. N - 1
<1>1. q >= 0
  <2> SUFFICES ASSUME q <= -1 PROVE FALSE
    OBVIOUS
  <2>1. PICK k \in Nat : q = -1 - k
    OBVIOUS
  <2> QED  BY <2>1
<1>2. q < N
  <2> SUFFICES ASSUME q >= N PROVE FALSE
    OBVIOUS
  <2>1. PICK k \in Nat : q = N + k
    OBVIOUS
  <2>2. R * q = R * N + R * k /\ R * k >= 0
    BY <2>1
  <2> QED  BY <2>2
<1> QED
  BY <1>1, <1>2

LEMMA Divided ==
  ASSUME NEW R \in Nat \ {0}, NEW N \in Nat, NEW a \in 0 .. R * N - 1
  PROVE  \E q \in 0 .. N - 1, s \in 0 .. R - 1 :
           q = a \div R /\ s = a % R /\ a = R * q + s
<1> DEFINE q == a \div R
           s == a % R
<1>0. a \in Nat
  OBVIOUS
<1>1. q \in Int /\ s \in 0 .. R - 1 /\ a = R * q + s
  BY <1>0
<1>2. q = a \div R /\ s = a % R
  OBVIOUS
<1> HIDE DEF q, s
<1>3. q \in 0 .. N - 1
  BY <1>1, QuotientBound
<1> QED
  BY <1>1, <1>2, <1>3, Zenon

LEMMA Composed ==
  ASSUME NEW R \in Nat \ {0}, NEW N \in Nat, NEW q \in 0 .. N - 1, NEW s \in 0 .. R - 1
  PROVE  /\ R * q + s \in 0 .. R * N - 1
         /\ (R * q + s) \div R = q /\ (R * q + s) % R = s
<1> DEFINE a == R * q + s
           Q == a \div R
           S == a % R
<1>1. R * q + s \in 0 .. R * N - 1
  <2>1. PICK k \in Nat : N = q + 1 + k
    BY SMT
  <2>2. R * N = R * q + R + R * k /\ R * k >= 0 /\ R * q >= 0
    BY <2>1
  <2> QED  BY <2>2
<1>2. a \in Nat /\ Q \in Int /\ S \in 0 .. R - 1 /\ a = R * Q + S /\ a = R * q + s
  BY <1>1
<1> HIDE DEF a, Q, S
<1>3. R * (Q - q) = s - S
  BY <1>2
<1>4. Q - q = 0
  BY <1>2, <1>3, SmallMultiple
<1>5. Q = q /\ S = s
  BY <1>2, <1>4
<1> QED
  BY <1>1, <1>5 DEF a, Q, S

(* What main of pingpong_prg_ucx gives to this module. *)
PrgStart(tx, rx) ==
  /\ tx \in Nat \ {0} /\ rx \in Nat \ {0} /\ tx % rx = 0
  /\ Ctxs = PrgCtxs(tx, rx) /\ EpCount = PrgEpCount(tx, rx) /\ Links = PrgLinks(tx, rx)

(* The endpoint of progress thread id for its q-th worker, and the number  *)
(* of the step that connects it.                                           *)
ClassEp(id, q) == <<<<"p", id>>, 1 + q>>
ClassLink(tx, rx, id, q) == tx + 1 + ((tx \div rx) * id + q)

Workers(tx, rx, W) == W = tx \div rx /\ tx = rx * W /\ tx = W * rx

LEMMA PrgNumbers ==
  ASSUME NEW tx, NEW rx, PrgStart(tx, rx)
  PROVE  \E W \in Nat \ {0} : Workers(tx, rx, W)
<1> DEFINE W == tx \div rx
<1>1. tx \in Nat \ {0} /\ rx \in Nat \ {0} /\ tx % rx = 0
  BY DEF PrgStart
<1>2. W \in Int /\ tx = rx * W
  BY <1>1
<1>3. W = tx \div rx
  OBVIOUS
<1> HIDE DEF W
<1>4. W > 0
  <2> SUFFICES ASSUME W <= 0 PROVE FALSE
    BY <1>2
  <2>1. PICK k \in Nat : W = -k
    BY <1>2
  <2> QED  BY <1>1, <1>2, <2>1
<1>5. W \in Nat \ {0} /\ tx = W * rx
  BY <1>1, <1>2, <1>4
<1> QED
  BY <1>2, <1>3, <1>5, Zenon DEF Workers

(* The first loop: worker t to its endpoint of progress thread t % rx. *)
FirstLink(tx, rx, t) ==
  /\ t + 1 \in 1 .. 2 * tx
  /\ Links[t + 1][1] = WorkerEp(t)
  /\ Links[t + 1][2] = ClassEp(t % rx, t \div rx)

LEMMA FirstLoop ==
  ASSUME NEW tx, NEW rx, PrgStart(tx, rx), NEW t \in 0 .. tx - 1
  PROVE  FirstLink(tx, rx, t)
<1>1. tx \in Nat \ {0} /\ Links = PrgLinks(tx, rx)
  BY DEF PrgStart
<1>2. t + 1 \in 1 .. 2 * tx /\ t + 1 <= tx /\ (t + 1) - 1 = t
  BY <1>1
<1>3. Links[t + 1] = <<WorkerEp((t + 1) - 1), PrgEp(rx, ((t + 1) - 1) % rx, (t + 1) - 1)>>
  BY <1>1, <1>2, Zenon DEF PrgLinks
<1>4. Links[t + 1] = <<WorkerEp(t), ClassEp(t % rx, t \div rx)>>
  BY <1>2, <1>3, Zenon DEF PrgEp, ClassEp
<1>5. /\ Links[t + 1][1] = WorkerEp(t)
      /\ Links[t + 1][2] = ClassEp(t % rx, t \div rx)
  BY <1>4
<1> QED
  BY <1>2, <1>5, Zenon DEF FirstLink

ClassRule(rx, W, id, q) ==
  /\ W * id + q \in 0 .. W * rx - 1 /\ (W * id + q) \div W = id /\ (W * id + q) % W = q
  /\ rx * q + id \in 0 .. rx * W - 1 /\ (rx * q + id) \div rx = q /\ (rx * q + id) % rx = id

LEMMA ClassNumbers ==
  ASSUME NEW rx \in Nat \ {0}, NEW W \in Nat \ {0}, NEW id \in 0 .. rx - 1, NEW q \in 0 .. W - 1
  PROVE  ClassRule(rx, W, id, q)
<1>1. rx \in Nat /\ W \in Nat
  OBVIOUS
<1> QED
  BY <1>1, Composed, Zenon DEF ClassRule

(* The second loop: the endpoint of progress thread id for its q-th worker *)
(* to that worker.                                                         *)
SecondLink(tx, rx, id, q) ==
  /\ ClassLink(tx, rx, id, q) \in 1 .. 2 * tx
  /\ Links[ClassLink(tx, rx, id, q)][1] = ClassEp(id, q)
  /\ Links[ClassLink(tx, rx, id, q)][2] = WorkerEp(id + rx * q)
  /\ id + rx * q \in 0 .. tx - 1
  /\ (id + rx * q) % rx = id /\ (id + rx * q) \div rx = q

LEMMA SecondLoop ==
  ASSUME NEW tx, NEW rx, PrgStart(tx, rx), NEW W \in Nat \ {0}, Workers(tx, rx, W),
         NEW id \in 0 .. rx - 1, NEW q \in 0 .. W - 1
  PROVE  SecondLink(tx, rx, id, q)
<1> DEFINE a == W * id + q
           t == id + rx * q
           k == ClassLink(tx, rx, id, q)
<1>0. rx \in Nat \ {0}
  BY DEF PrgStart
<1>r. ClassRule(rx, W, id, q)
  BY <1>0, ClassNumbers
<1>1. tx \in Nat \ {0} /\ rx \in Nat \ {0} /\ Links = PrgLinks(tx, rx)
  BY DEF PrgStart
<1>2. a \in 0 .. W * rx - 1 /\ a \div W = id /\ a % W = q
  BY <1>r, Zenon DEF ClassRule, a
<1>3. rx * q + id \in 0 .. rx * W - 1 /\ (rx * q + id) \div rx = q /\ (rx * q + id) % rx = id
  BY <1>r, Zenon DEF ClassRule
<1>4. t = rx * q + id
  BY <1>1
<1>5. t \in 0 .. tx - 1 /\ t \div rx = q /\ t % rx = id
  BY <1>3, <1>4, Zenon DEF Workers
<1>6. k = tx + 1 + a
  BY Zenon DEF ClassLink, Workers
<1>7. a \in 0 .. tx - 1
  BY <1>2, Zenon DEF Workers
<1> HIDE DEF a, k
<1>8. k \in tx + 1 .. 2 * tx /\ k \in 1 .. 2 * tx /\ ~(k <= tx) /\ k - 1 - tx = a
  BY <1>1, <1>6, <1>7
<1>9. Links[k] = <<PrgEp(rx, a \div W, WorkerOf(rx, a \div W, a % W)),
                   WorkerEp(WorkerOf(rx, a \div W, a % W))>>
  BY <1>1, <1>8, Zenon DEF PrgLinks, works_per_progress_thread, Workers
<1>10. Links[k] = <<PrgEp(rx, id, t), WorkerEp(t)>>
  BY <1>2, <1>9, Zenon DEF WorkerOf
<1>11. Links[k] = <<ClassEp(id, q), WorkerEp(t)>>
  BY <1>5, <1>10, Zenon DEF PrgEp, ClassEp
<1>12. Links[k][1] = ClassEp(id, q) /\ Links[k][2] = WorkerEp(t)
  BY <1>11
<1> QED
  BY <1>5, <1>8, <1>12, Zenon DEF k, SecondLink

LEMMA PrgLengths ==
  ASSUME NEW tx, NEW rx, PrgStart(tx, rx)
  PROVE  Len(Ctxs) = rx + tx /\ Len(Links) = 2 * tx
<1>1. /\ tx \in Nat /\ rx \in Nat
      /\ Ctxs = PrgCtxs(tx, rx) /\ Links = PrgLinks(tx, rx)
  BY DEF PrgStart
<1>2. rx + tx \in Nat /\ 2 * tx \in Nat
  BY <1>1
<1>3. Len(PrgCtxs(tx, rx)) = rx + tx
  BY <1>2 DEF PrgCtxs
<1>4. Len(PrgLinks(tx, rx)) = 2 * tx
  BY <1>2 DEF PrgLinks
<1> QED
  BY <1>1, <1>3, <1>4, Zenon

LEMMA PrgContexts ==
  ASSUME NEW tx, NEW rx, PrgStart(tx, rx)
  PROVE  Ctx = ({"p"} \X (0 .. rx - 1)) \cup ({"w"} \X (0 .. tx - 1))
<1> DEFINE C == ({"p"} \X (0 .. rx - 1)) \cup ({"w"} \X (0 .. tx - 1))
<1>1. tx \in Nat /\ rx \in Nat
  BY DEF PrgStart
<1>2. \A k \in 1 .. rx + tx : Ctxs[k] = IF k <= rx THEN <<"p", k - 1>> ELSE <<"w", k - 1 - rx>>
  BY DEF PrgStart, PrgCtxs
<1>3. Ctx = {Ctxs[k] : k \in 1 .. rx + tx}
  BY PrgLengths, Zenon DEF Ctx
<1>4. ASSUME NEW k \in 1 .. rx + tx PROVE Ctxs[k] \in C
  <2>1. CASE k <= rx
    <3>1. k - 1 \in 0 .. rx - 1
      BY <1>1, <2>1
    <3>2. Ctxs[k] = <<"p", k - 1>>
      BY <1>2, <2>1, Zenon
    <3> QED  BY <3>1, <3>2
  <2>2. CASE ~(k <= rx)
    <3>1. k - 1 - rx \in 0 .. tx - 1
      BY <1>1, <2>2
    <3>2. Ctxs[k] = <<"w", k - 1 - rx>>
      BY <1>2, <2>2, Zenon
    <3> QED  BY <3>1, <3>2
  <2> QED  BY <2>1, <2>2
<1>5. ASSUME NEW i \in 0 .. rx - 1 PROVE <<"p", i>> \in Ctx
  <2>1. i + 1 \in 1 .. rx + tx /\ i + 1 <= rx /\ (i + 1) - 1 = i
    BY <1>1
  <2>2. Ctxs[i + 1] = <<"p", i>>
    BY <1>2, <2>1, Zenon
  <2> QED  BY <1>3, <2>1, <2>2
<1>6. ASSUME NEW t \in 0 .. tx - 1 PROVE <<"w", t>> \in Ctx
  <2>1. rx + 1 + t \in 1 .. rx + tx /\ ~(rx + 1 + t <= rx) /\ (rx + 1 + t) - 1 - rx = t
    BY <1>1
  <2>2. Ctxs[rx + 1 + t] = <<"w", t>>
    BY <1>2, <2>1, Zenon
  <2> QED  BY <1>3, <2>1, <2>2
<1>7. Ctx \subseteq C
  BY <1>3, <1>4, Zenon
<1>8. C \subseteq Ctx
  <2>1. ASSUME NEW c \in {"p"} \X (0 .. rx - 1) PROVE c \in Ctx
    <3>1. PICK i \in 0 .. rx - 1 : c = <<"p", i>>
      OBVIOUS
    <3> QED  BY <1>5, <3>1
  <2>2. ASSUME NEW c \in {"w"} \X (0 .. tx - 1) PROVE c \in Ctx
    <3>1. PICK t \in 0 .. tx - 1 : c = <<"w", t>>
      OBVIOUS
    <3> QED  BY <1>6, <3>1
  <2> QED  BY <2>1, <2>2
<1> QED
  BY <1>7, <1>8

(* The endpoints: one for every worker, and one of every progress thread   *)
(* for each of its workers.                                                *)
LEMMA PrgEndpoints ==
  ASSUME NEW tx, NEW rx, PrgStart(tx, rx), NEW W \in Nat \ {0}, Workers(tx, rx, W)
  PROVE  /\ \A c \in Ctx : EpCount[c] \in Nat
         /\ \A t \in 0 .. tx - 1 : WorkerEp(t) \in Endpoint
         /\ \A id \in 0 .. rx - 1, q \in 0 .. W - 1 : ClassEp(id, q) \in Endpoint
         /\ \A e \in Endpoint : \/ \E t \in 0 .. tx - 1 : e = WorkerEp(t)
                                \/ \E id \in 0 .. rx - 1, q \in 0 .. W - 1 : e = ClassEp(id, q)
<1>1. /\ \A i \in 0 .. rx - 1 : <<"p", i>> \in Ctx /\ EpCount[<<"p", i>>] = W
      /\ \A t \in 0 .. tx - 1 : <<"w", t>> \in Ctx /\ EpCount[<<"w", t>>] = 1
  <2>1. EpCount = [c \in Ctx |-> IF c[1] = "p" THEN W ELSE 1]
    BY PrgContexts, Zenon DEF PrgStart, PrgEpCount, works_per_progress_thread, Workers
  <2> QED  BY <2>1, PrgContexts
<1>2. \A c \in Ctx : \/ \E i \in 0 .. rx - 1 : c = <<"p", i>>
                     \/ \E t \in 0 .. tx - 1 : c = <<"w", t>>
  BY PrgContexts
<1>3. ASSUME NEW t \in 0 .. tx - 1 PROVE WorkerEp(t) \in Endpoint
  <2>1. WorkerEp(t) \in {<<"w", t>>} \X (0 .. EpCount[<<"w", t>>])
    BY <1>1 DEF WorkerEp
  <2>2. WorkerEp(t)[2] > 0
    BY DEF WorkerEp
  <2> QED  BY <1>1, <2>1, <2>2, Zenon DEF Item, Endpoint
<1>4. ASSUME NEW id \in 0 .. rx - 1, NEW q \in 0 .. W - 1 PROVE ClassEp(id, q) \in Endpoint
  <2>1. ClassEp(id, q) \in {<<"p", id>>} \X (0 .. EpCount[<<"p", id>>])
    BY <1>1 DEF ClassEp
  <2>2. ClassEp(id, q)[2] > 0
    BY DEF ClassEp
  <2> QED  BY <1>1, <2>1, <2>2, Zenon DEF Item, Endpoint
<1>5. ASSUME NEW e \in Endpoint
      PROVE  \/ \E t \in 0 .. tx - 1 : e = WorkerEp(t)
             \/ \E id \in 0 .. rx - 1, q \in 0 .. W - 1 : e = ClassEp(id, q)
  <2>1. PICK c \in Ctx : e \in {c} \X (0 .. EpCount[c])
    BY Zenon DEF Endpoint, Item
  <2>2. PICK n \in 0 .. EpCount[c] : e = <<c, n>>
    BY <2>1
  <2>3. e[2] > 0
    BY Zenon DEF Endpoint
  <2>4. n > 0
    BY <2>2, <2>3
  <2>5. ASSUME NEW i \in 0 .. rx - 1, c = <<"p", i>> PROVE \E q \in 0 .. W - 1 : e = ClassEp(i, q)
    <3>1. n - 1 \in 0 .. W - 1 /\ 1 + (n - 1) = n
      BY <1>1, <2>4, <2>5
    <3>2. e = ClassEp(i, n - 1)
      BY <2>2, <2>5, <3>1, Zenon DEF ClassEp
    <3> QED  BY <3>1, <3>2, Zenon
  <2>6. ASSUME NEW t \in 0 .. tx - 1, c = <<"w", t>> PROVE e = WorkerEp(t)
    <3>1. n = 1
      BY <1>1, <2>4, <2>6
    <3> QED  BY <2>2, <2>6, <3>1, Zenon DEF WorkerEp
  <2> QED  BY <1>2, <2>5, <2>6, Zenon
<1>6. \A c \in Ctx : EpCount[c] \in Nat
  BY <1>1, <1>2
<1> QED
  BY <1>3, <1>4, <1>5, <1>6, Zenon

(* Worker t is number t \div rx in the class of progress thread t % rx. *)
InClass(rx, W, t) ==
  t % rx \in 0 .. rx - 1 /\ t \div rx \in 0 .. W - 1 /\ (t % rx) + rx * (t \div rx) = t

LEMMA WorkerClass ==
  ASSUME NEW tx, NEW rx, PrgStart(tx, rx), NEW W \in Nat \ {0}, Workers(tx, rx, W),
         NEW t \in 0 .. tx - 1
  PROVE  InClass(rx, W, t)
<1>1. rx \in Nat \ {0} /\ W \in Nat
  BY DEF PrgStart
<1>2. t \in 0 .. rx * W - 1
  BY Zenon DEF Workers
<1>3. PICK q \in 0 .. W - 1, s \in 0 .. rx - 1 : q = t \div rx /\ s = t % rx /\ t = rx * q + s
  BY <1>1, <1>2, Divided, Zenon
<1>4. s + rx * q = t
  <2>1. ASSUME NEW x \in Int PROVE s + x = x + s
    BY <1>1
  <2>2. rx * q \in Int
    BY <1>1
  <2> QED  BY <1>3, <2>1, <2>2, Zenon
<1> QED
  BY <1>3, <1>4, Zenon DEF InClass

(* Every connect is one of the first or of the second loop. *)
LEMMA PrgLinkCases ==
  ASSUME NEW tx, NEW rx, PrgStart(tx, rx), NEW W \in Nat \ {0}, Workers(tx, rx, W),
         NEW m \in 1 .. 2 * tx
  PROVE  \/ \E t \in 0 .. tx - 1 : m = t + 1
         \/ \E id \in 0 .. rx - 1, q \in 0 .. W - 1 : m = ClassLink(tx, rx, id, q)
<1>1. tx \in Nat \ {0} /\ rx \in Nat
  BY DEF PrgStart
<1>2. CASE m <= tx
  <2>1. m - 1 \in 0 .. tx - 1 /\ m = (m - 1) + 1
    BY <1>1, <1>2
  <2> QED  BY <2>1, Zenon
<1>3. CASE ~(m <= tx)
  <2> DEFINE a == m - 1 - tx
  <2>1. a \in 0 .. tx - 1 /\ m = tx + 1 + a
    BY <1>1, <1>3
  <2> HIDE DEF a
  <2>2. a \in 0 .. W * rx - 1
    BY <2>1, Zenon DEF Workers
  <2>3. PICK id \in 0 .. rx - 1, q \in 0 .. W - 1 : id = a \div W /\ q = a % W /\ a = W * id + q
    BY <1>1, <2>2, Divided, Zenon
  <2>4. m = ClassLink(tx, rx, id, q)
    BY <2>1, <2>3, Zenon DEF ClassLink, Workers
  <2> QED  BY <2>4, Zenon
<1> QED
  BY <1>2, <1>3

LEMMA DifferentEndpoints ==
  /\ \A t, u : WorkerEp(t) = WorkerEp(u) => t = u
  /\ \A id, i, q, p : ClassEp(id, q) = ClassEp(i, p) => id = i /\ 1 + q = 1 + p
  /\ \A t, id, q : WorkerEp(t) # ClassEp(id, q)
BY DEF WorkerEp, ClassEp

(* The two loops of main connect the same pairs, from either end. *)
LEMMA PrgLinksMutual ==
  ASSUME NEW tx, NEW rx, PrgStart(tx, rx)
  PROVE  LinksMutual
<1>1. PICK W \in Nat \ {0} : Workers(tx, rx, W)
  BY PrgNumbers, Zenon
<1> DEFINE Wk == 0 .. tx - 1
           Id == 0 .. rx - 1
           Nth == 0 .. W - 1
           K(id, q) == ClassLink(tx, rx, id, q)
<1>2. Link = 1 .. 2 * tx
  BY PrgLengths, Zenon DEF Link
<1>3. /\ \A t \in Wk : FirstLink(tx, rx, t) /\ InClass(rx, W, t)
      /\ \A id \in Id, q \in Nth : SecondLink(tx, rx, id, q)
      /\ \A m \in Link : \/ \E t \in Wk : m = t + 1
                         \/ \E id \in Id, q \in Nth : m = K(id, q)
  <2>1. \A t \in Wk : FirstLink(tx, rx, t) /\ InClass(rx, W, t)
    BY <1>1, FirstLoop, WorkerClass, Zenon
  <2>2. \A id \in Id, q \in Nth : SecondLink(tx, rx, id, q)
    BY <1>1, SecondLoop, Zenon
  <2>3. \A m \in Link : \/ \E t \in Wk : m = t + 1
                        \/ \E id \in Id, q \in Nth : m = K(id, q)
    BY <1>1, <1>2, PrgLinkCases, Zenon
  <2> QED  BY <2>1, <2>2, <2>3, Zenon
<1>4. /\ \A t \in Wk : WorkerEp(t) \in Endpoint
      /\ \A id \in Id, q \in Nth : ClassEp(id, q) \in Endpoint
      /\ \A e \in Endpoint : \/ \E t \in Wk : e = WorkerEp(t)
                             \/ \E id \in Id, q \in Nth : e = ClassEp(id, q)
  BY <1>1, PrgEndpoints
<1>5. ASSUME NEW t \in Wk
      PROVE  /\ t + 1 \in Link /\ Links[t + 1][1] = WorkerEp(t)
             /\ Links[t + 1][2] = ClassEp(t % rx, t \div rx)
             /\ t % rx \in Id /\ t \div rx \in Nth /\ (t % rx) + rx * (t \div rx) = t
  BY <1>2, <1>3, Zenon DEF FirstLink, InClass
<1>6. ASSUME NEW id \in Id, NEW q \in Nth
      PROVE  /\ K(id, q) \in Link /\ Links[K(id, q)][1] = ClassEp(id, q)
             /\ Links[K(id, q)][2] = WorkerEp(id + rx * q) /\ id + rx * q \in Wk
             /\ (id + rx * q) % rx = id /\ (id + rx * q) \div rx = q
  BY <1>2, <1>3, Zenon DEF SecondLink
<1>7. ASSUME NEW id \in Id, NEW q \in Nth
      PROVE  LET n == (id + rx * q) + 1
             IN  n \in Link /\ Links[n][1] = WorkerEp(id + rx * q) /\ Links[n][2] = ClassEp(id, q)
  <2>1. /\ (id + rx * q) + 1 \in Link /\ Links[(id + rx * q) + 1][1] = WorkerEp(id + rx * q)
        /\ Links[(id + rx * q) + 1][2] = ClassEp((id + rx * q) % rx, (id + rx * q) \div rx)
    BY <1>5, <1>6, Zenon
  <2> QED  BY <1>6, <2>1, Zenon
<1>8. ASSUME NEW t \in Wk
      PROVE  \E n \in Link : Links[n][1] = ClassEp(t % rx, t \div rx) /\ Links[n][2] = WorkerEp(t)
  <2>1. t % rx \in Id /\ t \div rx \in Nth /\ (t % rx) + rx * (t \div rx) = t
    BY <1>5, Zenon
  <2>2. /\ K(t % rx, t \div rx) \in Link
        /\ Links[K(t % rx, t \div rx)][1] = ClassEp(t % rx, t \div rx)
        /\ Links[K(t % rx, t \div rx)][2] = WorkerEp((t % rx) + rx * (t \div rx))
    BY <1>6, <2>1, Zenon
  <2> QED  BY <2>1, <2>2, Zenon
<1>9. ASSUME NEW m \in Link
      PROVE  /\ Links[m][1] \in Endpoint /\ Links[m][2] \in Endpoint
             /\ \E n \in Link : Links[n][1] = Links[m][2] /\ Links[n][2] = Links[m][1]
  <2>1. CASE \E t \in Wk : m = t + 1
    <3>1. PICK t \in Wk : m = t + 1
      BY <2>1, Zenon
    <3>2. Links[m][1] = WorkerEp(t) /\ Links[m][2] = ClassEp(t % rx, t \div rx)
      BY <1>5, <3>1, Zenon
    <3>3. t % rx \in Id /\ t \div rx \in Nth
      BY <1>5, Zenon
    <3> QED  BY <1>4, <1>8, <3>2, <3>3, Zenon
  <2>2. CASE \E id \in Id, q \in Nth : m = K(id, q)
    <3>1. PICK id \in Id, q \in Nth : m = K(id, q)
      BY <2>2, Zenon
    <3>2. Links[m][1] = ClassEp(id, q) /\ Links[m][2] = WorkerEp(id + rx * q) /\ id + rx * q \in Wk
      BY <1>6, <3>1, Zenon
    <3> QED  BY <1>4, <1>7, <3>2, Zenon
  <2> QED  BY <1>3, <2>1, <2>2, Zenon
<1> HIDE DEF Wk, Id, Nth, K
<1>10. ASSUME NEW e \in Endpoint PROVE \E m \in Link : Links[m][1] = e
  <2>1. ASSUME NEW t \in Wk, e = WorkerEp(t) PROVE \E m \in Link : Links[m][1] = e
    <3>1. t + 1 \in Link /\ Links[t + 1][1] = WorkerEp(t)
      BY <1>5, Zenon
    <3> QED  BY <2>1, <3>1, Zenon
  <2>2. ASSUME NEW id \in Id, NEW q \in Nth, e = ClassEp(id, q)
        PROVE  \E m \in Link : Links[m][1] = e
    <3>1. K(id, q) \in Link /\ Links[K(id, q)][1] = ClassEp(id, q)
      BY <1>6, Zenon
    <3> QED  BY <2>2, <3>1, Zenon
  <2> QED  BY <1>4, <2>1, <2>2, Zenon
<1>11. ASSUME NEW m \in Link
       PROVE  \/ \E t \in Wk : m = t + 1 /\ Links[m][1] = WorkerEp(t)
              \/ \E id \in Id, q \in Nth : m = K(id, q) /\ Links[m][1] = ClassEp(id, q)
  <2>1. ASSUME NEW t \in Wk, m = t + 1 PROVE Links[m][1] = WorkerEp(t)
    BY <1>5, <2>1, Zenon
  <2>2. ASSUME NEW id \in Id, NEW q \in Nth, m = K(id, q) PROVE Links[m][1] = ClassEp(id, q)
    BY <1>6, <2>2, Zenon
  <2> QED  BY <1>3, <2>1, <2>2, Zenon
<1>12. ASSUME NEW m \in Link, NEW n \in Link, Links[m][1] = Links[n][1] PROVE m = n
  <2>0. \A p, q \in Nth : 1 + p = 1 + q => p = q
    BY <1>1 DEF Nth
  <2>1. ASSUME NEW t \in Wk, Links[m][1] = WorkerEp(t), NEW u \in Wk, Links[n][1] = WorkerEp(u)
        PROVE  t = u
    BY <1>12, <2>1, DifferentEndpoints, Zenon
  <2>2. ASSUME NEW id \in Id, NEW q \in Nth, Links[m][1] = ClassEp(id, q),
               NEW i \in Id, NEW p \in Nth, Links[n][1] = ClassEp(i, p)
        PROVE  id = i /\ q = p
    <3>0. ClassEp(id, q) = ClassEp(i, p)
      BY <1>12, <2>2, Zenon
    <3>1. id = i /\ 1 + q = 1 + p
      BY <3>0, DifferentEndpoints
    <3> QED  BY <2>0, <3>1, Zenon
  <2>3. CASE \E t \in Wk : m = t + 1 /\ Links[m][1] = WorkerEp(t)
    <3>1. PICK t \in Wk : m = t + 1 /\ Links[m][1] = WorkerEp(t)
      BY <2>3, Zenon
    <3>2. \A id, q : Links[n][1] # ClassEp(id, q)
      BY <1>12, <3>1, DifferentEndpoints, Zenon
    <3>3. PICK u \in Wk : n = u + 1 /\ Links[n][1] = WorkerEp(u)
      BY <1>11, <3>2, Zenon
    <3> QED  BY <2>1, <3>1, <3>3, Zenon
  <2>4. CASE \E id \in Id, q \in Nth : m = K(id, q) /\ Links[m][1] = ClassEp(id, q)
    <3>1. PICK id \in Id, q \in Nth : m = K(id, q) /\ Links[m][1] = ClassEp(id, q)
      BY <2>4, Zenon
    <3>2. \A t : Links[n][1] # WorkerEp(t)
      BY <1>12, <3>1, DifferentEndpoints, Zenon
    <3>3. PICK i \in Id, p \in Nth : n = K(i, p) /\ Links[n][1] = ClassEp(i, p)
      BY <1>11, <3>2, Zenon
    <3> QED  BY <2>2, <3>1, <3>3, Zenon
  <2> QED  BY <1>11, <2>3, <2>4, Zenon
<1> QED
  BY <1>9, <1>10, <1>12, Zenon DEF LinksMutual

(* Worker t of a process that has passed the last barrier of the start-up  *)
(* sends to the progress thread of the partner whose handler its messages  *)
(* name, t % rx, and to its own endpoint there.                            *)
WorkersServed(tx, rx) ==
  \A r \in Rank : start[r] = "started" =>
    \A t \in 0 .. tx - 1 :
      dest[r][WorkerEp(t)] = Address(target_rank(r), ClassEp(t % rx, t \div rx))

PrgAssumption(tx, rx) ==
  /\ PrgStart(tx, rx)
  /\ Size \in Nat \ {0} /\ Size % 2 = 0
  /\ AddrWord \in Nat \ {0} /\ None \notin Int
  /\ epAddr \in [Rank -> [Item -> 0 .. AddrWord - 1]]

LEMMA PrgStartAssumption ==
  ASSUME NEW tx, NEW rx, PrgAssumption(tx, rx)
  PROVE  StartAssumption
<1>1. PrgStart(tx, rx)
  BY DEF PrgAssumption
<1>2. PICK W \in Nat \ {0} : Workers(tx, rx, W)
  BY <1>1, PrgNumbers, Zenon
<1>3. \A c \in Ctx : EpCount[c] \in Nat
  BY <1>1, <1>2, PrgEndpoints
<1>4. Len(Ctxs) \in Nat /\ Len(Links) \in Nat
  BY <1>1, PrgLengths DEF PrgStart
<1>5. LinksMutual
  BY <1>1, PrgLinksMutual, Zenon
<1> QED
  BY <1>3, <1>4, <1>5, Zenon DEF PrgAssumption, StartAssumption

LEMMA InvServed ==
  ASSUME NEW tx, NEW rx, PrgAssumption(tx, rx), StartInv
  PROVE  WorkersServed(tx, rx)
<1> SUFFICES ASSUME NEW r \in Rank, start[r] = "started", NEW t \in 0 .. tx - 1
             PROVE  dest[r][WorkerEp(t)] = Address(target_rank(r), ClassEp(t % rx, t \div rx))
  BY Zenon DEF WorkersServed
<1>1. StartAssumption /\ PrgStart(tx, rx)
  BY PrgStartAssumption, Zenon DEF PrgAssumption
<1>2. FirstLink(tx, rx, t)
  BY <1>1, FirstLoop, Zenon
<1>3. t + 1 \in Link
  BY <1>1, <1>2, PrgLengths, Zenon DEF FirstLink, Link
<1>4. dest[r][Links[t + 1][1]] = Address(target_rank(r), Links[t + 1][2])
  BY <1>1, <1>3, InvLinked, Zenon
<1> QED
  BY <1>2, <1>4, Zenon DEF FirstLink

(* The start-up of pingpong_prg_ucx, for every number of processes, of     *)
(* workers and of progress threads main accepts: all endpoints are         *)
(* connected in pairs, although the two ends of a pair are connected by    *)
(* loops that count in different ways, and worker t sends to progress      *)
(* thread t % rx_thread_num.                                               *)
THEOREM PrgConnects ==
  ASSUME NEW CONSTANT tx, NEW CONSTANT rx, PrgAssumption(tx, rx)
  PROVE  Spec => [](Wired /\ WorkersServed(tx, rx))
<1>0. StartAssumption
  BY PrgStartAssumption, Zenon
<1>1. Init => StartInv
  BY <1>0, InitStartInv
<1>2. StartInv /\ [Next]_startVars => StartInv'
  BY <1>0, NextStartInv
<1>3. StartInv => Wired /\ WorkersServed(tx, rx)
  BY <1>0, InvWired, InvServed
<1> QED
  BY <1>1, <1>2, <1>3, PTL DEF Spec
=============================================================================
