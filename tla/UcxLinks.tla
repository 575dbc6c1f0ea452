------------------------------ MODULE UcxLinks ------------------------------
(***************************************************************************)
(* The contexts, endpoints and connects of main in                         *)
(* src/benchmark/pingpong_prg_ucx.cpp, for tx workers and rx progress      *)
(* threads: what PingpongPrgUcx gives to UcxStart.  A context <<"p", i>>   *)
(* is that of progress thread i, <<"w", t>> that of worker t; an endpoint  *)
(* is a context and a number from 1 on.                                    *)
(***************************************************************************)
EXTENDS Integers

works_per_progress_thread(tx, rx) == tx \div rx

(* A progress thread has an endpoint for every worker of its class. *)
PrgCtxs(tx, rx) ==
  [k \in 1 .. rx + tx |-> IF k <= rx THEN <<"p", k - 1>> ELSE <<"w", k - 1 - rx>>]
PrgEpCount(tx, rx) ==
  [c \in ({"p"} \X (0 .. rx - 1)) \cup ({"w"} \X (0 .. tx - 1)) |->
     IF c[1] = "p" THEN works_per_progress_thread(tx, rx) ELSE 1]

WorkerEp(t) == <<<<"w", t>>, 1>>
PrgEp(rx, id, t) == <<<<"p", id>>, 1 + t \div rx>>

(* The q-th worker of progress thread id. *)
WorkerOf(rx, id, q) == id + rx * q

(* Mutant: the workers are dealt to the progress threads in blocks. *)
PrgLinksByBlock(tx, rx) ==
  [k \in 1 .. 2 * tx |->
     IF k <= tx THEN <<WorkerEp(k - 1), PrgEp(rx, (k - 1) \div works_per_progress_thread(tx, rx), k - 1)>>
     ELSE LET id == (k - 1 - tx) \div works_per_progress_thread(tx, rx)
              t == WorkerOf(rx, id, (k - 1 - tx) % works_per_progress_thread(tx, rx))
          IN  <<PrgEp(rx, id, t), WorkerEp(t)>>]

(* First each worker's endpoint to its own endpoint of a progress thread,  *)
(* then each progress thread's endpoints to the workers of its class.      *)
PrgLinks(tx, rx) ==
  [k \in 1 .. 2 * tx |->
     IF k <= tx THEN <<WorkerEp(k - 1), PrgEp(rx, (k - 1) % rx, k - 1)>>
     ELSE LET id == (k - 1 - tx) \div works_per_progress_thread(tx, rx)
              t == WorkerOf(rx, id, (k - 1 - tx) % works_per_progress_thread(tx, rx))
          IN  <<PrgEp(rx, id, t), WorkerEp(t)>>]
=============================================================================
