---------------------------- MODULE MCBootstrap ----------------------------
(* Bootstrap for TLC; the constants are given in the cfg files. *)
EXTENDS Bootstrap

(* The contexts of a process have different numbers, and every worker of   *)
(* an odd process a number that is printed as a negative int.              *)
MCctxNum == [c \in (0 .. Size - 1) \X (0 .. tx_thread_num - 1) |->
               IF c[1] % 2 = 0 THEN c[2] ELSE Word - 1 - c[2]]
=============================================================================
