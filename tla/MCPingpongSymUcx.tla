-------------------------- MODULE MCPingpongSymUcx --------------------------
(* PingpongSymUcx for TLC; the other constants are given in sym_ucx.cfg. *)
EXTENDS PingpongSymUcx

(* All endpoints of all processes have different addresses; a device       *)
(* address is its rank.                                                    *)
MCepAddr ==
  [r \in Rank |-> [e \in ({"w"} \X Worker) \X {0, 1} |->
     IF e[2] = 0 THEN r ELSE 10 + r + Size * e[1][2]]]
=============================================================================
