-------------------------- MODULE MCPingpongPrgUcx --------------------------
(* PingpongPrgUcx for TLC; the other constants are given in the cfg files. *)
EXTENDS PingpongPrgUcx

MaxIndex == tx_thread_num + 1   \* of a context or an endpoint

(* All endpoints of all processes have different addresses; a device       *)
(* address is its rank.                                                    *)
MCepAddr ==
  [r \in Rank |-> [e \in UNION {{c} \X (0 .. EpCount[c]) : c \in DOMAIN EpCount} |->
     IF e[2] = 0 THEN r
     ELSE 10 + r + Size * (e[2] + MaxIndex * (e[1][2] + MaxIndex *
                                          (IF e[1][1] = "p" THEN 1 ELSE 0)))]]
=============================================================================
