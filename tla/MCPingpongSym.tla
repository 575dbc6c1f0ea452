--------------------------- MODULE MCPingpongSym ---------------------------
(* PingpongSym for TLC; the constants are given in the cfg files. *)
EXTENDS PingpongSym
=============================================================================
