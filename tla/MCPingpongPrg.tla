--------------------------- MODULE MCPingpongPrg ---------------------------
(* PingpongPrg for TLC; the constants are given in the cfg files. *)
EXTENDS PingpongPrgTokens
=============================================================================
