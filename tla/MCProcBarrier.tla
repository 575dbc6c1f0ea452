--------------------------- MODULE MCProcBarrier ---------------------------
(* ProcBarrier for TLC; the constants are given in MCProcBarrier.cfg. *)
EXTENDS ProcBarrier
=============================================================================
