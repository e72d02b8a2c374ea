--------------------------- MODULE MCReconnection ---------------------------
(***************************************************************************)
(* Reconnection for TLC.  A tick stands for four seconds: a ping every 8   *)
(* seconds, 20 for its pong, 3 of grace (rounded up) and 30 until the      *)
(* receiver gives up (rounded up).                                         *)
(***************************************************************************)
EXTENDS Reconnection
=============================================================================
