------------------------------ MODULE MCPairing ------------------------------
(***************************************************************************)
(* Pairing for TLC.  Pairing has one session object on each page, a socket *)
(* that fails and a session that expires, with the server's intervals to   *)
(* clean up after both; Blip is a counterexample to what a comment of the  *)
(* signaling client says.                                                  *)
(***************************************************************************)
EXTENDS Pairing
=============================================================================
