------------------------- MODULE MCSignalingServer --------------------------
(***************************************************************************)
(* SignalingServer for TLC.  ServerStore has three pages, two ids and two  *)
(* codes, so that a code is drawn again for a later session while another  *)
(* one lives, and timeouts that pass before the clock stops.               *)
(***************************************************************************)
EXTENDS SignalingServer, TLC

Symmetry == Permutations(Sockets) \cup Permutations(Ids) \cup Permutations(Codes)
=============================================================================
