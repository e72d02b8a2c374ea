----------------------------- MODULE MCTransfer ------------------------------
(***************************************************************************)
(* Transfer for TLC.  Settle: one chunk, a broken connection, negotiations *)
(* that stall and one upset of any kind.  HashOrder, Undelivered and       *)
(* Terminal are counterexamples to what the repository's texts say.        *)
(***************************************************************************)
EXTENDS Transfer
=============================================================================
