----------------------------- MODULE MCStorage -------------------------------
(***************************************************************************)
(* Storage for TLC.  Flow: one connection, two files of three chunks, two  *)
(* pauses, a rejected step, encryption and one press of Clear Temporary    *)
(* Data.  Reconnect: two files of two chunks in the database, a loss that  *)
(* is real or only reported, and a second connection.                      *)
(***************************************************************************)
EXTENDS Storage
=============================================================================
