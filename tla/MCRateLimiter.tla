---------------------------- MODULE MCRateLimiter ----------------------------
(***************************************************************************)
(* RateLimiter for TLC: one address, a window of three ticks, two hits     *)
(* allowed in it, three hits at one time, and a clock of seven ticks, which *)
(* passes two windows.  Addresses share nothing, so one stands for all.    *)
(***************************************************************************)
EXTENDS RateLimiter
=============================================================================
