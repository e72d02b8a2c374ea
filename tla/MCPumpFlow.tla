----------------------------- MODULE MCPumpFlow ------------------------------
(***************************************************************************)
(* PumpFlow with a file of five chunks of two bytes, of which an earlier    *)
(* connection has sent one, a high watermark of five bytes (so the pump has *)
(* to wait for the channel at least once) and a low one of two.             *)
(***************************************************************************)
EXTENDS PumpFlow
=============================================================================
