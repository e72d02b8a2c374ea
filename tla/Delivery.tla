------------------------------ MODULE Delivery -------------------------------
(***************************************************************************)
(* What the receiving page promises about each file, whatever the network  *)
(* does: chunks are gathered until the file is concluded, once; what was   *)
(* gathered is never lost; a file is called intact only when all of it is  *)
(* there; and nothing changes a file after its conclusion.                 *)
(***************************************************************************)
EXTENDS Naturals

CONSTANTS Files, NumChunks

VARIABLES
  gathered, \* the chunks of each file
  outcome   \* pending, intact or damaged

vars == <<gathered, outcome>>

Chunks == 0..(NumChunks - 1)

Init ==
  /\ gathered = [f \in Files |-> {}]
  /\ outcome = [f \in Files |-> "pending"]

Gather(f, c) ==
  /\ outcome[f] = "pending"
  /\ gathered' = [gathered EXCEPT ![f] = @ \cup {c}]
  /\ UNCHANGED outcome

Conclude(f) ==
  /\ outcome[f] = "pending"
  /\ \/ outcome' = [outcome EXCEPT ![f] = "damaged"]
     \/ gathered[f] = Chunks /\ outcome' = [outcome EXCEPT ![f] = "intact"]
  /\ UNCHANGED gathered

Next == \E f \in Files : Conclude(f) \/ \E c \in Chunks : Gather(f, c)

Spec == Init /\ [][Next]_vars
=============================================================================
