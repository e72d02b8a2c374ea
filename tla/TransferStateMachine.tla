------------------------ MODULE TransferStateMachine -------------------------
(***************************************************************************)
(* The table of client/src/services/transfer/stateMachine.ts: which        *)
(* transferState may follow which.  The class that holds it is constructed *)
(* by its test only; the sessions write the store without asking it, so    *)
(* the table is what Transfer compares their writes with.                  *)
(***************************************************************************)
Transitions ==
  [IDLE                |-> {"PREPARING"},
   PREPARING           |-> {"WAITING_FOR_PEER", "FAILED", "CANCELLED"},
   WAITING_FOR_PEER    |-> {"CONNECTING", "EXPIRED", "CANCELLED", "FAILED"},
   CONNECTING          |-> {"AWAITING_ACCEPTANCE", "FAILED", "INTERRUPTED", "CANCELLED"},
   AWAITING_ACCEPTANCE |-> {"TRANSFERRING", "CANCELLED", "FAILED", "INTERRUPTED"},
   TRANSFERRING        |-> {"PAUSED", "VERIFYING", "COMPLETED", "INTERRUPTED", "CANCELLED",
                            "FAILED"},
   PAUSED              |-> {"TRANSFERRING", "CANCELLED", "FAILED", "INTERRUPTED"},
   VERIFYING           |-> {"COMPLETED", "FAILED"},
   INTERRUPTED         |-> {"CONNECTING", "FAILED", "CANCELLED", "EXPIRED"},
   COMPLETED           |-> {},
   CANCELLED           |-> {},
   FAILED              |-> {},
   EXPIRED             |-> {}]

Terminal == {s \in DOMAIN Transitions : Transitions[s] = {}}

\* Slip: who completes has verified first, the sender too.
CanTransitionVerified(from, to) ==
  to \in Transitions[from] /\ (to = "COMPLETED" => from = "VERIFYING")

CanTransition(from, to) == to \in Transitions[from]
=============================================================================
