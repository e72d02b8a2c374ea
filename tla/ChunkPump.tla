------------------------------ MODULE ChunkPump ------------------------------
(***************************************************************************)
(* The control state of one ChunkPump (client/src/services/transfer/       *)
(* chunkPump.ts): the loop that reads a file chunk by chunk and sends each *)
(* chunk over the file channel.  Constant-level operators only; PumpFlow   *)
(* runs one pump against one channel, SenderSession runs one pump per      *)
(* file inside the accept loop.                                            *)
(*                                                                         *)
(* run() suspends only where it awaits something that is not yet there:    *)
(* the prefix being re-hashed ("hash"), a resume() ("paused"), the         *)
(* bufferedamountlow event ("full") and the file slice with its encryption *)
(* ("read").  "top" and "resumed" are the places where the continuation is *)
(* about to run; it runs as a microtask, before the next event of the page.*)
(***************************************************************************)
EXTENDS Naturals

PumpPlaces == {"hash", "top", "paused", "resumed", "full", "read",
               "completed", "cancelled"}

Pumps == [at: PumpPlaces, chunk: Nat, paused: BOOLEAN, cancelled: BOOLEAN]

\* Slip: the prefix of a resumed file is not re-hashed.
NewPumpNoPrefix(from) ==
  [at |-> "top", chunk |-> from, paused |-> FALSE, cancelled |-> FALSE]

\* The pump that run(from) starts: a resumed one re-reads the prefix first.
NewPump(from) ==
  [at |-> IF from > 0 THEN "hash" ELSE "top",
   chunk |-> from, paused |-> FALSE, cancelled |-> FALSE]

\* The continuation is queued as a microtask: no other event runs before it.
Runs(p) == p.at \in {"top", "resumed"}

Over(p) == p.at \in {"completed", "cancelled"}

PausePump(p) == [p EXCEPT !.paused = TRUE]

\* Slip: the flag is cleared but the waiters are not called.
ResumePumpNoWake(p) == [p EXCEPT !.paused = FALSE]

\* resume() wakes the waiter, which does not look at `paused` again.
ResumePump(p) ==
  [p EXCEPT !.paused = FALSE, !.at = IF @ = "paused" THEN "resumed" ELSE @]

CancelPump(p) == [ResumePump(p) EXCEPT !.cancelled = TRUE]

\* Slips of the loop head: no waitForResume, no cancelled test, i <= total, and
\* i < total - 1.
AtTopNoPause(p, total) ==
  [p EXCEPT !.at = CASE p.chunk >= total -> "completed"
                     [] p.chunk < total /\ p.cancelled -> "cancelled"
                     [] OTHER -> "resumed"]
AtTopNoCancel(p, total) ==
  [p EXCEPT !.at = IF p.chunk >= total THEN "completed" ELSE "read"]
AtTopPastEnd(p, total) ==
  [p EXCEPT !.at = IF p.chunk > total THEN "completed" ELSE "resumed"]
AtTopShort(p, total) ==
  [p EXCEPT !.at = IF p.chunk + 1 >= total THEN "completed" ELSE "resumed"]

\* The head of the for loop: the index test comes before the cancelled test.
AtTop(p, total) ==
  [p EXCEPT !.at = CASE p.chunk >= total -> "completed"
                     [] p.chunk < total /\ p.cancelled -> "cancelled"
                     [] p.chunk < total /\ ~p.cancelled /\ p.paused -> "paused"
                     [] OTHER -> "resumed"]

\* Slip: the watermark is not looked at.
AtBufferNoWait(p, full) ==
  [p EXCEPT !.at = IF p.cancelled THEN "cancelled" ELSE "read"]

\* After waitForResume: the buffer is looked at once.
AtBuffer(p, full) ==
  [p EXCEPT !.at = CASE p.cancelled -> "cancelled"
                     [] ~p.cancelled /\ full -> "full"
                     [] OTHER -> "read"]

\* Slip: the loop continues with the next index after the wait.
AfterDrainSkips(p) == [p EXCEPT !.at = "top", !.chunk = @ + 1]

\* The low event of the buffer: cancelled is looked at, paused is not.
AfterDrain(p) ==
  [p EXCEPT !.at = IF p.cancelled THEN "cancelled" ELSE "read"]

\* The slice is there: it is hashed and sent, and the loop goes round.
AfterRead(p) == [p EXCEPT !.at = "top", !.chunk = @ + 1]

AfterHash(p) == [p EXCEPT !.at = "top"]
=============================================================================
