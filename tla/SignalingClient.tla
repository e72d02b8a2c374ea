--------------------------- MODULE SignalingClient ---------------------------
(***************************************************************************)
(* One SignalingClient (client/src/services/signaling/SignalingClient.ts): *)
(* its connection state, the attempts and the timer of its reconnects and  *)
(* the socket it sends on.  Constant-level operators only; Pairing runs    *)
(* the clients of two pages against the server.                            *)
(***************************************************************************)
EXTENDS Naturals

CONSTANTS
  MaxReconnects, \* MAX_RECONNECT_ATTEMPTS
  Sockets, NoSocket

\* A planned reconnect is one that was counted, of a client that is not closed.
Clients ==
  {client \in [state: {"idle", "connecting", "open", "reconnecting", "closed"},
               attempts: 0..MaxReconnects, manuallyClosed: BOOLEAN, timer: BOOLEAN,
               socket: Sockets \cup {NoSocket}] :
     client.timer => client.attempts > 0 /\ ~client.manuallyClosed}

NewClient ==
  [state |-> "idle", attempts |-> 0, manuallyClosed |-> FALSE, timer |-> FALSE,
   socket |-> NoSocket]

\* connect(), before it opens the socket
Connecting(client) == [client EXCEPT !.manuallyClosed = FALSE]

\* openSocket: also what the reconnect timer runs
OpenSocket(client, s) ==
  [client EXCEPT !.state = IF client.attempts > 0 THEN "reconnecting" ELSE "connecting",
                 !.socket = s, !.timer = FALSE]

OnOpen(client) == [client EXCEPT !.attempts = 0, !.state = "open"]

\* The delay grows with the attempts; when it passes is left open.
ScheduleReconnect(client) ==
  IF client.attempts >= MaxReconnects THEN [client EXCEPT !.state = "closed"]
  ELSE [client EXCEPT !.state = "reconnecting", !.attempts = @ + 1, !.timer = TRUE]

\* The close event, of whichever socket
OnClose(client) ==
  IF client.manuallyClosed THEN [client EXCEPT !.state = "closed"]
  ELSE ScheduleReconnect(client)

\* Slip: the reconnect timer is not cleared.
CloseKeepsTimer(client) == [client EXCEPT !.manuallyClosed = TRUE, !.socket = NoSocket]

\* close(), which drops the listeners too
Close(client) ==
  [client EXCEPT !.manuallyClosed = TRUE, !.timer = FALSE, !.socket = NoSocket]
=============================================================================
