---------------------------- MODULE Reconnection -----------------------------
(***************************************************************************)
(* The clocks of a transfer that loses its connection: the heartbeat of    *)
(* the sending page with its pong timeouts, the grace before an attempt to *)
(* reconnect and the budget of attempts (SenderSession.ts), and the time   *)
(* after which the receiving page gives up (ReceiverSession.ts).  Transfer *)
(* leaves open when a timer fires; here time passes in ticks, and a timer  *)
(* that is due fires before the next one.                                  *)
(*                                                                         *)
(* Offers and answers take no time and the signaling sockets stay open.  A *)
(* page answers a ping within a tick if the network lets it.               *)
(***************************************************************************)
EXTENDS Naturals, Sequences, SequencesExt

CONSTANTS
  PingInterval, PongTimeout, \* PING_INTERVAL_MS, PONG_TIMEOUT_MS, in ticks
  Grace,                     \* RECONNECT_GRACE_MS
  GiveUpAfter,               \* GIVE_UP_AFTER_MS
  MaxAttempts,               \* MAX_WEBRTC_RECONNECT_ATTEMPTS
  MaxPeers,                  \* bound: peer connections the sender creates
  MaxOutages                 \* bound: times the network goes away

ASSUME ClockConstants ==
  /\ {PingInterval, PongTimeout, Grace, GiveUpAfter, MaxPeers} \subseteq Nat \ {0}
  /\ {MaxAttempts, MaxOutages} \subseteq Nat

VARIABLES
  net,         \* the network carries packets between the pages
  outages,     \* outages that are left
  peer,        \* number of the sender's this.peer
  conn,        \* its connection: negotiating, open, dead (failed or closed)
  told,        \* the connection state events the sender has had of it
  unanswered,  \* pings on it without a PONG
  heartbeats,  \* for each setInterval of startHeartbeat, ticks until its next ping
  pongTimers,  \* running timeouts of pings, oldest first, in ticks
  held,        \* this.pongTimeout is the last of them
  attempts,    \* webrtcReconnectAttempts
  retries,     \* running attemptReconnect timers, oldest first
  sState,      \* transferState of the sender: TRANSFERRING, INTERRUPTED, FAILED
  rState,      \* and of the receiver
  ends,        \* ends of connections the receiver has yet to see, by number
  rDown,       \* its current connection is disconnected
  giveUp,      \* what is left of the running give-up timer, {} if none runs
  giveUpTimer, \* the field is not null
  rGone        \* the receiving page has destroyed its session

network == <<net, outages>>
heart == <<heartbeats, pongTimers, held>>
budget == <<attempts, retries, sState>>
link == <<peer, conn, told, unanswered>>
receiver == <<rState, giveUp, giveUpTimer, rDown, rGone, ends>>

\* History: ticks without a PONG of a connection that should work, ticks the
\* sending page has been INTERRUPTED; the receiving page saw its connection go and
\* has none, and since how many ticks; a ping was sent while another was unanswered.
VARIABLES deadFor, interruptedFor, waits, waitsFor, slow
history == <<deadFor, interruptedFor, waits, waitsFor, slow>>

vars == <<network, heart, budget, link, receiver, history>>

Init ==
  /\ net = TRUE /\ outages = MaxOutages
  /\ peer = 1 /\ conn = "open" /\ told = {} /\ unanswered = 0
  /\ heartbeats = <<PingInterval>> /\ pongTimers = <<>> /\ held = FALSE
  /\ attempts = 0 /\ retries = <<>>
  /\ sState = "TRANSFERRING" /\ rState = "TRANSFERRING"
  /\ ends = {} /\ rDown = FALSE /\ giveUp = {} /\ giveUpTimer = FALSE /\ rGone = FALSE
  /\ deadFor = 0 /\ interruptedFor = 0 /\ waits = FALSE /\ waitsFor = 0 /\ slow = FALSE

Works == net /\ conn = "open"
Due(timers) == timers # <<>> /\ Head(timers) = 0
-----------------------------------------------------------------------------
(* The sending page                                                        *)

\* Slip: a loss is not looked at while another is being handled.
LossIgnoredOnce == sState \in {"FAILED", "INTERRUPTED"}
LossIgnored == sState = "FAILED"

\* Slip: one attempt more.
BudgetSpentLate == attempts > MaxAttempts
BudgetSpent == attempts >= MaxAttempts

HandleConnectionLoss ==
  IF LossIgnored THEN UNCHANGED budget
  ELSE IF BudgetSpent
  THEN sState' = "FAILED" /\ UNCHANGED <<attempts, retries>>
  ELSE /\ attempts' = attempts + 1
       /\ sState' = "INTERRUPTED"
       /\ retries' = Append(retries, Grace)

\* Slip: the interval clears the timeout of the ping before.
PingTimersOne == <<PongTimeout>>
\* The timeouts after a ping: one more, and the field forgets the one before.
PingTimers == Append(pongTimers, PongTimeout)

\* The interval of peer k's heartbeat: its ping leaves over peer k, if at all.
Ping(k) ==
  /\ heartbeats[k] = 0
  /\ heartbeats' = [heartbeats EXCEPT ![k] = PingInterval]
  /\ pongTimers' = PingTimers /\ held' = TRUE
  /\ unanswered' = IF k = peer /\ conn = "open" THEN unanswered + 1 ELSE unanswered
  /\ slow' = (slow \/ unanswered' > 1)
  /\ UNCHANGED <<network, budget, peer, conn, told, receiver,
                 deadFor, interruptedFor, waits, waitsFor>>

\* Slip: the timeout is left running.
PongTimersKept == pongTimers
\* clearTimeout(this.pongTimeout): only the last ping's
PongTimers == IF held THEN Front(pongTimers) ELSE pongTimers

\* PONG
Pong ==
  /\ Works /\ unanswered > 0
  /\ unanswered' = unanswered - 1
  /\ pongTimers' = PongTimers /\ held' = FALSE
  /\ deadFor' = 0
  /\ UNCHANGED <<network, heartbeats, budget, peer, conn, told, receiver,
                 interruptedFor, waits, waitsFor, slow>>

\* A pong is overdue.
PongTimesOut ==
  /\ Due(pongTimers)
  /\ pongTimers' = Tail(pongTimers)
  /\ held' = (held /\ Len(pongTimers) > 1)
  /\ HandleConnectionLoss
  /\ UNCHANGED <<network, heartbeats, link, receiver, history>>

\* The disconnected or the failed event of this.peer; a connection that failed
\* does not come back.
StateEvent(state) ==
  /\ state \notin told
  /\ \/ conn = "open" /\ ~net
     \/ conn = "negotiating" /\ state = "failed"
     \/ conn = "dead"
  /\ told' = told \cup {state}
  /\ conn' = IF state = "failed" THEN "dead" ELSE conn
  /\ ends' = IF conn = "open" /\ state = "failed" THEN ends \cup {peer} ELSE ends
  /\ HandleConnectionLoss
  /\ UNCHANGED <<network, heart, peer, unanswered,
                 rState, giveUp, giveUpTimer, rDown, rGone, history>>

\* wirePeerHandlers starts one more heartbeat; the ones before go on.
HeartbeatsStarted == Append(heartbeats, PingInterval)

\* attemptReconnect: the old peer is closed, a new one negotiates.
AttemptReconnect ==
  /\ Due(retries) /\ peer < MaxPeers
  /\ retries' = Tail(retries)
  /\ peer' = peer + 1 /\ conn' = "negotiating" /\ told' = {} /\ unanswered' = 0
  /\ ends' = IF conn = "open" THEN ends \cup {peer} ELSE ends
  /\ heartbeats' = HeartbeatsStarted
  /\ deadFor' = 0
  /\ UNCHANGED <<network, pongTimers, held, attempts, sState,
                 rState, giveUp, giveUpTimer, rDown, rGone, interruptedFor, waits, waitsFor, slow>>

\* The channels of the new connection open: the sender offers the active file, the
\* receiver has its ChunkReceiver and accepts at once.
ChannelsReady ==
  /\ conn = "negotiating" /\ net /\ ~rGone
  /\ conn' = "open" /\ attempts' = 0 /\ sState' = "TRANSFERRING"
  /\ giveUp' = {} /\ giveUpTimer' = FALSE /\ rDown' = FALSE
  /\ rState' = "TRANSFERRING" /\ waits' = FALSE /\ waitsFor' = 0
  /\ deadFor' = 0 /\ interruptedFor' = 0
  /\ UNCHANGED <<network, heart, retries, peer, told, unanswered, rGone, ends, slow>>
-----------------------------------------------------------------------------
(* The receiving page                                                      *)

\* disconnected or failed, of the connection that is up for all the page knows or of
\* another: the timer is armed unless one was, and is not null.
LoseConnectionR(current) ==
  /\ rState' = "INTERRUPTED"
  /\ waits' = (waits \/ current)
  /\ IF giveUpTimer THEN UNCHANGED <<giveUp, giveUpTimer>>
     ELSE giveUp' = {GiveUpAfter} /\ giveUpTimer' = TRUE

\* The network is away under the open connection.
DisconnectedR ==
  /\ conn = "open" /\ ~net /\ ~rGone /\ ~rDown
  /\ rDown' = TRUE
  /\ LoseConnectionR(TRUE)
  /\ UNCHANGED <<network, heart, budget, link, rGone, ends,
                 deadFor, interruptedFor, waitsFor, slow>>

\* Slip: the timer is cleared, but the field is not set to null.
ConnectedLeavesField == giveUp' = {} /\ UNCHANGED giveUpTimer
\* connected: the timer is cleared; transferState stays what it is.
ConnectedClears == giveUp' = {} /\ giveUpTimer' = FALSE

\* The network is back before the connection failed: connected again.
ConnectedR ==
  /\ Works /\ ~rGone /\ rDown
  /\ rDown' = FALSE
  /\ ConnectedClears
  /\ waits' = FALSE /\ waitsFor' = 0
  /\ UNCHANGED <<network, heart, budget, link, rState, rGone, ends,
                 deadFor, interruptedFor, slow>>

\* The end of a connection is seen, perhaps after a later one is open: the peer of
\* an earlier OFFER is replaced, not closed, and keeps its handlers.
EndSeen(n) ==
  /\ n \in ends /\ ~rGone
  /\ ends' = ends \ {n}
  /\ LoseConnectionR(conn # "open")
  /\ UNCHANGED <<network, heart, budget, link, rDown, rGone,
                 deadFor, interruptedFor, waitsFor, slow>>

\* The error message of the timer makes the page destroy the session, and the server
\* tells the sender so: PEER_LEFT writes INTERRUPTED over any state.
GiveUp ==
  /\ 0 \in giveUp
  /\ giveUp' = {} /\ rState' = "FAILED" /\ rGone' = TRUE
  /\ conn' = "dead" /\ waits' = FALSE /\ waitsFor' = 0
  /\ sState' = "INTERRUPTED"
  /\ UNCHANGED <<network, heart, attempts, retries, peer, told, unanswered,
                 giveUpTimer, rDown, ends, deadFor, interruptedFor, slow>>
-----------------------------------------------------------------------------
(* The network and time                                                    *)

NetworkBreaks ==
  /\ net /\ outages > 0
  /\ net' = FALSE /\ outages' = outages - 1
  /\ UNCHANGED <<heart, budget, link, receiver, history>>

NetworkHeals ==
  /\ ~net /\ net' = TRUE
  /\ told' = told \ {"disconnected"}
  /\ UNCHANGED <<outages, heart, budget, peer, conn, unanswered,
                 receiver, history>>

\* Nothing is due, and whoever can answer has answered.
Settled ==
  /\ ~Due(pongTimers) /\ ~Due(retries) /\ 0 \notin giveUp
  /\ \A k \in DOMAIN heartbeats : heartbeats[k] > 0
  /\ Works => unanswered = 0 /\ ~rDown

Elapse(timers) == [i \in DOMAIN timers |-> timers[i] - 1]

Tick ==
  /\ Settled
  /\ heartbeats' = Elapse(heartbeats)
  /\ pongTimers' = Elapse(pongTimers)
  /\ retries' = Elapse(retries)
  /\ giveUp' = {n - 1 : n \in giveUp}
  /\ deadFor' = IF Works \/ sState # "TRANSFERRING" THEN 0 ELSE deadFor + 1
  /\ interruptedFor' = IF sState = "INTERRUPTED" THEN interruptedFor + 1 ELSE 0
  /\ waitsFor' = IF waits THEN waitsFor + 1 ELSE 0
  /\ UNCHANGED <<network, held, attempts, sState, link, rState, giveUpTimer, rDown, rGone, ends,
                 waits, slow>>

Next ==
  \/ (\E k \in DOMAIN heartbeats : Ping(k)) \/ Pong \/ PongTimesOut
  \/ (\E state \in {"disconnected", "failed"} : StateEvent(state))
  \/ AttemptReconnect \/ ChannelsReady
  \/ DisconnectedR \/ ConnectedR \/ GiveUp \/ (\E n \in ends : EndSeen(n))
  \/ NetworkBreaks \/ NetworkHeals \/ Tick

Spec == Init /\ [][Next]_vars
-----------------------------------------------------------------------------
\* Every variable holds a value of its type.
TypeOK ==
  /\ outages \in 0..MaxOutages /\ peer \in 1..MaxPeers
  /\ conn \in {"negotiating", "open", "dead"} /\ told \subseteq {"disconnected", "failed"}
  /\ heartbeats \in Seq(0..PingInterval) /\ pongTimers \in Seq(0..PongTimeout)
  /\ retries \in Seq(0..Grace) /\ attempts \in 0..MaxAttempts
  /\ giveUp \in {{}} \cup {{n} : n \in 0..GiveUpAfter}
  /\ {sState, rState} \subseteq {"TRANSFERRING", "INTERRUPTED", "FAILED"}
  /\ {net, held, giveUpTimer, rDown, rGone, waits, slow} \subseteq BOOLEAN
  /\ {unanswered, deadFor, interruptedFor, waitsFor} \subseteq Nat
  /\ ends \subseteq 1..MaxPeers
  /\ held => pongTimers # <<>>

\* A connection that carries nothing is noticed within one interval and one timeout,
\* even without any event of the peer connection, however many heartbeats run.
LossIsNoticed == deadFor <= PingInterval + PongTimeout

\* Over the first connection, as long as every ping is answered before the next one, no
\* timeout of the heartbeat reports a loss of a connection that works.
NoFalseAlarm ==
  [][peer = 1 /\ ~slow /\ Works /\ unanswered = 0 => attempts' = attempts]_vars

\* INTERRUPTED does not last: the sending page has a connection again or gives up
\* within the time that its budget of attempts takes at most.
InterruptionEnds ==
  interruptedFor <= (MaxAttempts + 1) * (PingInterval + PongTimeout + Grace)

\* A receiving page that saw its connection go waits no longer than its timer for
\* another, whatever ends of earlier connections it sees in between.
WaitingEnds == waitsFor <= GiveUpAfter
=============================================================================
