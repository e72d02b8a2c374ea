------------------------- MODULE Reconnection_proofs -------------------------
(***************************************************************************)
(* Proofs about the clocks of a lost connection, for all lengths of the    *)
(* intervals and timeouts, any number of attempts, peers and outages.      *)
(***************************************************************************)
EXTENDS Reconnection, SequenceTheorems, TLAPS

Ascending(s) == \A i, j \in DOMAIN s : i <= j => s[i] <= s[j]

\* A later timer of a kind does not fire before an earlier one, and every peer
\* connection has started a heartbeat.
Ordered ==
  /\ Ascending(pongTimers) /\ Ascending(retries)
  /\ Len(heartbeats) = peer

\* A connection that carries nothing has a ping ahead of it, or a timeout running that
\* no PONG clears.
Watched ==
  /\ deadFor <= PingInterval + PongTimeout
  /\ sState = "TRANSFERRING" =>
       \/ deadFor + heartbeats[1] <= PingInterval
       \/ \E i \in DOMAIN pongTimers : deadFor + pongTimers[i] <= PingInterval + PongTimeout

\* The give-up timer of a page that waits is running, and it was not armed later than
\* the wait began; until the page is gone the field says whether one runs.
Bounded ==
  /\ waits => ~rGone /\ \E n \in giveUp : waitsFor + n <= GiveUpAfter
  /\ ~waits => waitsFor = 0
  /\ ~rGone => (giveUpTimer <=> giveUp # {})
  /\ rGone => giveUp = {}

\* Over the first connection, while pings are answered in time, the one timeout that
\* may run is the one that the PONG on its way clears.
Matched ==
  /\ conn = "negotiating" => peer > 1
  /\ peer = 1 /\ ~slow /\ conn = "open" =>
       /\ Len(pongTimers) <= unanswered /\ unanswered <= 1
       /\ held \/ pongTimers = <<>>

\* One attempt takes its grace, and what the heartbeat needs to report it as failed.
Round == PingInterval + PongTimeout + Grace

\* The attempts so far have their rounds, and so has a receiving page that left: its
\* PEER_LEFT makes even a page that has given up INTERRUPTED.
Allowed == (attempts + (IF rGone THEN 1 ELSE 0)) * Round

\* An INTERRUPTED page has its next attempt planned, or its connection cannot answer a
\* ping and the heartbeat will say so, within the rounds allowed so far.
Settling ==
  /\ sState = "TRANSFERRING" => interruptedFor = 0
  /\ sState = "FAILED" => attempts = MaxAttempts /\ interruptedFor <= Allowed
  /\ sState = "INTERRUPTED" =>
       \/ retries # <<>> /\ interruptedFor + retries[1] + PingInterval + PongTimeout <= Allowed
       \/ conn # "open" /\ interruptedFor + heartbeats[1] + PongTimeout <= Allowed
       \/ conn # "open" /\ \E i \in DOMAIN pongTimers : interruptedFor + pongTimers[i] <= Allowed

IInv == TypeOK /\ Ordered /\ Watched /\ Bounded /\ Matched /\ Settling
-----------------------------------------------------------------------------
(* Timers                                                                  *)

\* Some timer runs iff there is a first.
LEMMA SomeTimer ==
  ASSUME NEW n, NEW s \in Seq(n)
  PROVE  /\ Len(s) \in Nat /\ DOMAIN s = 1..Len(s)
         /\ s # <<>> <=> Len(s) > 0
BY EmptySeq, LenProperties

\* One more timer that runs as long as any of them may.
LEMMA AppendKeeps ==
  ASSUME NEW n \in Nat, NEW s \in Seq(0..n), Ascending(s)
  PROVE  /\ Append(s, n) \in Seq(0..n) /\ Ascending(Append(s, n))
         /\ Len(Append(s, n)) = Len(s) + 1
         /\ DOMAIN Append(s, n) = 1..(Len(s) + 1)
         /\ \A i \in DOMAIN s : Append(s, n)[i] = s[i]
         /\ Append(s, n)[Len(s) + 1] = n
BY AppendProperties DEF Ascending

\* The first timer is taken away.
LEMMA TailKeeps ==
  ASSUME NEW n \in Nat, NEW s \in Seq(0..n), s # <<>>, Ascending(s)
  PROVE  /\ Tail(s) \in Seq(0..n) /\ Ascending(Tail(s)) /\ Len(Tail(s)) = Len(s) - 1
<1>1. /\ Tail(s) \in Seq(0..n) /\ Len(Tail(s)) = Len(s) - 1
      /\ \A i \in 1..Len(Tail(s)) : Tail(s)[i] = s[i + 1]
  BY HeadTailProperties
<1>2. DOMAIN Tail(s) = 1..(Len(s) - 1) /\ DOMAIN s = 1..Len(s) /\ Len(s) \in Nat
  BY <1>1, LenProperties
<1>3. \A i \in 1..Len(s) : s[i] \in 0..n
  BY ElementOfSeq
<1> DEFINE t == Tail(s)
<1>4. DOMAIN t = 1..(Len(s) - 1) /\ \A i \in 1..(Len(s) - 1) : t[i] = s[i + 1]
  BY <1>1, <1>2
<1> HIDE DEF t
<1>5. ASSUME NEW i \in DOMAIN t, NEW j \in DOMAIN t, i <= j PROVE t[i] <= t[j]
  <2>1. i + 1 \in DOMAIN s /\ j + 1 \in DOMAIN s /\ i + 1 <= j + 1
    BY <1>2, <1>4, <1>5
  <2>2. s[i + 1] <= s[j + 1]
    BY <2>1 DEF Ascending
  <2>3. t[i] = s[i + 1] /\ t[j] = s[j + 1]
    BY <1>4
  <2> QED
    BY <2>2, <2>3
<1>6. Ascending(t)
  BY <1>5 DEF Ascending
<1> QED
  BY <1>1, <1>6 DEF t

\* The last timer is taken away.
LEMMA FrontKeeps ==
  ASSUME NEW n \in Nat, NEW s \in Seq(0..n), s # <<>>, Ascending(s)
  PROVE  /\ Front(s) \in Seq(0..n) /\ Ascending(Front(s)) /\ Len(Front(s)) = Len(s) - 1
<1>1. Len(s) \in Nat \ {0} /\ DOMAIN s = 1..Len(s) /\ \A i \in 1..Len(s) : s[i] \in 0..n
  BY EmptySeq, LenProperties, ElementOfSeq
<1>2. /\ Front(s) \in Seq(0..n) /\ Len(Front(s)) = Len(s) - 1
      /\ \A i \in 1..(Len(s) - 1) : Front(s)[i] = s[i]
  BY <1>1, SubSeqProperties DEF Front
<1> DEFINE t == Front(s)
<1>3. DOMAIN t = 1..(Len(s) - 1)
  BY <1>2, LenProperties
<1>4. \A i \in 1..(Len(s) - 1) : t[i] = s[i]
  BY <1>2
<1> HIDE DEF t
<1>5. Ascending(t)
  BY <1>1, <1>3, <1>4 DEF Ascending
<1> QED
  BY <1>2, <1>5 DEF t

\* A tick passes while no timer is due.
LEMMA ElapseKeeps ==
  ASSUME NEW n \in Nat, NEW s \in Seq(0..n), Ascending(s), ~Due(s)
  PROVE  /\ Elapse(s) \in Seq(0..n) /\ Ascending(Elapse(s))
         /\ DOMAIN Elapse(s) = DOMAIN s /\ Len(Elapse(s)) = Len(s)
         /\ \A i \in DOMAIN s : Elapse(s)[i] = s[i] - 1
<1>1. Len(s) \in Nat /\ DOMAIN s = 1..Len(s) /\ \A i \in 1..Len(s) : s[i] \in 0..n
  BY LenProperties, ElementOfSeq
<1>2. \A i \in 1..Len(s) : s[i] > 0
  BY <1>1 DEF Due, Ascending
<1>3. \A i \in 1..Len(s) : s[i] - 1 \in 0..n
  BY <1>1, <1>2
<1>4. Elapse(s) \in [1..Len(s) -> 0..n]
  BY <1>1, <1>3 DEF Elapse
<1>5. Elapse(s) \in Seq(0..n) /\ Len(Elapse(s)) = Len(s)
  BY <1>1, <1>4
<1> DEFINE t == Elapse(s)
<1>6. DOMAIN t = 1..Len(s) /\ \A i \in 1..Len(s) : t[i] = s[i] - 1
  BY <1>1 DEF Elapse
<1> HIDE DEF t
<1>7. Ascending(t)
  BY <1>1, <1>6 DEF Ascending
<1> QED
  BY <1>1, <1>5, <1>6, <1>7 DEF t
-----------------------------------------------------------------------------
(* The initial state and the steps                                         *)

LEMMA InitInv == Init => IInv
<1> SUFFICES ASSUME Init PROVE IInv
  OBVIOUS
<1> USE ClockConstants
<1>1. heartbeats \in Seq(0..PingInterval) /\ Len(heartbeats) = 1 /\ heartbeats[1] = PingInterval
  BY DEF Init
<1>2. pongTimers \in Seq(0..PongTimeout) /\ retries \in Seq(0..Grace)
  BY EmptySeq DEF Init
<1>3. TypeOK
  <2>1. giveUp \in {{}} \cup {{n} : n \in 0..GiveUpAfter} /\ giveUpTimer = FALSE
    BY DEF Init
  <2>2. {net, held, giveUpTimer, rDown, rGone, waits, slow} \subseteq BOOLEAN
    BY DEF Init
  <2>3. /\ outages \in 0..MaxOutages /\ peer \in 1..MaxPeers /\ attempts \in 0..MaxAttempts
        /\ {unanswered, deadFor, interruptedFor, waitsFor} \subseteq Nat
    BY DEF Init
  <2> QED
    BY <1>1, <1>2, <2>1, <2>2, <2>3 DEF Init, TypeOK
<1>4. Ordered /\ Watched /\ Bounded /\ Matched /\ Settling
  BY <1>1 DEF Init, Ordered, Ascending, Watched, Bounded, Matched, Settling
<1> QED
  BY <1>3, <1>4 DEF IInv

\* What the timers of a state are.
LEMMA TimerValues ==
  ASSUME TypeOK, Ordered
  PROVE  /\ PingInterval \in Nat /\ PongTimeout \in Nat /\ Grace \in Nat /\ MaxAttempts \in Nat
         /\ pongTimers \in Seq(0..PongTimeout) /\ retries \in Seq(0..Grace)
         /\ Len(heartbeats) \in Nat \ {0} /\ DOMAIN heartbeats = 1..Len(heartbeats)
         /\ heartbeats[1] \in 0..PingInterval
         /\ \A i \in DOMAIN pongTimers : pongTimers[i] \in 0..PongTimeout
         /\ retries # <<>> => retries[1] \in 0..Grace
<1>1. PingInterval \in Nat /\ PongTimeout \in Nat /\ Grace \in Nat /\ MaxAttempts \in Nat
  BY ClockConstants
<1>2. /\ pongTimers \in Seq(0..PongTimeout) /\ retries \in Seq(0..Grace)
      /\ heartbeats \in Seq(0..PingInterval) /\ peer \in Nat \ {0} /\ Len(heartbeats) = peer
  BY ClockConstants DEF TypeOK, Ordered
<1>3. Len(heartbeats) \in Nat \ {0} /\ DOMAIN heartbeats = 1..Len(heartbeats)
  BY <1>2, SomeTimer
<1>4. heartbeats[1] \in 0..PingInterval
  <2>1. 1 \in 1..Len(heartbeats)
    BY <1>3
  <2> QED
    BY <1>2, <2>1, ElementOfSeq
<1>5. \A i \in DOMAIN pongTimers : pongTimers[i] \in 0..PongTimeout
  BY <1>2, SomeTimer, ElementOfSeq
<1>6. ASSUME retries # <<>> PROVE retries[1] \in 0..Grace
  <2>1. Len(retries) \in Nat /\ Len(retries) > 0
    BY <1>2, <1>6, SomeTimer
  <2>2. 1 \in 1..Len(retries)
    BY <2>1
  <2> QED
    BY <1>2, <2>2, ElementOfSeq
<1> QED
  BY <1>1, <1>2, <1>3, <1>4, <1>5, <1>6

\* What a step does to the timers of the sending page keeps their order and range.
LEMMA TimersKept ==
  ASSUME TypeOK, Ordered, [Next]_vars
  PROVE  /\ heartbeats' \in Seq(0..PingInterval)
         /\ pongTimers' \in Seq(0..PongTimeout)
         /\ retries' \in Seq(0..Grace)
         /\ Ordered'
<1> USE ClockConstants
<1>0. /\ heartbeats \in Seq(0..PingInterval) /\ pongTimers \in Seq(0..PongTimeout)
      /\ retries \in Seq(0..Grace) /\ peer \in Nat
      /\ held => pongTimers # <<>>
      /\ DOMAIN heartbeats = 1..Len(heartbeats)
  BY LenProperties DEF TypeOK
<1>a. HandleConnectionLoss => retries' \in Seq(0..Grace) /\ Ascending(retries')
  <2>1. HandleConnectionLoss => retries' \in {retries, Append(retries, Grace)}
    BY DEF HandleConnectionLoss, budget
  <2>2. Append(retries, Grace) \in Seq(0..Grace) /\ Ascending(Append(retries, Grace))
    BY <1>0, AppendKeeps DEF Ordered
  <2> QED
    BY <1>0, <2>1, <2>2 DEF Ordered
<1>1. ASSUME NEW k \in DOMAIN heartbeats, Ping(k)
      PROVE  /\ heartbeats' \in Seq(0..PingInterval) /\ pongTimers' \in Seq(0..PongTimeout)
             /\ retries' \in Seq(0..Grace) /\ Ordered'
  <2>1. heartbeats' \in Seq(0..PingInterval) /\ Len(heartbeats') = Len(heartbeats)
    BY <1>0, <1>1, ExceptSeq DEF Ping
  <2>2. pongTimers' \in Seq(0..PongTimeout) /\ Ascending(pongTimers')
    BY <1>0, <1>1, AppendKeeps DEF Ping, PingTimers, Ordered
  <2> QED
    BY <1>0, <1>1, <2>1, <2>2 DEF Ping, budget, Ordered
<1>2. CASE Pong
  <2>1. pongTimers' \in Seq(0..PongTimeout) /\ Ascending(pongTimers')
    BY <1>0, <1>2, FrontKeeps DEF Pong, PongTimers, Ordered
  <2> QED
    BY <1>0, <1>2, <2>1 DEF Pong, budget, Ordered
<1>3. CASE PongTimesOut
  <2>1. pongTimers' \in Seq(0..PongTimeout) /\ Ascending(pongTimers')
    BY <1>0, <1>3, TailKeeps DEF PongTimesOut, Due, Ordered
  <2> QED
    BY <1>0, <1>a, <1>3, <2>1 DEF PongTimesOut, link, Ordered
<1>4. ASSUME NEW state, StateEvent(state)
      PROVE  /\ heartbeats' \in Seq(0..PingInterval) /\ pongTimers' \in Seq(0..PongTimeout)
             /\ retries' \in Seq(0..Grace) /\ Ordered'
  BY <1>0, <1>a, <1>4 DEF StateEvent, heart, Ordered
<1>5. CASE AttemptReconnect
  <2>1. /\ heartbeats' \in Seq(0..PingInterval)
        /\ Len(heartbeats') = Len(heartbeats) + 1
    BY <1>0, <1>5, AppendProperties DEF AttemptReconnect, HeartbeatsStarted
  <2>2. retries' \in Seq(0..Grace) /\ Ascending(retries')
    BY <1>0, <1>5, TailKeeps DEF AttemptReconnect, Due, Ordered
  <2> QED
    BY <1>0, <1>5, <2>1, <2>2 DEF AttemptReconnect, Ordered
<1>6. CASE Tick
  <2>1. ~Due(pongTimers) /\ ~Due(retries) /\ \A k \in DOMAIN heartbeats : heartbeats[k] > 0
    BY <1>6 DEF Tick, Settled
  <2>2. pongTimers' \in Seq(0..PongTimeout) /\ Ascending(pongTimers')
    BY <1>0, <1>6, <2>1, ElapseKeeps DEF Tick, Ordered
  <2>3. retries' \in Seq(0..Grace) /\ Ascending(retries')
    BY <1>0, <1>6, <2>1, ElapseKeeps DEF Tick, Ordered
  <2>4. heartbeats' \in Seq(0..PingInterval) /\ Len(heartbeats') = Len(heartbeats)
    <3>1. Len(heartbeats) \in Nat /\ \A k \in 1..Len(heartbeats) : heartbeats[k] \in 0..PingInterval
      BY <1>0, LenProperties, ElementOfSeq
    <3>2. \A k \in 1..Len(heartbeats) : heartbeats[k] - 1 \in 0..PingInterval
      <4>1. \A k \in 1..Len(heartbeats) : heartbeats[k] > 0
        BY <1>0, <2>1
      <4> QED
        BY <3>1, <4>1
    <3>3. heartbeats' \in [1..Len(heartbeats) -> 0..PingInterval]
      BY <1>0, <1>6, <3>2 DEF Tick, Elapse
    <3> QED
      BY <3>1, <3>3
  <2> QED
    BY <1>6, <2>2, <2>3, <2>4 DEF Tick, link, Ordered
<1>7. CASE ChannelsReady \/ NetworkBreaks \/ NetworkHeals
  BY <1>0, <1>7 DEF ChannelsReady, NetworkBreaks, NetworkHeals, heart, budget, link, Ordered
<1>8. CASE DisconnectedR \/ ConnectedR \/ GiveUp \/ \E n \in ends : EndSeen(n)
  BY <1>0, <1>8 DEF DisconnectedR, ConnectedR, GiveUp, EndSeen, heart, budget, link, Ordered
<1>9. CASE UNCHANGED vars
  BY <1>0, <1>9 DEF vars, heart, budget, link, Ordered
<1> QED
  BY <1>1, <1>2, <1>3, <1>4, <1>5, <1>6, <1>7, <1>8, <1>9 DEF Next

\* A lost connection is answered with a state of the transfer and within the budget.
LEMMA LossKeepsTypes ==
  ASSUME HandleConnectionLoss, attempts \in 0..MaxAttempts,
         sState \in {"TRANSFERRING", "INTERRUPTED", "FAILED"}
  PROVE  /\ attempts' \in 0..MaxAttempts
         /\ sState' \in {"TRANSFERRING", "INTERRUPTED", "FAILED"}
BY ClockConstants DEF HandleConnectionLoss, LossIgnored, BudgetSpent, budget

\* What a step does to everything else keeps its type.
LEMMA TypesKept ==
  ASSUME TypeOK, Ordered, [Next]_vars
  PROVE  TypeOK'
<1> USE ClockConstants
<1> DEFINE
     Sender ==
       /\ outages \in 0..MaxOutages /\ peer \in 1..MaxPeers
       /\ conn \in {"negotiating", "open", "dead"} /\ told \subseteq {"disconnected", "failed"}
       /\ attempts \in 0..MaxAttempts
       /\ sState \in {"TRANSFERRING", "INTERRUPTED", "FAILED"}
       /\ ends \subseteq 1..MaxPeers
     Receiver ==
       /\ giveUp = {} \/ \E n \in 0..GiveUpAfter : giveUp = {n}
       /\ rState \in {"TRANSFERRING", "INTERRUPTED", "FAILED"}
     Flags ==
       /\ net \in BOOLEAN /\ held \in BOOLEAN /\ giveUpTimer \in BOOLEAN /\ rDown \in BOOLEAN
       /\ rGone \in BOOLEAN /\ waits \in BOOLEAN /\ slow \in BOOLEAN
     Counts ==
       unanswered \in Nat /\ deadFor \in Nat /\ interruptedFor \in Nat /\ waitsFor \in Nat
<1>0. /\ Sender /\ Receiver /\ Flags /\ Counts
      /\ pongTimers \in Seq(0..PongTimeout)
      /\ held => pongTimers # <<>>
  BY DEF TypeOK
<1>1. Sender'
  <2>1. HandleConnectionLoss => attempts' \in 0..MaxAttempts /\ sState' \in {"TRANSFERRING", "INTERRUPTED", "FAILED"}
    BY <1>0, LossKeepsTypes
  <2>2. ASSUME NEW state \in {"disconnected", "failed"}, StateEvent(state) PROVE Sender'
    BY <1>0, <2>1, <2>2 DEF StateEvent, network
  <2>3. CASE PongTimesOut
    BY <1>0, <2>1, <2>3 DEF PongTimesOut, network, link, receiver
  <2>4. CASE AttemptReconnect
    BY <1>0, <2>4 DEF AttemptReconnect, network
  <2>5. CASE ChannelsReady
    BY <1>0, <2>5 DEF ChannelsReady, network
  <2>10. CASE Tick
    BY <1>0, <2>10 DEF Tick, network, link
  <2>8. CASE NetworkBreaks
    <3>1. outages' \in 0..MaxOutages
      BY <1>0, <2>8 DEF NetworkBreaks
    <3> QED
      BY <1>0, <2>8, <3>1 DEF NetworkBreaks, budget, link, receiver
  <2>9. CASE NetworkHeals
    BY <1>0, <2>9 DEF NetworkHeals, budget, receiver
  <2>6. CASE DisconnectedR \/ ConnectedR \/ GiveUp \/ \E n \in ends : EndSeen(n)
    BY <1>0, <2>6 DEF DisconnectedR, ConnectedR, GiveUp, EndSeen, network, budget, link
  <2>7. CASE (\E k \in DOMAIN heartbeats : Ping(k)) \/ Pong \/ UNCHANGED vars
    BY <1>0, <2>7 DEF Ping, Pong, vars, network, budget, link, receiver
  <2> QED
    BY <2>2, <2>3, <2>4, <2>5, <2>6, <2>7, <2>8, <2>9, <2>10 DEF Next
<1>2. Receiver'
  <2>1. ASSUME NEW b, LoseConnectionR(b) PROVE Receiver'
    <3>1. rState' = "INTERRUPTED" /\ (giveUp' = giveUp \/ giveUp' = {GiveUpAfter})
      BY <2>1 DEF LoseConnectionR
    <3>2. GiveUpAfter \in 0..GiveUpAfter
      OBVIOUS
    <3> QED
      BY <1>0, <3>1, <3>2
  <2>2. CASE DisconnectedR \/ \E n \in ends : EndSeen(n)
    BY <2>1, <2>2 DEF DisconnectedR, EndSeen
  <2>3. CASE ConnectedR \/ ChannelsReady \/ GiveUp
    BY <1>0, <2>3 DEF ConnectedR, ConnectedClears, ChannelsReady, GiveUp
  <2>4. CASE Tick
    <3>1. giveUp' = {n - 1 : n \in giveUp} /\ 0 \notin giveUp /\ rState' = rState
      BY <2>4 DEF Tick, Settled
    <3>2. CASE giveUp = {}
      BY <1>0, <3>1, <3>2
    <3>3. ASSUME NEW n \in 0..GiveUpAfter, giveUp = {n} PROVE giveUp' = {n - 1} /\ n - 1 \in 0..GiveUpAfter
      BY <3>1, <3>3
    <3> QED
      BY <1>0, <3>1, <3>2, <3>3
  <2>5. CASE UNCHANGED <<rState, giveUp>>
    BY <1>0, <2>5
  <2> QED
    BY <2>2, <2>3, <2>4, <2>5 DEF Next, Ping, Pong, PongTimesOut, StateEvent, AttemptReconnect,
       NetworkBreaks, NetworkHeals, receiver, vars
<1>3. Flags'
  <2>1. CASE (\E k \in DOMAIN heartbeats : Ping(k)) \/ Pong \/ PongTimesOut
             \/ \E state \in {"disconnected", "failed"} : StateEvent(state)
    BY <1>0, <2>1 DEF Ping, Pong, PongTimesOut, StateEvent, network, heart, receiver, history
  <2>2. CASE AttemptReconnect \/ ChannelsReady \/ NetworkBreaks \/ NetworkHeals \/ Tick
    BY <1>0, <2>2 DEF AttemptReconnect, ChannelsReady, NetworkBreaks, NetworkHeals, Tick,
       network, heart, receiver, history
  <2>3. CASE DisconnectedR \/ ConnectedR \/ GiveUp \/ \E n \in ends : EndSeen(n)
    BY <1>0, <2>3 DEF DisconnectedR, ConnectedR, ConnectedClears, GiveUp, EndSeen, LoseConnectionR,
       network, heart
  <2> QED
    BY <1>0, <2>1, <2>2, <2>3 DEF Next, vars, network, heart, receiver, history
<1>4. Counts'
  <2>1. CASE (\E k \in DOMAIN heartbeats : Ping(k)) \/ Pong
    <3>1. unanswered' \in {unanswered, unanswered + 1, unanswered - 1} /\ deadFor' \in {deadFor, 0}
          /\ (unanswered' = unanswered - 1 => unanswered > 0)
          /\ interruptedFor' = interruptedFor /\ waitsFor' = waitsFor
      BY <1>0, <2>1 DEF Ping, Pong
    <3> QED
      BY <1>0, <3>1
  <2>2. CASE ChannelsReady \/ AttemptReconnect \/ Tick
    <3>1. unanswered' = unanswered \/ unanswered' = 0
      BY <2>2 DEF ChannelsReady, AttemptReconnect, Tick, link
    <3>2. deadFor' = deadFor \/ deadFor' = 0 \/ deadFor' = deadFor + 1
      BY <2>2 DEF ChannelsReady, AttemptReconnect, Tick
    <3>3. interruptedFor' = interruptedFor \/ interruptedFor' = 0 \/ interruptedFor' = interruptedFor + 1
      BY <2>2 DEF ChannelsReady, AttemptReconnect, Tick
    <3>4. waitsFor' = waitsFor \/ waitsFor' = 0 \/ waitsFor' = waitsFor + 1
      BY <2>2 DEF ChannelsReady, AttemptReconnect, Tick
    <3>5. /\ unanswered \in Nat /\ deadFor \in Nat
          /\ interruptedFor \in Nat /\ waitsFor \in Nat
      BY <1>0
    <3>6. unanswered' \in Nat /\ deadFor' \in Nat
      BY <3>1, <3>2, <3>5
    <3>7. interruptedFor' \in Nat /\ waitsFor' \in Nat
      BY <3>3, <3>4, <3>5
    <3> QED
      BY <3>6, <3>7
  <2>3. CASE DisconnectedR \/ ConnectedR \/ GiveUp \/ \E n \in ends : EndSeen(n)
    <3>1. UNCHANGED <<unanswered, deadFor, interruptedFor>> /\ (waitsFor' = waitsFor \/ waitsFor' = 0)
      BY <2>3 DEF DisconnectedR, ConnectedR, GiveUp, EndSeen, link
    <3> QED
      BY <1>0, <3>1
  <2>4. CASE /\ unanswered' = unanswered /\ deadFor' = deadFor
             /\ interruptedFor' = interruptedFor /\ waitsFor' = waitsFor
    BY <1>0, <2>4
  <2> QED
    BY <2>1, <2>2, <2>3, <2>4 DEF Next, PongTimesOut, StateEvent, NetworkBreaks, NetworkHeals,
       link, history, vars
<1>5. held' => pongTimers' # <<>>
  <2>1. ASSUME NEW k \in DOMAIN heartbeats, Ping(k) PROVE pongTimers' # <<>>
    <3>1. PongTimeout \in 0..PongTimeout /\ pongTimers' = Append(pongTimers, PongTimeout)
      BY <2>1 DEF Ping, PingTimers
    <3>2. Len(pongTimers) \in Nat /\ Len(pongTimers') = Len(pongTimers) + 1
      BY <1>0, <3>1, AppendProperties, SomeTimer
    <3>3. Len(<<>>) = 0
      OBVIOUS
    <3> QED
      BY <3>2, <3>3
  <2>2. CASE PongTimesOut
    <3>1. pongTimers # <<>> /\ Len(Tail(pongTimers)) = Len(pongTimers) - 1 /\ Len(pongTimers) \in Nat
      BY <1>0, <2>2, HeadTailProperties DEF PongTimesOut, Due
    <3>2. held' => Len(Tail(pongTimers)) > 0
      <4>1. held' = (held /\ Len(pongTimers) > 1)
        BY <2>2 DEF PongTimesOut
      <4>2. held' => Len(pongTimers) > 1
        BY <4>1
      <4> QED
        BY <3>1, <4>2
    <3>3. Tail(pongTimers) \in Seq(0..PongTimeout)
      BY <1>0, <3>1, TailKeeps DEF Ordered
    <3>4. Len(Tail(pongTimers)) > 0 => Tail(pongTimers) # <<>>
      BY <3>3, SomeTimer
    <3> QED
      BY <2>2, <3>2, <3>4 DEF PongTimesOut
  <2>3. CASE Tick
    <3>1. held' = held /\ DOMAIN pongTimers' = DOMAIN pongTimers
      BY <2>3 DEF Tick, Elapse
    <3>2. DOMAIN pongTimers = 1..Len(pongTimers) /\ Len(pongTimers) \in Nat
      BY <1>0, SomeTimer
    <3>3. ASSUME held PROVE 1 \in 1..Len(pongTimers)
      <4>1. Len(pongTimers) > 0
        BY <1>0, <3>3, SomeTimer
      <4> QED
        BY <3>2, <4>1
    <3>4. 1 \notin DOMAIN <<>>
      OBVIOUS
    <3> QED
      BY <3>1, <3>2, <3>3, <3>4
  <2>4. CASE Pong
    BY <2>4 DEF Pong
  <2>5. CASE UNCHANGED heart
    BY <1>0, <2>5 DEF heart
  <2>6. CASE UNCHANGED <<pongTimers, held>>
    BY <1>0, <2>6
  <2> QED
    BY <2>1, <2>2, <2>3, <2>4, <2>5, <2>6 DEF Next, vars, StateEvent, AttemptReconnect,
       ChannelsReady, DisconnectedR, ConnectedR, GiveUp, EndSeen, NetworkBreaks, NetworkHeals
<1>6. heartbeats' \in Seq(0..PingInterval) /\ pongTimers' \in Seq(0..PongTimeout) /\ retries' \in Seq(0..Grace)
  BY TimersKept
<1> QED
  BY <1>1, <1>2, <1>3, <1>4, <1>5, <1>6 DEF TypeOK

\* A loss that is handled leaves no state in which files are transferred.
LEMMA LossStopsTransfer ==
  ASSUME HandleConnectionLoss, sState \in {"TRANSFERRING", "INTERRUPTED", "FAILED"}
  PROVE  sState' # "TRANSFERRING"
BY DEF HandleConnectionLoss, LossIgnored, BudgetSpent, budget

\* A step keeps a ping ahead or a timeout running for a connection that is dead.
LEMMA WatchedKept ==
  ASSUME TypeOK, Ordered, Watched, [Next]_vars
  PROVE  Watched'
<1> USE ClockConstants
<1>0. /\ pongTimers \in Seq(0..PongTimeout) /\ heartbeats \in Seq(0..PingInterval)
      /\ deadFor \in Nat /\ sState \in {"TRANSFERRING", "INTERRUPTED", "FAILED"}
      /\ Len(heartbeats) \in Nat \ {0} /\ DOMAIN heartbeats = 1..Len(heartbeats)
      /\ heartbeats[1] \in 0..PingInterval
  BY TimerValues DEF TypeOK
<1>1. ASSUME NEW k \in DOMAIN heartbeats, Ping(k) PROVE Watched'
  <2>1. deadFor' = deadFor /\ sState' = sState /\ pongTimers' = Append(pongTimers, PongTimeout)
    BY <1>1 DEF Ping, PingTimers, budget
  <2>2. /\ DOMAIN pongTimers' = 1..(Len(pongTimers) + 1) /\ Len(pongTimers) \in Nat
        /\ DOMAIN pongTimers = 1..Len(pongTimers)
        /\ \A i \in DOMAIN pongTimers : pongTimers'[i] = pongTimers[i]
        /\ pongTimers'[Len(pongTimers) + 1] = PongTimeout
    <3>1. Ascending(pongTimers) /\ PongTimeout \in Nat
      BY DEF Ordered
    <3>2. Len(pongTimers) \in Nat /\ DOMAIN pongTimers = 1..Len(pongTimers)
      BY <1>0, SomeTimer
    <3> QED
      BY <1>0, <2>1, <3>1, <3>2, AppendKeeps
  <2>3. k # 1 => heartbeats'[1] = heartbeats[1]
    BY <1>0, <1>1 DEF Ping
  <2>4. k = 1 => heartbeats[1] = 0
    BY <1>1 DEF Ping
  <2>5. deadFor' <= PingInterval + PongTimeout
    BY <2>1 DEF Watched
  <2>6. CASE deadFor + heartbeats[1] <= PingInterval
    <3>1. CASE k = 1
      <4>1. Len(pongTimers) + 1 \in DOMAIN pongTimers'
        BY <2>2
      <4>2. deadFor' + pongTimers'[Len(pongTimers) + 1] <= PingInterval + PongTimeout
        BY <1>0, <2>1, <2>2, <2>4, <2>6, <3>1
      <4> QED
        BY <2>5, <4>1, <4>2 DEF Watched
    <3>2. CASE k # 1
      BY <2>1, <2>3, <2>5, <2>6, <3>2 DEF Watched
    <3> QED
      BY <3>1, <3>2
  <2>7. ASSUME NEW i \in DOMAIN pongTimers, deadFor + pongTimers[i] <= PingInterval + PongTimeout
        PROVE  Watched'
    <3>1. i \in DOMAIN pongTimers' /\ deadFor' + pongTimers'[i] <= PingInterval + PongTimeout
      BY <2>1, <2>2, <2>7
    <3> QED
      BY <2>5, <3>1 DEF Watched
  <2>8. CASE sState # "TRANSFERRING"
    BY <2>1, <2>5, <2>8 DEF Watched
  <2> QED
    BY <2>6, <2>7, <2>8 DEF Watched
<1>2. CASE Pong \/ ChannelsReady \/ AttemptReconnect
  <2>1. deadFor' = 0
    BY <1>2 DEF Pong, ChannelsReady, AttemptReconnect
  <2>2. heartbeats'[1] = heartbeats[1]
    <3>1. CASE Pong \/ ChannelsReady
      BY <3>1 DEF Pong, ChannelsReady, heart
    <3>2. CASE AttemptReconnect
      <4>1. heartbeats' = Append(heartbeats, PingInterval) /\ PingInterval \in 0..PingInterval
        BY <3>2 DEF AttemptReconnect, HeartbeatsStarted
      <4> QED
        BY <1>0, <4>1, AppendProperties
    <3> QED
      BY <1>2, <3>1, <3>2
  <2> QED
    <3>1. deadFor' + heartbeats'[1] <= PingInterval
      BY <1>0, <2>1, <2>2
    <3>2. deadFor' <= PingInterval + PongTimeout
      BY <2>1
    <3> QED
      BY <3>1, <3>2 DEF Watched
<1>3. CASE PongTimesOut \/ (\E state \in {"disconnected", "failed"} : StateEvent(state)) \/ GiveUp
  <2>1. deadFor' = deadFor /\ sState' # "TRANSFERRING"
    BY <1>0, <1>3, LossStopsTransfer DEF PongTimesOut, StateEvent, GiveUp, history
  <2> QED
    BY <1>0, <2>1 DEF Watched
<1>4. CASE Tick
  <2>1. sState' = sState /\ deadFor' \in {0, deadFor + 1}
        /\ (deadFor' # 0 => deadFor' = deadFor + 1 /\ sState = "TRANSFERRING")
    BY <1>4 DEF Tick
  <2>2. heartbeats'[1] = heartbeats[1] - 1 /\ heartbeats[1] > 0
    <3>1. 1 \in DOMAIN heartbeats
      BY <1>0
    <3> QED
      BY <1>4, <3>1 DEF Tick, Settled, Elapse
  <2>3. DOMAIN pongTimers' = DOMAIN pongTimers
        /\ \A i \in DOMAIN pongTimers : pongTimers'[i] = pongTimers[i] - 1
    BY <1>0, <1>4, ElapseKeeps DEF Tick, Settled, Ordered
  <2>4. \A i \in DOMAIN pongTimers : pongTimers[i] \in 0..PongTimeout /\ pongTimers'[i] \in 0..PongTimeout
    <3>1. pongTimers' \in Seq(0..PongTimeout)
      BY TimersKept
    <3>2. \A i \in DOMAIN pongTimers' : pongTimers'[i] \in 0..PongTimeout
      BY <3>1, SomeTimer, ElementOfSeq
    <3>3. \A i \in DOMAIN pongTimers : pongTimers[i] \in 0..PongTimeout
      BY TimerValues
    <3> QED
      BY <2>3, <3>2, <3>3
  <2>5. CASE deadFor' = 0
    <3>1. deadFor' + heartbeats'[1] <= PingInterval
      BY <1>0, <2>2, <2>5
    <3>2. deadFor' <= PingInterval + PongTimeout
      BY <2>5
    <3> QED
      BY <3>1, <3>2 DEF Watched
  <2>6. CASE deadFor' = deadFor + 1 /\ sState = "TRANSFERRING"
    <3>1. CASE deadFor + heartbeats[1] <= PingInterval
      <4>1. deadFor' + heartbeats'[1] <= PingInterval /\ deadFor' <= PingInterval + PongTimeout
        <5>1. deadFor' + heartbeats'[1] = deadFor + heartbeats[1] /\ deadFor' \in Nat /\ heartbeats'[1] \in Nat
          BY <1>0, <2>2, <2>6
        <5> QED
          BY <3>1, <5>1
      <4> QED
        BY <4>1 DEF Watched
    <3>2. ASSUME NEW i \in DOMAIN pongTimers, deadFor + pongTimers[i] <= PingInterval + PongTimeout
          PROVE  Watched'
      <4>1. deadFor' + pongTimers'[i] <= PingInterval + PongTimeout
            /\ deadFor' <= PingInterval + PongTimeout /\ i \in DOMAIN pongTimers'
        <5>1. pongTimers'[i] = pongTimers[i] - 1 /\ pongTimers[i] \in Nat
          BY <2>3, <2>4, <3>2
        <5>2. deadFor \in Nat /\ deadFor' = deadFor + 1
          BY <1>0, <2>6
        <5>3. deadFor' + pongTimers'[i] = deadFor + pongTimers[i]
          BY <5>1, <5>2
        <5>4. deadFor' <= PingInterval + PongTimeout
          <6>1. pongTimers'[i] \in Nat
            BY <2>4, <3>2
          <6> QED
            BY <3>2, <5>1, <5>2, <5>3, <6>1
        <5> QED
          BY <2>3, <3>2, <5>3, <5>4
      <4> QED
        BY <4>1 DEF Watched
    <3> QED
      BY <2>6, <3>1, <3>2 DEF Watched
  <2> QED
    BY <2>1, <2>5, <2>6
<1>5. CASE UNCHANGED <<deadFor, sState, heartbeats, pongTimers>>
  BY <1>0, <1>5 DEF Watched
<1> QED
  BY <1>1, <1>2, <1>3, <1>4, <1>5 DEF Next, DisconnectedR, ConnectedR, EndSeen, NetworkBreaks,
     NetworkHeals, heart, budget, history, vars

\* A step keeps the give-up timer of a page that waits running, or ends the wait.
LEMMA BoundedKept ==
  ASSUME TypeOK, Bounded, [Next]_vars
  PROVE  Bounded'
<1> USE ClockConstants
<1>0. /\ giveUp = {} \/ \E n \in 0..GiveUpAfter : giveUp = {n}
      /\ waitsFor \in Nat /\ waits \in BOOLEAN /\ giveUpTimer \in BOOLEAN /\ rGone \in BOOLEAN
  BY DEF TypeOK
<1>1. ASSUME NEW b, LoseConnectionR(b), ~rGone, rGone' = rGone, waitsFor' = waitsFor PROVE Bounded'
  <2>1. CASE giveUpTimer
    <3>1. giveUp' = giveUp /\ giveUpTimer' = giveUpTimer /\ giveUp # {}
      BY <1>1, <2>1 DEF LoseConnectionR, Bounded
    <3>2. \E n \in giveUp : waitsFor + n <= GiveUpAfter
      BY <1>0, <3>1 DEF Bounded
    <3>3. ~waits' => waitsFor = 0
      BY <1>0, <1>1 DEF LoseConnectionR, Bounded
    <3> QED
      BY <1>1, <2>1, <3>1, <3>2, <3>3 DEF Bounded
  <2>2. CASE ~giveUpTimer
    <3>1. giveUp' = {GiveUpAfter} /\ giveUpTimer' = TRUE /\ ~waits /\ waitsFor = 0
      BY <1>1, <2>2 DEF LoseConnectionR, Bounded
    <3> QED
      BY <1>1, <3>1 DEF Bounded
  <2> QED
    BY <2>1, <2>2
<1>2. CASE DisconnectedR \/ \E n \in ends : EndSeen(n)
  BY <1>1, <1>2 DEF DisconnectedR, EndSeen
<1>3. CASE ConnectedR \/ ChannelsReady \/ GiveUp
  BY <1>0, <1>3 DEF ConnectedR, ConnectedClears, ChannelsReady, GiveUp, Bounded
<1>4. CASE Tick
  <2>1. /\ giveUp' = {n - 1 : n \in giveUp} /\ 0 \notin giveUp
        /\ rGone' = rGone /\ waits' = waits /\ giveUpTimer' = giveUpTimer
        /\ waitsFor' = IF waits THEN waitsFor + 1 ELSE 0
    BY <1>4 DEF Tick, Settled
  <2>2. giveUp' # {} <=> giveUp # {}
    BY <2>1
  <2>3. ASSUME NEW n \in giveUp, waits, waitsFor + n <= GiveUpAfter
        PROVE  n - 1 \in giveUp' /\ waitsFor' + (n - 1) <= GiveUpAfter
    BY <1>0, <2>1, <2>3
  <2> QED
    BY <1>0, <2>1, <2>2, <2>3 DEF Bounded
<1>5. CASE /\ giveUp' = giveUp /\ rGone' = rGone /\ waits' = waits /\ giveUpTimer' = giveUpTimer
           /\ waitsFor' = waitsFor
  BY <1>5 DEF Bounded
<1> QED
  BY <1>2, <1>3, <1>4, <1>5 DEF Next, Ping, Pong, PongTimesOut, StateEvent, AttemptReconnect,
     NetworkBreaks, NetworkHeals, receiver, history, vars

\* A step over the first connection keeps at most one timeout, which its PONG clears.
LEMMA MatchedKept ==
  ASSUME TypeOK, Ordered, Matched, [Next]_vars
  PROVE  Matched'
<1> USE ClockConstants
<1>0. /\ peer \in Nat \ {0} /\ unanswered \in Nat /\ slow \in BOOLEAN /\ held \in BOOLEAN
      /\ pongTimers \in Seq(0..PongTimeout)
      /\ heartbeats \in Seq(0..PingInterval) /\ Len(heartbeats) = peer
      /\ Len(pongTimers) \in Nat /\ DOMAIN heartbeats = 1..peer
      /\ pongTimers # <<>> <=> Len(pongTimers) > 0
  BY SomeTimer DEF TypeOK, Ordered
<1>1. ASSUME NEW k \in DOMAIN heartbeats, Ping(k) PROVE Matched'
  <2>1. peer' = peer /\ conn' = conn /\ held' = TRUE
    BY <1>1 DEF Ping
  <2>2. Len(pongTimers') = Len(pongTimers) + 1
    BY <1>0, <1>1, AppendProperties DEF Ping, PingTimers
  <2>3. ASSUME peer = 1, conn = "open", ~slow' PROVE ~slow /\ unanswered' = unanswered + 1 /\ unanswered' <= 1
    <3>1. k = peer
      BY <1>0, <2>3
    <3>2. unanswered' = unanswered + 1 /\ slow' = (slow \/ unanswered' > 1)
      BY <1>1, <2>3, <3>1 DEF Ping
    <3>3. ~slow /\ ~(unanswered' > 1)
      BY <2>3, <3>2, Zenon
    <3> QED
      BY <1>0, <3>2, <3>3
  <2> QED
    BY <1>0, <2>1, <2>2, <2>3 DEF Matched
<1>2. CASE Pong
  <2>1. /\ peer' = peer /\ conn' = conn /\ slow' = slow /\ unanswered > 0
        /\ unanswered' = unanswered - 1 /\ pongTimers' = PongTimers /\ conn = "open"
    BY <1>2 DEF Pong, Works
  <2>2. ASSUME peer = 1, ~slow PROVE pongTimers' = <<>> /\ unanswered' = 0
    <3>1. CASE held
      <4>1. pongTimers # <<>> /\ pongTimers' = Front(pongTimers) /\ Len(pongTimers) = 1
        <5>1. pongTimers # <<>>
          BY <3>1 DEF TypeOK
        <5>2. Len(pongTimers) <= 1
          BY <1>0, <2>1, <2>2 DEF Matched
        <5>3. pongTimers' = Front(pongTimers)
          BY <2>1, <3>1 DEF PongTimers
        <5>4. Len(pongTimers) > 0 /\ Len(pongTimers) \in Nat
          BY <1>0, <5>1
        <5>5. \A n \in Nat : n > 0 /\ n <= 1 => n = 1
          OBVIOUS
        <5>6. Len(pongTimers) = 1
          BY <5>2, <5>4, <5>5, Zenon
        <5> QED
          BY <5>1, <5>3, <5>6, Zenon
      <4>2. Front(pongTimers) \in Seq(0..PongTimeout) /\ Len(Front(pongTimers)) = 0
        <5>1. Ascending(pongTimers) /\ PongTimeout \in Nat
          BY DEF Ordered
        <5>2. Front(pongTimers) \in Seq(0..PongTimeout) /\ Len(Front(pongTimers)) = Len(pongTimers) - 1
          BY <1>0, <4>1, <5>1, FrontKeeps
        <5> QED
          BY <4>1, <5>2
      <4>3. Front(pongTimers) = <<>>
        BY <4>2, SomeTimer
      <4> QED
        BY <1>0, <2>1, <2>2, <4>1, <4>3 DEF Matched
    <3>2. CASE ~held
      BY <1>0, <2>1, <2>2, <3>2 DEF Matched, PongTimers
    <3> QED
      BY <3>1, <3>2
  <2>3. Len(<<>>) = 0
    OBVIOUS
  <2> QED
    BY <1>0, <2>1, <2>2, <2>3 DEF Matched
<1>3. CASE PongTimesOut
  <2>1. /\ peer' = peer /\ conn' = conn /\ slow' = slow /\ unanswered' = unanswered
        /\ pongTimers # <<>> /\ pongTimers' = Tail(pongTimers)
    BY <1>3 DEF PongTimesOut, Due, link, history
  <2>2. Len(pongTimers') = Len(pongTimers) - 1 /\ pongTimers' \in Seq(0..PongTimeout)
    BY <1>0, <2>1, TailKeeps DEF Ordered
  <2>3. pongTimers' # <<>> <=> Len(pongTimers') > 0
    BY <2>2, SomeTimer
  <2> QED
    BY <1>0, <2>1, <2>2, <2>3 DEF Matched
<1>4. ASSUME NEW state, StateEvent(state) PROVE Matched'
  BY <1>4 DEF StateEvent, heart, history, Matched
<1>5. CASE AttemptReconnect
  BY <1>0, <1>5 DEF AttemptReconnect, Matched
<1>6. CASE ChannelsReady
  BY <1>0, <1>6 DEF ChannelsReady, Matched
<1>7. CASE GiveUp
  BY <1>7 DEF GiveUp, Matched
<1>8. CASE Tick
  <2>1. UNCHANGED <<peer, conn, unanswered, slow, held>>
    BY <1>8 DEF Tick, link
  <2>2. Len(pongTimers') = Len(pongTimers) /\ pongTimers' \in Seq(0..PongTimeout)
    BY <1>0, <1>8, ElapseKeeps DEF Tick, Settled, Ordered
  <2>3. pongTimers' # <<>> <=> Len(pongTimers') > 0
    BY <2>2, SomeTimer
  <2> QED
    BY <1>0, <2>1, <2>2, <2>3 DEF Matched
<1>9. CASE /\ peer' = peer /\ conn' = conn /\ unanswered' = unanswered /\ slow' = slow
           /\ held' = held /\ pongTimers' = pongTimers
  BY <1>9 DEF Matched
<1>10. CASE DisconnectedR \/ ConnectedR \/ (\E n \in ends : EndSeen(n)) \/ NetworkBreaks \/ NetworkHeals
  BY <1>9, <1>10 DEF DisconnectedR, ConnectedR, EndSeen, NetworkBreaks, NetworkHeals, heart, link, history
<1>11. CASE UNCHANGED vars
  BY <1>9, <1>11 DEF heart, link, history, vars
<1> QED
  BY <1>1, <1>2, <1>3, <1>4, <1>5, <1>6, <1>7, <1>8, <1>10, <1>11 DEF Next

\* What an attempt, and the receiving page's leaving, add to the rounds allowed.
LEMMA AllowedGrows ==
  ASSUME TypeOK
  PROVE  /\ Round \in Nat /\ Allowed \in Nat
         /\ Allowed <= (MaxAttempts + 1) * Round
         /\ attempts' = attempts /\ rGone' = rGone => Allowed' = Allowed
         /\ attempts' = attempts + 1 /\ rGone' = rGone => Allowed' = Allowed + Round
         /\ attempts' = attempts /\ ~rGone /\ rGone' = TRUE => Allowed' = Allowed + Round
<1> DEFINE left == IF rGone THEN 1 ELSE 0
<1>1. Round \in Nat /\ attempts \in Nat /\ left \in {0, 1} /\ attempts + left <= MaxAttempts + 1
      /\ MaxAttempts \in Nat
  <2>1. PingInterval \in Nat /\ PongTimeout \in Nat /\ Grace \in Nat /\ MaxAttempts \in Nat
    BY ClockConstants
  <2>2. attempts \in 0..MaxAttempts
    BY DEF TypeOK
  <2> QED
    BY <2>1, <2>2 DEF Round
<1>2. \A a, c \in Nat : a * c \in Nat /\ (a + 1) * c = a * c + c
  OBVIOUS
<1>3. \A a, b, c \in Nat : a <= b => a * c <= b * c
  OBVIOUS
<1>4. Allowed = (attempts + left) * Round /\ Allowed' = (attempts' + left') * Round
  BY DEF Allowed, Round
<1>5. attempts + left \in Nat
  BY <1>1
<1>6. Allowed \in Nat /\ Allowed <= (MaxAttempts + 1) * Round
  BY <1>1, <1>2, <1>3, <1>4, <1>5
<1>7. ASSUME attempts' + left' = attempts + left + 1 PROVE Allowed' = Allowed + Round
  BY <1>1, <1>2, <1>4, <1>5, <1>7
<1>8. rGone' = rGone => left' = left
  OBVIOUS
<1>9. ~rGone /\ rGone' = TRUE => left = 0 /\ left' = 1
  OBVIOUS
<1> HIDE DEF left
<1> QED
  BY <1>1, <1>4, <1>6, <1>7, <1>8, <1>9

\* In any state the interruption is within the rounds allowed.
LEMMA WithinAllowed ==
  ASSUME TypeOK, Ordered, Settling
  PROVE  interruptedFor <= Allowed
<1>0. /\ interruptedFor \in Nat /\ sState \in {"TRANSFERRING", "INTERRUPTED", "FAILED"}
      /\ Allowed \in Nat
  BY AllowedGrows DEF TypeOK
<1>1. CASE sState # "INTERRUPTED"
  BY <1>0, <1>1 DEF Settling
<1>2. ASSUME retries # <<>>, interruptedFor + retries[1] + PingInterval + PongTimeout <= Allowed
      PROVE  interruptedFor <= Allowed
  BY <1>0, <1>2, TimerValues
<1>3. ASSUME interruptedFor + heartbeats[1] + PongTimeout <= Allowed PROVE interruptedFor <= Allowed
  BY <1>0, <1>3, TimerValues
<1>4. ASSUME NEW i \in DOMAIN pongTimers, interruptedFor + pongTimers[i] <= Allowed
      PROVE  interruptedFor <= Allowed
  BY <1>0, <1>4, TimerValues
<1> QED
  BY <1>1, <1>2, <1>3, <1>4 DEF Settling

\* A loss that is handled uses up a round or ends the interruption.
LEMMA LossKeepsSettling ==
  ASSUME TypeOK, Ordered, Settling, TypeOK', HandleConnectionLoss,
         rGone' = rGone, interruptedFor' = interruptedFor
  PROVE  Settling'
<1>0. /\ interruptedFor \in Nat /\ attempts \in 0..MaxAttempts
      /\ sState \in {"TRANSFERRING", "INTERRUPTED", "FAILED"}
      /\ Round = PingInterval + PongTimeout + Grace /\ Allowed \in Nat
  BY AllowedGrows DEF TypeOK, Round
<1>1. interruptedFor <= Allowed
  BY WithinAllowed
<1>2. CASE sState = "FAILED"
  <2>1. attempts' = attempts /\ sState' = sState
    BY <1>2 DEF HandleConnectionLoss, LossIgnored, budget
  <2>2. Allowed' = Allowed
    BY <2>1, AllowedGrows
  <2> QED
    BY <1>1, <1>2, <2>1, <2>2 DEF Settling
<1>3. CASE sState # "FAILED" /\ attempts >= MaxAttempts
  <2>1. attempts' = attempts /\ sState' = "FAILED"
    BY <1>3 DEF HandleConnectionLoss, LossIgnored, BudgetSpent
  <2>2. Allowed' = Allowed
    BY <2>1, AllowedGrows
  <2>3. attempts = MaxAttempts
    BY <1>0, <1>3, TimerValues
  <2> QED
    BY <1>0, <1>1, <1>3, <2>1, <2>2, <2>3 DEF Settling
<1>4. CASE sState # "FAILED" /\ ~(attempts >= MaxAttempts)
  <2>1. attempts' = attempts + 1 /\ sState' = "INTERRUPTED" /\ retries' = Append(retries, Grace)
    BY <1>4 DEF HandleConnectionLoss, LossIgnored, BudgetSpent
  <2>2. Allowed' = Allowed + Round
    BY <2>1, AllowedGrows
  <2>3. retries' # <<>> /\ retries'[1] \in 0..Grace
    <3>1. Grace \in 0..Grace /\ retries \in Seq(0..Grace)
      BY TimerValues
    <3>2. retries' \in Seq(0..Grace) /\ Len(retries') \in Nat /\ Len(retries') > 0
      BY <2>1, <3>1, AppendProperties, SomeTimer
    <3>3. retries'[1] \in 0..Grace
      <4>1. 1 \in 1..Len(retries')
        BY <3>2
      <4> QED
        BY <3>2, <4>1, ElementOfSeq
    <3> QED
      BY <3>2, <3>3, SomeTimer
  <2>4. interruptedFor' + retries'[1] + PingInterval + PongTimeout <= Allowed'
    <3>1. /\ PingInterval \in Nat /\ PongTimeout \in Nat /\ Grace \in Nat
          /\ interruptedFor' = interruptedFor
      BY TimerValues
    <3> QED
      BY <1>0, <1>1, <2>2, <2>3, <3>1
  <2> QED
    BY <2>1, <2>3, <2>4 DEF Settling
<1> QED
  BY <1>2, <1>3, <1>4

\* A step keeps an INTERRUPTED page on its way, or lets it arrive.
LEMMA SettlingKept ==
  ASSUME TypeOK, Ordered, Bounded, Settling, [Next]_vars, TypeOK'
  PROVE  Settling'
<1>0. /\ PingInterval \in Nat /\ PongTimeout \in Nat /\ Grace \in Nat
      /\ retries \in Seq(0..Grace) /\ pongTimers \in Seq(0..PongTimeout)
      /\ heartbeats \in Seq(0..PingInterval)
      /\ Len(heartbeats) \in Nat \ {0} /\ DOMAIN heartbeats = 1..Len(heartbeats)
      /\ heartbeats[1] \in 0..PingInterval
      /\ interruptedFor \in Nat /\ attempts \in 0..MaxAttempts
      /\ Round = PingInterval + PongTimeout + Grace /\ Allowed \in Nat
      /\ sState \in {"TRANSFERRING", "INTERRUPTED", "FAILED"}
  BY AllowedGrows, TimerValues DEF TypeOK, Round
<1>1. ASSUME NEW k \in DOMAIN heartbeats, Ping(k) PROVE Settling'
  <2>1. /\ sState' = sState /\ attempts' = attempts /\ retries' = retries /\ conn' = conn
        /\ interruptedFor' = interruptedFor /\ rGone' = rGone
        /\ pongTimers' = Append(pongTimers, PongTimeout)
    BY <1>1 DEF Ping, PingTimers, budget, receiver
  <2>2. Allowed' = Allowed
    BY <2>1, AllowedGrows
  <2>3. /\ DOMAIN pongTimers' = 1..(Len(pongTimers) + 1) /\ Len(pongTimers) \in Nat
        /\ DOMAIN pongTimers = 1..Len(pongTimers)
        /\ \A i \in DOMAIN pongTimers : pongTimers'[i] = pongTimers[i]
        /\ pongTimers'[Len(pongTimers) + 1] = PongTimeout
    BY <1>0, <2>1, AppendKeeps, SomeTimer DEF Ordered
  <2>4. CASE sState # "INTERRUPTED" \/ (retries # <<>> /\ interruptedFor + retries[1] + PingInterval + PongTimeout <= Allowed)
    BY <2>1, <2>2, <2>4 DEF Settling
  <2>5. CASE conn # "open" /\ interruptedFor + heartbeats[1] + PongTimeout <= Allowed
    <3>1. CASE k = 1
      <4>1. heartbeats[1] = 0 /\ Len(pongTimers) + 1 \in DOMAIN pongTimers'
        BY <1>1, <2>3, <3>1 DEF Ping
      <4>2. interruptedFor' + pongTimers'[Len(pongTimers) + 1] <= Allowed'
        BY <1>0, <2>1, <2>2, <2>3, <2>5, <4>1
      <4>3. sState = "INTERRUPTED" => Settling'
        BY <2>1, <2>5, <4>1, <4>2 DEF Settling
      <4> QED
        BY <2>4, <4>3
    <3>2. CASE k # 1
      <4>1. heartbeats'[1] = heartbeats[1]
        BY <1>0, <1>1, <3>2 DEF Ping
      <4>2. sState = "INTERRUPTED" => Settling'
        BY <2>1, <2>2, <2>5, <4>1 DEF Settling
      <4> QED
        BY <2>4, <4>2
    <3> QED
      BY <3>1, <3>2
  <2>6. ASSUME conn # "open", NEW i \in DOMAIN pongTimers, interruptedFor + pongTimers[i] <= Allowed,
               sState = "INTERRUPTED"
        PROVE  Settling'
    <3>1. i \in DOMAIN pongTimers' /\ interruptedFor' + pongTimers'[i] <= Allowed'
      BY <2>1, <2>2, <2>3, <2>6
    <3> QED
      BY <2>1, <2>6, <3>1 DEF Settling
  <2> QED
    BY <2>4, <2>5, <2>6 DEF Settling
<1>2. CASE Pong
  <2>1. /\ sState' = sState /\ attempts' = attempts /\ retries' = retries /\ conn = "open"
        /\ interruptedFor' = interruptedFor /\ rGone' = rGone
    BY <1>2 DEF Pong, Works, budget, receiver
  <2>2. Allowed' = Allowed
    BY <2>1, AllowedGrows
  <2> QED
    BY <2>1, <2>2 DEF Settling
<1>3. CASE PongTimesOut \/ \E state \in {"disconnected", "failed"} : StateEvent(state)
  BY <1>3, LossKeepsSettling DEF PongTimesOut, StateEvent, receiver, history
<1>4. CASE AttemptReconnect
  <2>1. /\ sState' = sState /\ attempts' = attempts /\ conn' = "negotiating"
        /\ interruptedFor' = interruptedFor /\ rGone' = rGone
        /\ retries # <<>> /\ retries[1] = 0
    BY <1>4 DEF AttemptReconnect, Due
  <2>2. Allowed' = Allowed
    BY <2>1, AllowedGrows
  <2>3. heartbeats'[1] = heartbeats[1]
    BY <1>0, <1>4, AppendProperties DEF AttemptReconnect, HeartbeatsStarted
  <2>4. sState # "INTERRUPTED" => Settling'
    BY <2>1, <2>2 DEF Settling
  <2>5. ASSUME retries # <<>>, interruptedFor + retries[1] + PingInterval + PongTimeout <= Allowed, sState = "INTERRUPTED"
        PROVE  Settling'
    <3>1. interruptedFor' + heartbeats'[1] + PongTimeout <= Allowed'
      BY <1>0, <2>1, <2>2, <2>3, <2>5
    <3> QED
      BY <2>1, <2>5, <3>1 DEF Settling
  <2>6. ASSUME interruptedFor + heartbeats[1] + PongTimeout <= Allowed, sState = "INTERRUPTED" PROVE Settling'
    BY <2>1, <2>2, <2>3, <2>6 DEF Settling
  <2>7. ASSUME NEW i \in DOMAIN pongTimers, interruptedFor + pongTimers[i] <= Allowed, sState = "INTERRUPTED"
        PROVE  Settling'
    <3>1. pongTimers' = pongTimers
      BY <1>4 DEF AttemptReconnect
    <3>2. conn' # "open" /\ i \in DOMAIN pongTimers' /\ interruptedFor' + pongTimers'[i] <= Allowed'
      BY <2>1, <2>2, <2>7, <3>1
    <3> QED
      BY <2>1, <2>7, <3>2 DEF Settling
  <2> QED
    BY <2>4, <2>5, <2>6, <2>7 DEF Settling
<1>5. CASE ChannelsReady
  BY <1>5 DEF ChannelsReady, Settling
<1>6. CASE GiveUp
  <2>1. /\ sState' = "INTERRUPTED" /\ attempts' = attempts /\ retries' = retries /\ conn' # "open"
        /\ interruptedFor' = interruptedFor /\ rGone' = TRUE /\ giveUp # {}
        /\ heartbeats' = heartbeats /\ pongTimers' = pongTimers
    BY <1>6 DEF GiveUp, heart
  <2>2. ~rGone
    BY <2>1 DEF Bounded
  <2>3. Allowed' = Allowed + Round
    BY <2>1, <2>2, AllowedGrows
  <2>4. interruptedFor <= Allowed
    BY WithinAllowed
  <2>5. interruptedFor' + heartbeats'[1] + PongTimeout <= Allowed'
    BY <1>0, <2>1, <2>3, <2>4
  <2> QED
    BY <2>1, <2>5 DEF Settling
<1>7. CASE Tick
  <2>1. /\ sState' = sState /\ attempts' = attempts /\ conn' = conn /\ rGone' = rGone
        /\ interruptedFor' = IF sState = "INTERRUPTED" THEN interruptedFor + 1 ELSE 0
    BY <1>7 DEF Tick, link
  <2>2. Allowed' = Allowed
    BY <2>1, AllowedGrows
  <2>3. heartbeats'[1] = heartbeats[1] - 1
    <3>1. 1 \in DOMAIN heartbeats
      BY <1>0
    <3> QED
      BY <1>7, <3>1 DEF Tick, Elapse
  <2>4. DOMAIN pongTimers' = DOMAIN pongTimers
        /\ \A i \in DOMAIN pongTimers : pongTimers'[i] = pongTimers[i] - 1 /\ pongTimers[i] \in Nat
    <3>1. \A i \in DOMAIN pongTimers : pongTimers[i] \in 0..PongTimeout
      BY TimerValues
    <3> QED
      BY <1>0, <1>7, <3>1, ElapseKeeps DEF Tick, Settled, Ordered
  <2>5. ASSUME retries # <<>> PROVE retries' # <<>> /\ retries'[1] = retries[1] - 1 /\ retries[1] \in Nat
    <3>1. Len(retries) \in Nat /\ Len(retries) > 0 /\ DOMAIN retries = 1..Len(retries)
      BY <1>0, <2>5, SomeTimer
    <3>2. 1 \in DOMAIN retries /\ retries[1] \in 0..Grace
      BY <1>0, <3>1, ElementOfSeq
    <3>3. retries' \in Seq(0..Grace) /\ Len(retries') = Len(retries) /\ retries'[1] = retries[1] - 1
      BY <1>0, <1>7, <3>2, ElapseKeeps DEF Tick, Settled, Ordered
    <3> QED
      BY <3>1, <3>2, <3>3, SomeTimer
  <2>6. CASE sState # "INTERRUPTED"
    BY <1>0, <2>1, <2>2, <2>6 DEF Settling
  <2>7. ASSUME sState = "INTERRUPTED", retries # <<>>,
               interruptedFor + retries[1] + PingInterval + PongTimeout <= Allowed
        PROVE  Settling'
    <3>1. interruptedFor' + retries'[1] + PingInterval + PongTimeout <= Allowed'
      <4>1. interruptedFor' = interruptedFor + 1 /\ Allowed' = Allowed
        BY <2>1, <2>2, <2>7
      <4>2. retries'[1] = retries[1] - 1 /\ retries[1] \in Nat
        BY <2>5, <2>7
      <4>3. interruptedFor' + retries'[1] = interruptedFor + retries[1]
        <5>1. interruptedFor \in Nat
          BY <1>0
        <5> QED
          BY <4>1, <4>2, <5>1
      <4> QED
        BY <2>7, <4>1, <4>3
    <3> QED
      BY <2>1, <2>5, <2>7, <3>1 DEF Settling
  <2>8. ASSUME sState = "INTERRUPTED", conn # "open", interruptedFor + heartbeats[1] + PongTimeout <= Allowed
        PROVE  Settling'
    <3>1. interruptedFor' + heartbeats'[1] + PongTimeout <= Allowed'
      <4>1. interruptedFor' = interruptedFor + 1 /\ Allowed' = Allowed
        BY <2>1, <2>2, <2>8
      <4>2. interruptedFor' + heartbeats'[1] = interruptedFor + heartbeats[1]
        BY <1>0, <2>3, <4>1
      <4> QED
        BY <2>8, <4>1, <4>2
    <3> QED
      BY <2>1, <2>8, <3>1 DEF Settling
  <2>9. ASSUME sState = "INTERRUPTED", conn # "open", NEW i \in DOMAIN pongTimers,
               interruptedFor + pongTimers[i] <= Allowed
        PROVE  Settling'
    <3>1. i \in DOMAIN pongTimers' /\ interruptedFor' + pongTimers'[i] <= Allowed'
      BY <1>0, <2>1, <2>2, <2>4, <2>9
    <3> QED
      BY <2>1, <2>9, <3>1 DEF Settling
  <2> QED
    BY <2>6, <2>7, <2>8, <2>9 DEF Settling
<1>8. ASSUME UNCHANGED <<heart, budget, conn, rGone, interruptedFor>> PROVE Settling'
  <2>1. /\ heartbeats' = heartbeats /\ pongTimers' = pongTimers /\ attempts' = attempts
        /\ retries' = retries /\ sState' = sState /\ conn' = conn /\ rGone' = rGone
        /\ interruptedFor' = interruptedFor
    BY <1>8 DEF heart, budget
  <2>2. Allowed' = Allowed
    BY <2>1, AllowedGrows
  <2> QED
    BY <2>1, <2>2 DEF Settling
<1>9. CASE DisconnectedR \/ ConnectedR \/ \E n \in ends : EndSeen(n)
  BY <1>8, <1>9 DEF DisconnectedR, ConnectedR, EndSeen, link
<1>10. CASE NetworkBreaks \/ NetworkHeals \/ UNCHANGED vars
  BY <1>8, <1>10 DEF NetworkBreaks, NetworkHeals, link, receiver, history, vars
<1> QED
  BY <1>1, <1>2, <1>3, <1>4, <1>5, <1>6, <1>7, <1>9, <1>10 DEF Next

\* A step preserves the inductive invariant.
LEMMA NextInv == IInv /\ [Next]_vars => IInv'
BY TimersKept, TypesKept, WatchedKept, BoundedKept, MatchedKept, SettlingKept DEF IInv
-----------------------------------------------------------------------------
(* What holds of every length of the timers                                *)

\* The inductive invariant holds of every state the two pages reach.
THEOREM Inductive == Spec => []IInv
BY InitInv, NextInv, PTL DEF Spec

\* Every variable keeps its type, however long the timers and however many attempts.
THEOREM TypeCorrect == Spec => []TypeOK
BY Inductive, PTL DEF IInv

\* handleConnectionLoss is reached within one interval and one timeout of a connection
\* that died without a word, for all lengths of both.
THEOREM LossNoticedInTime == Spec => []LossIsNoticed
<1>1. IInv => LossIsNoticed
  BY DEF IInv, Watched, LossIsNoticed
<1> QED
  BY <1>1, Inductive, PTL

\* The receiving page waits no longer than its give-up timer for another connection.
THEOREM WaitingIsBounded == Spec => []WaitingEnds
<1>1. ASSUME IInv PROVE WaitingEnds
  <2>1. GiveUpAfter \in Nat /\ waitsFor \in Nat /\ \A n \in giveUp : n \in Nat
    <3>1. GiveUpAfter \in Nat
      BY ClockConstants
    <3>2. waitsFor \in Nat /\ giveUp \in {{}} \cup {{n} : n \in 0..GiveUpAfter}
      BY <1>1 DEF IInv, TypeOK
    <3> QED
      BY <3>1, <3>2
  <2>2. CASE waits
    <3>1. PICK n \in giveUp : waitsFor + n <= GiveUpAfter
      BY <1>1, <2>2 DEF IInv, Bounded
    <3> QED
      BY <2>1, <3>1 DEF WaitingEnds
  <2>3. CASE ~waits
    BY <1>1, <2>1, <2>3 DEF IInv, Bounded, WaitingEnds
  <2> QED
    BY <2>2, <2>3
<1> QED
  BY <1>1, Inductive, PTL

\* The sending page is INTERRUPTED no longer than its attempts, and one round more, take.
THEOREM InterruptionIsBounded == Spec => []InterruptionEnds
<1>1. ASSUME IInv PROVE InterruptionEnds
  <2>1. interruptedFor <= Allowed
    BY <1>1, WithinAllowed DEF IInv
  <2>2. Allowed \in Nat /\ Allowed <= (MaxAttempts + 1) * Round
    BY <1>1, AllowedGrows DEF IInv
  <2>3. interruptedFor \in Nat
    BY <1>1 DEF IInv, TypeOK
  <2>4. (MaxAttempts + 1) * Round \in Nat
    <3>1. MaxAttempts + 1 \in Nat /\ Round \in Nat
      BY ClockConstants DEF Round
    <3> QED
      BY <3>1
  <2> QED
    BY <2>1, <2>2, <2>3, <2>4 DEF InterruptionEnds, Round
<1> QED
  BY <1>1, Inductive, PTL

\* No attempt of the budget is spent on a first connection that answers its pings.
THEOREM NoFalseAlarms == Spec => NoFalseAlarm
<1>1. ASSUME IInv, [Next]_vars, peer = 1, ~slow, Works, unanswered = 0
      PROVE  attempts' = attempts
  <2>1. pongTimers = <<>> /\ conn = "open" /\ net
    <3>1. Len(pongTimers) \in Nat /\ (pongTimers # <<>> <=> Len(pongTimers) > 0)
      BY <1>1, SomeTimer DEF IInv, TypeOK
    <3> QED
      BY <1>1, <3>1 DEF IInv, Matched, Works
  <2> QED
    BY <1>1, <2>1 DEF Next, Ping, Pong, PongTimesOut, Due, StateEvent, AttemptReconnect,
       ChannelsReady, DisconnectedR, ConnectedR, GiveUp, EndSeen, NetworkBreaks, NetworkHeals,
       Tick, budget, vars
<1>2. IInv /\ [Next]_vars => [peer = 1 /\ ~slow /\ Works /\ unanswered = 0 => attempts' = attempts]_vars
  BY <1>1
<1> QED
  BY <1>2, Inductive, PTL DEF Spec, NoFalseAlarm
=============================================================================
