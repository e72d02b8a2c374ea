-------------------------- MODULE SignalingServer ---------------------------
(***************************************************************************)
(* The signaling server: the session store (server/src/sessions/           *)
(* sessionManager.ts), the handlers of the relay (signaling/relay.ts) and  *)
(* the two intervals of server.ts (socket heartbeat, session sweep).       *)
(*                                                                         *)
(* Node runs each handler to its end, so a handler is one step.  A page    *)
(* opens a socket for one session and is in no other through it            *)
(* (SenderSession.start, the joinRequested guard of ReceiverSession.join): *)
(* Unpaired states this of the clients, and Pairing checks it.  A socket   *)
(* dies in two steps, as in ws: sends to it are dropped (closing) before   *)
(* its close event runs.                                                   *)
(***************************************************************************)
EXTENDS Naturals

CONSTANTS
  Sockets, Ids, Codes,
  NoSocket, NoSession, NoId, \* null, and the two maps' undefined
  Timeouts,    \* timeoutSeconds a sender may ask for
  MaxTime,     \* bound: the clock
  MaxSessions  \* bound: sessions created

ASSUME ServerConstants ==
  /\ NoSocket \notin Sockets /\ NoId \notin Ids
  /\ Timeouts \subseteq Nat /\ MaxTime \in Nat /\ MaxSessions \in Nat

\* nr stands for the token, the 32 random bytes that no other session has, and
\* for the place in the map's insertion order.
Session ==
  [nr: Nat, code: Codes, expiresAt: Nat, consumed: BOOLEAN,
   sender: Sockets, receiver: Sockets \cup {NoSocket}]

ASSUME NoSessionIsNone == NoSession \notin Session

VARIABLES
  sessionsById, sessionIdByPairingCode,
  readyState, \* of each socket: new, open, closing, closed
  isAlive,    \* it answered the last ping
  silent,     \* sockets whose page is gone without a close
  now, created,
  out         \* the messages that the last step sent

store == <<sessionsById, sessionIdByPairingCode, created>>
sockets == <<readyState, isAlive, silent>>
vars == <<store, sockets, now, out>>

Live == {id \in Ids : sessionsById[id] # NoSession}
Msg(to, type, id) == [to |-> to, t |-> type, id |-> id]

\* send() and notifyExpired: an open socket only
Sent(msgs) == {m \in msgs : readyState[m.to] = "open"}

Peers(id) == {sessionsById[id].sender, sessionsById[id].receiver} \ {NoSocket}

\* The sessions a socket is in, and findSessionBySocket: the first of the map.
SessionsOf(s) == {id \in Live : s \in Peers(id)}
FirstOf(s) ==
  CHOOSE id \in SessionsOf(s) :
    \A other \in SessionsOf(s) : sessionsById[id].nr <= sessionsById[other].nr
IsSender(s, id) == sessionsById[id].sender = s
PeerOf(s, id) ==
  IF IsSender(s, id) THEN sessionsById[id].receiver ELSE sessionsById[id].sender

Unpaired(s) == readyState[s] = "open" /\ s \notin silent /\ SessionsOf(s) = {}

\* destroy(), of one session or of every expired one
Destroy(ids) ==
  /\ sessionsById' = [id \in Ids |-> IF id \in ids THEN NoSession ELSE sessionsById[id]]
  /\ sessionIdByPairingCode' =
       [c \in Codes |-> IF \E id \in ids : sessionsById[id].code = c
                        THEN NoId ELSE sessionIdByPairingCode[c]]

IsExpired(id) == now > sessionsById[id].expiresAt

Init ==
  /\ sessionsById = [id \in Ids |-> NoSession]
  /\ sessionIdByPairingCode = [c \in Codes |-> NoId]
  /\ readyState = [s \in Sockets |-> "new"]
  /\ isAlive = [s \in Sockets |-> FALSE] /\ silent = {}
  /\ now = 0 /\ created = 0 /\ out = {}
-----------------------------------------------------------------------------
(* Messages                                                                *)

\* Slip: the code is drawn without a look at the index.
FreeCodesAny == Codes
FreeCodes == {c \in Codes : sessionIdByPairingCode[c] = NoId}

\* CREATE_SESSION: id and code are drawn until they are new.
HandleCreateSession(s) ==
  /\ created < MaxSessions
  /\ \E id \in Ids \ Live, c \in FreeCodes, timeout \in Timeouts :
       /\ sessionsById' = [sessionsById EXCEPT ![id] =
            [nr |-> created + 1, code |-> c, expiresAt |-> now + timeout,
             consumed |-> FALSE, sender |-> s, receiver |-> NoSocket]]
       /\ sessionIdByPairingCode' = [sessionIdByPairingCode EXCEPT ![c] = id]
       /\ out' = {Msg(s, "SESSION_CREATED", id)}
  /\ created' = created + 1
  /\ UNCHANGED <<sockets, now>>

\* getById destroys an expired session, without a word to its peers.
Expire(s, id) ==
  /\ IsExpired(id)
  /\ Destroy({id})
  /\ out' = {Msg(s, "SESSION_NOT_FOUND", NoId)}

\* The refusals of handleJoinSession; at its last moment the session may expire
\* between the look of getById and the one of the handler.
Refuse(s, id, token) ==
  /\ ~IsExpired(id)
  /\ \/ /\ now = sessionsById[id].expiresAt
        /\ out' = {Msg(s, "SESSION_EXPIRED", id)}
     \/ /\ token # sessionsById[id].nr
        /\ out' = {Msg(s, "ERROR", id)}
     \/ /\ token = sessionsById[id].nr /\ sessionsById[id].consumed
        /\ out' = {Msg(s, "ERROR", id)}
  /\ UNCHANGED <<sessionsById, sessionIdByPairingCode>>

\* Slip: a session that has its receiver is joined again.
MayJoinAgain(id, token) == ~IsExpired(id) /\ token = sessionsById[id].nr
MayJoin(id, token) ==
  ~IsExpired(id) /\ token = sessionsById[id].nr /\ ~sessionsById[id].consumed

\* joinAsReceiver, and both are told
Join(s, id, token) ==
  /\ MayJoin(id, token)
  /\ sessionsById' = [sessionsById EXCEPT
       ![id].receiver = s, ![id].consumed = TRUE]
  /\ out' = Sent({Msg(s, "SESSION_JOINED", id),
                  Msg(sessionsById[id].sender, "PEER_JOINED", id)})
  /\ UNCHANGED sessionIdByPairingCode

\* JOIN_SESSION with a session found: the token of a join by code is not asked.
JoinFound(s, id, token) == Expire(s, id) \/ Refuse(s, id, token) \/ Join(s, id, token)

HandleJoinByCode(s) ==
  /\ \E c \in Codes :
       LET id == sessionIdByPairingCode[c] IN
       IF id = NoId
       THEN out' = {Msg(s, "SESSION_NOT_FOUND", NoId)}
            /\ UNCHANGED <<sessionsById, sessionIdByPairingCode>>
       ELSE JoinFound(s, id, sessionsById[id].nr)
  /\ UNCHANGED <<created, sockets, now>>

HandleJoinByQr(s) ==
  /\ \E id \in Ids, token \in 1..created :
       IF id \notin Live
       THEN out' = {Msg(s, "SESSION_NOT_FOUND", NoId)}
            /\ UNCHANGED <<sessionsById, sessionIdByPairingCode>>
       ELSE JoinFound(s, id, token)
  /\ UNCHANGED <<created, sockets, now>>

\* The handlers, for the clients there are
CreateSession(s) == Unpaired(s) /\ HandleCreateSession(s)
JoinByCode(s) == Unpaired(s) /\ HandleJoinByCode(s)
JoinByQr(s) == Unpaired(s) /\ HandleJoinByQr(s)

\* OFFER, ANSWER and ICE_CANDIDATE of a page that was in session `id`.  A
\* candidate without a peer is dropped, the other two are refused.
RelayMessage(s) ==
  /\ readyState[s] = "open" /\ s \notin silent
  /\ \E id \in Ids, type \in {"OFFER", "ANSWER", "ICE_CANDIDATE"} :
       LET mine == SessionsOf(s) # {} /\ FirstOf(s) = id
           peer == PeerOf(s, id)
       IN out' = CASE ~mine -> {Msg(s, "ERROR", id)}
                   [] mine /\ peer # NoSocket -> Sent({Msg(peer, type, id)})
                   [] mine /\ peer = NoSocket /\ type # "ICE_CANDIDATE" -> {Msg(s, "ERROR", id)}
                   [] OTHER -> {}
  /\ UNCHANGED <<store, sockets, now>>

\* What does not reach route(): a binary, oversized or malformed frame, or one
\* too many.
RefuseMessage(s) ==
  /\ readyState[s] = "open" /\ s \notin silent
  /\ \E type \in {"ERROR", "RATE_LIMITED"} : out' = {Msg(s, type, NoId)}
  /\ UNCHANGED <<store, sockets, now>>
-----------------------------------------------------------------------------
(* Sockets                                                                 *)

Connect(s) ==
  /\ readyState[s] = "new"
  /\ readyState' = [readyState EXCEPT ![s] = "open"]
  /\ isAlive' = [isAlive EXCEPT ![s] = TRUE]
  /\ out' = {}
  /\ UNCHANGED <<store, silent, now>>

\* The page closes the socket, or the network resets it.
Close(s) ==
  /\ readyState[s] = "open"
  /\ readyState' = [readyState EXCEPT ![s] = "closing"]
  /\ out' = {}
  /\ UNCHANGED <<store, isAlive, silent, now>>

FallSilent(s) ==
  /\ readyState[s] = "open" /\ s \notin silent
  /\ silent' = silent \cup {s}
  /\ out' = {}
  /\ UNCHANGED <<store, readyState, isAlive, now>>

\* Slip: a receiver that leaves stays the session's receiver.
ReleaseForgotten(id) == UNCHANGED <<sessionsById, sessionIdByPairingCode>>

\* The receiver's part of handleDisconnect.  It sets `consumed` back, so that the code
\* and the token admit another socket, which sessionManager.ts:22, SECURITY.md:31-34 and
\* README.md:292 say they do not: no property here takes either side.
Release(id) ==
  /\ sessionsById' = [sessionsById EXCEPT ![id].receiver = NoSocket, ![id].consumed = FALSE]
  /\ UNCHANGED sessionIdByPairingCode

\* Slips: the other is written to without a look whether there is one, and only
\* a receiver is told.
NoticeUnchecked(s, id) == {Msg(PeerOf(s, id), "PEER_LEFT", id)}
NoticeToReceiver(s, id) ==
  IF ~IsSender(s, id) \/ PeerOf(s, id) = NoSocket THEN {}
  ELSE Sent({Msg(PeerOf(s, id), "PEER_LEFT", id)})

\* PEER_LEFT to whoever is left
Notice(s, id) ==
  IF PeerOf(s, id) = NoSocket THEN {} ELSE Sent({Msg(PeerOf(s, id), "PEER_LEFT", id)})

\* The close event: handleDisconnect, which handles one session.
HandleDisconnect(s) ==
  /\ readyState[s] = "closing"
  /\ readyState' = [readyState EXCEPT ![s] = "closed"]
  /\ IF SessionsOf(s) = {}
     THEN out' = {} /\ UNCHANGED <<sessionsById, sessionIdByPairingCode>>
     ELSE LET id == FirstOf(s) IN
          /\ out' = Notice(s, id)
          /\ IF IsSender(s, id) THEN Destroy({id}) ELSE Release(id)
  /\ UNCHANGED <<created, isAlive, silent, now>>
-----------------------------------------------------------------------------
(* Intervals                                                               *)

Pong(s) ==
  /\ readyState[s] = "open" /\ s \notin silent /\ ~isAlive[s]
  /\ isAlive' = [isAlive EXCEPT ![s] = TRUE]
  /\ out' = {}
  /\ UNCHANGED <<store, readyState, silent, now>>

\* Slip: a socket that did not answer is pinged again.
DeadNever == {}
\* Sockets that did not answer the ping of the interval before.
Dead == {s \in Sockets : readyState[s] = "open" /\ ~isAlive[s]}

\* The heartbeat interval: the dead are terminated, the others pinged.
Heartbeat ==
  /\ readyState' = [s \in Sockets |-> IF s \in Dead THEN "closing" ELSE readyState[s]]
  /\ isAlive' = [s \in Sockets |-> FALSE]
  /\ out' = {}
  /\ UNCHANGED <<store, silent, now>>

\* Slip: a session that has its receiver is left alone.
ExpiredUnjoined == {id \in Live : IsExpired(id) /\ ~sessionsById[id].consumed}
Expired == {id \in Live : IsExpired(id)}

\* sweepExpired
SweepExpired ==
  /\ Expired # {}
  /\ out' = Sent(UNION {{Msg(p, "SESSION_EXPIRED", id) : p \in Peers(id)} : id \in Expired})
  /\ Destroy(Expired)
  /\ UNCHANGED <<created, sockets, now>>

Tick ==
  /\ now < MaxTime
  /\ now' = now + 1
  /\ out' = {}
  /\ UNCHANGED <<store, sockets>>

SocketStep(s) ==
  \/ CreateSession(s) \/ JoinByCode(s) \/ JoinByQr(s)
  \/ RelayMessage(s) \/ RefuseMessage(s)
  \/ Connect(s) \/ Close(s) \/ FallSilent(s) \/ HandleDisconnect(s) \/ Pong(s)

Next == (\E s \in Sockets : SocketStep(s)) \/ Heartbeat \/ SweepExpired \/ Tick

Spec == Init /\ [][Next]_vars
-----------------------------------------------------------------------------
\* Every variable holds a value of its type.
TypeOK ==
  /\ sessionsById \in [Ids -> Session \cup {NoSession}]
  /\ sessionIdByPairingCode \in [Codes -> Ids \cup {NoId}]
  /\ readyState \in [Sockets -> {"new", "open", "closing", "closed"}]
  /\ isAlive \in [Sockets -> BOOLEAN] /\ silent \in SUBSET Sockets
  /\ now \in 0..MaxTime /\ created \in 0..MaxSessions
  /\ \A m \in out : m.to \in Sockets

\* The two maps agree through every create, sweep, lazy expiry and disconnect:
\* a session is found by its code, a code in the index leads to the session that
\* has it, so no two live sessions share a code.
CodesIndexed ==
  /\ \A id \in Live : sessionIdByPairingCode[sessionsById[id].code] = id
  /\ \A c \in Codes : sessionIdByPairingCode[c] # NoId =>
       /\ sessionIdByPairingCode[c] \in Live
       /\ sessionsById[sessionIdByPairingCode[c]].code = c

\* No session keeps a socket whose close event has run: nobody joins a session
\* whose sender is gone, and no offer or candidate is relayed to a receiver that is.
NoGhost == \A id \in Live : \A s \in Peers(id) : readyState[s] # "closed"

\* Whoever is left in a session when the other's close event runs is told so.
PartnerTold ==
  [][\A id \in Live : \A s, p \in Peers(id) :
       /\ s # p /\ readyState[p] = "open"
       /\ readyState[s] = "closing" /\ readyState'[s] = "closed"
       => Msg(p, "PEER_LEFT", id) \in out']_vars

\* A receiver is not displaced: while a session lives, nobody takes the place of its
\* receiver and nothing but the receiver's own close event ends it, and a new receiver
\* is announced to a sender that is there.  This is the part of sessionManager.ts:22
\* ("Single-use: once a receiver has joined, the token/pairing code can't be reused by a
\* third party") that the code keeps: as long as the receiver stays, and no longer.
ReceiverKept ==
  [][\A id \in Live \cap Live' :
       LET old == sessionsById[id].receiver
           sender == sessionsById[id].sender
       IN sessionsById'[id].receiver # old =>
            IF old = NoSocket
            THEN readyState[sender] = "open" => Msg(sender, "PEER_JOINED", id) \in out'
            ELSE /\ sessionsById'[id].receiver = NoSocket
                 /\ readyState[old] = "closing" /\ readyState'[old] = "closed"]_vars
=============================================================================
