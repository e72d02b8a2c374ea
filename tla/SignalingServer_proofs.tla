----------------------- MODULE SignalingServer_proofs ------------------------
(***************************************************************************)
(* Proofs about the signaling server: for any number of sockets, sessions  *)
(* and codes, any timeouts, and any order of messages, closes, heartbeats  *)
(* and sweeps.                                                             *)
(***************************************************************************)
EXTENDS SignalingServer, TLAPS

\* A socket is in one session at most, which Unpaired asks of the clients: so
\* the one session that handleDisconnect handles is all the socket is in.
Exclusive ==
  \A a, b \in Live : \A s \in Sockets : s \in Peers(a) /\ s \in Peers(b) => a = b

\* A session that has its receiver admits no other: MayJoin looks at `consumed`, and
\* so keeps the receiver.
JoinedIsClosed ==
  \A id \in Live : sessionsById[id].receiver # NoSocket => sessionsById[id].consumed

StoreOK ==
  /\ sessionsById \in [Ids -> Session \cup {NoSession}]
  /\ sessionIdByPairingCode \in [Codes -> Ids \cup {NoId}]

StoreInv == StoreOK /\ CodesIndexed /\ JoinedIsClosed /\ Exclusive

IInv == TypeOK /\ CodesIndexed /\ JoinedIsClosed /\ Exclusive /\ NoGhost

-----------------------------------------------------------------------------
\* A live session is a session, with a sender.
LEMMA LiveIsSession ==
  ASSUME StoreOK, NEW id \in Live
  PROVE  /\ sessionsById[id] \in Session /\ id \in Ids
         /\ sessionsById[id].sender \in Sockets
         /\ sessionsById[id].sender \in Peers(id)
         /\ Peers(id) \subseteq Sockets
BY ServerConstants DEF StoreOK, Live, Session, Peers

\* findSessionBySocket finds the one session of the socket.
LEMMA FirstIsTheOne ==
  ASSUME StoreOK, Exclusive, NEW s \in Sockets, SessionsOf(s) # {}
  PROVE  FirstOf(s) \in SessionsOf(s) /\ SessionsOf(s) = {FirstOf(s)}
<1>1. PICK id : id \in SessionsOf(s)
  OBVIOUS
<1>2. SessionsOf(s) = {id}
  BY <1>1 DEF SessionsOf, Exclusive
<1>3. sessionsById[id].nr <= sessionsById[id].nr
  <2>1. sessionsById[id] \in Session
    BY <1>1, LiveIsSession DEF SessionsOf
  <2> QED
    BY <2>1 DEF Session
<1>4. \E x \in SessionsOf(s) : \A y \in SessionsOf(s) : sessionsById[x].nr <= sessionsById[y].nr
  BY <1>2, <1>3
<1>5. FirstOf(s) \in SessionsOf(s)
  BY <1>4 DEF FirstOf
<1> QED
  BY <1>2, <1>5

\* A step that leaves the two maps alone keeps what is said of them.
LEMMA SameStore ==
  ASSUME StoreInv, UNCHANGED <<sessionsById, sessionIdByPairingCode>>
  PROVE  StoreInv' /\ Live' = Live /\ \A id \in Live : Peers(id)' = Peers(id)
BY DEF StoreInv, StoreOK, CodesIndexed, JoinedIsClosed, Exclusive, Live, Peers

\* destroy() takes whole sessions away, with their codes.
LEMMA DestroyRemoves ==
  ASSUME StoreInv, NEW ids \in SUBSET Live, Destroy(ids)
  PROVE  /\ StoreInv' /\ Live' = Live \ ids
         /\ \A id \in Live' : Peers(id)' = Peers(id)
<1>1. /\ sessionsById' = [id \in Ids |-> IF id \in ids THEN NoSession ELSE sessionsById[id]]
      /\ sessionIdByPairingCode' =
           [c \in Codes |-> IF \E id \in ids : sessionsById[id].code = c
                            THEN NoId ELSE sessionIdByPairingCode[c]]
  BY DEF Destroy
<1>2. Live' = Live \ ids /\ \A id \in Live' : sessionsById'[id] = sessionsById[id]
  BY <1>1 DEF Live, StoreInv, StoreOK
<1>3. \A id \in Live' : Peers(id)' = Peers(id)
  BY <1>2 DEF Peers
<1>4. StoreOK'
  BY <1>1 DEF StoreInv, StoreOK
<1>5. JoinedIsClosed' /\ Exclusive'
  BY <1>2, <1>3 DEF StoreInv, JoinedIsClosed, Exclusive
<1>6. CodesIndexed'
  <2>1. ASSUME NEW id \in Live'
        PROVE  sessionIdByPairingCode'[sessionsById'[id].code] = id
    <3>1. id \in Live /\ id \notin ids /\ sessionsById'[id] = sessionsById[id]
      BY <1>2
    <3>2. sessionsById[id].code \in Codes
      BY <3>1, LiveIsSession DEF StoreInv, Session
    <3>3. ~ \E other \in ids : sessionsById[other].code = sessionsById[id].code
      BY <3>1 DEF StoreInv, CodesIndexed
    <3> QED
      BY <1>1, <3>1, <3>2, <3>3 DEF StoreInv, CodesIndexed
  <2>2. ASSUME NEW c \in Codes, sessionIdByPairingCode'[c] # NoId
        PROVE  /\ sessionIdByPairingCode'[c] \in Live'
               /\ sessionsById'[sessionIdByPairingCode'[c]].code = c
    <3>1. sessionIdByPairingCode'[c] = sessionIdByPairingCode[c]
          /\ ~ \E id \in ids : sessionsById[id].code = c
      BY <1>1, <2>2
    <3>2. /\ sessionIdByPairingCode[c] \in Live
          /\ sessionsById[sessionIdByPairingCode[c]].code = c
      BY <2>2, <3>1 DEF StoreInv, CodesIndexed
    <3> QED
      BY <1>2, <3>1, <3>2
  <2> QED
    BY <2>1, <2>2 DEF CodesIndexed
<1> QED
  BY <1>2, <1>3, <1>4, <1>5, <1>6 DEF StoreInv

\* createSession adds one session, under a code that no other one has.
LEMMA CreateAdds ==
  ASSUME StoreInv, NEW s \in Sockets, SessionsOf(s) = {},
         NEW id \in Ids \ Live, NEW c \in FreeCodes, NEW new \in Session,
         new.code = c, new.sender = s, new.receiver = NoSocket,
         sessionsById' = [sessionsById EXCEPT ![id] = new],
         sessionIdByPairingCode' = [sessionIdByPairingCode EXCEPT ![c] = id]
  PROVE  /\ StoreInv' /\ Live' = Live \cup {id}
         /\ \A other \in Live : Peers(other)' = Peers(other)
         /\ Peers(id)' = {s}
<1>0. /\ c \in Codes /\ sessionIdByPairingCode[c] = NoId /\ id \in Ids /\ id \notin Live
      /\ StoreOK /\ new # NoSession /\ id # NoId /\ s # NoSocket
  BY NoSessionIsNone, ServerConstants DEF FreeCodes, StoreInv
<1>1. StoreOK'
  BY <1>0 DEF StoreOK
<1>2. /\ Live' = Live \cup {id} /\ sessionsById'[id] = new
      /\ \A other \in Live : sessionsById'[other] = sessionsById[other]
  BY <1>0 DEF StoreOK, Live
<1>3. /\ \A other \in Live : Peers(other)' = Peers(other)
      /\ Peers(id)' = {s}
  BY <1>0, <1>2 DEF Peers
<1>4. Exclusive'
  BY <1>2, <1>3 DEF StoreInv, Exclusive, SessionsOf
<1>5. JoinedIsClosed'
  BY <1>2 DEF StoreInv, JoinedIsClosed
<1>6. CodesIndexed'
  <2>1. ASSUME NEW other \in Live
        PROVE  sessionsById[other].code \in Codes \ {c}
    <3>1. sessionsById[other] \in Session /\ other \in Ids
      BY <1>0, LiveIsSession
    <3>2. sessionIdByPairingCode[sessionsById[other].code] = other
      BY DEF StoreInv, CodesIndexed
    <3> QED
      BY <1>0, <3>1, <3>2, ServerConstants DEF Session
  <2>2. \A other \in Live' : sessionIdByPairingCode'[sessionsById'[other].code] = other
    <3>1. sessionIdByPairingCode'[c] = id /\ sessionsById'[id].code = c
      BY <1>0, <1>2 DEF StoreOK
    <3>2. ASSUME NEW other \in Live
          PROVE  sessionIdByPairingCode'[sessionsById'[other].code] = other
      <4>1. sessionsById'[other] = sessionsById[other]
        BY <1>2
      <4>2. sessionIdByPairingCode'[sessionsById[other].code]
              = sessionIdByPairingCode[sessionsById[other].code]
        BY <1>0, <2>1 DEF StoreOK
      <4> QED
        BY <4>1, <4>2 DEF StoreInv, CodesIndexed
    <3> QED
      BY <1>2, <3>1, <3>2
  <2>3. ASSUME NEW d \in Codes, sessionIdByPairingCode'[d] # NoId
        PROVE  /\ sessionIdByPairingCode'[d] \in Live'
               /\ sessionsById'[sessionIdByPairingCode'[d]].code = d
    BY <1>0, <1>2, <2>3 DEF StoreInv, StoreOK, CodesIndexed
  <2> QED
    BY <2>2, <2>3 DEF CodesIndexed
<1> QED
  BY <1>1, <1>2, <1>3, <1>4, <1>5, <1>6 DEF StoreInv

\* A step that changes the receiver of one session, and `consumed` with it.
LEMMA ReceiverChanges ==
  ASSUME StoreInv, NEW id \in Live, NEW new \in Session,
         new.code = sessionsById[id].code, new.sender = sessionsById[id].sender,
         new.receiver # NoSocket => new.consumed,
         new.receiver # NoSocket => SessionsOf(new.receiver) = {},
         sessionsById' = [sessionsById EXCEPT ![id] = new],
         UNCHANGED sessionIdByPairingCode
  PROVE  /\ StoreInv' /\ Live' = Live
         /\ \A other \in Live \ {id} : Peers(other)' = Peers(other)
         /\ Peers(id)' = {new.sender, new.receiver} \ {NoSocket}
<1>0. id \in Ids /\ StoreOK /\ new # NoSession
  BY NoSessionIsNone DEF Live, StoreInv
<1>1. StoreOK'
  BY <1>0 DEF StoreOK
<1>2. /\ Live' = Live /\ sessionsById'[id] = new
      /\ \A other \in Live \ {id} : sessionsById'[other] = sessionsById[other]
  BY <1>0 DEF StoreOK, Live
<1>3. /\ \A other \in Live \ {id} : Peers(other)' = Peers(other)
      /\ Peers(id)' = {new.sender, new.receiver} \ {NoSocket}
  BY <1>2 DEF Peers
<1>4. new.sender \in Peers(id)
  BY <1>0, LiveIsSession
<1>5. Exclusive'
  BY <1>2, <1>3, <1>4 DEF StoreInv, Exclusive, SessionsOf
<1>6. JoinedIsClosed'
  BY <1>2 DEF StoreInv, JoinedIsClosed
<1>7. CodesIndexed'
  BY <1>0, <1>2 DEF StoreInv, StoreOK, CodesIndexed
<1> QED
  BY <1>1, <1>2, <1>3, <1>5, <1>6, <1>7 DEF StoreInv

-----------------------------------------------------------------------------
LEMMA InitInv == Init => IInv
BY ServerConstants
  DEF Init, IInv, TypeOK, CodesIndexed, JoinedIsClosed, Exclusive, NoGhost, Live

\* What the handlers send goes to sockets.
MessagesOK == \A m \in out : m.to \in Sockets

\* A step that keeps the store's promises, lets no socket that a session has
\* close, and sends to sockets keeps the invariant.
LEMMA Preserved ==
  ASSUME IInv, StoreInv', MessagesOK',
         readyState' \in [Sockets -> {"new", "open", "closing", "closed"}],
         isAlive' \in [Sockets -> BOOLEAN], silent' \in SUBSET Sockets,
         now' \in 0..MaxTime, created' \in 0..MaxSessions,
         \A id \in Live' : \A s \in Peers(id)' : readyState'[s] # "closed"
  PROVE  IInv'
BY DEF IInv, TypeOK, StoreInv, StoreOK, MessagesOK, NoGhost

LEMMA InvFacts ==
  ASSUME IInv
  PROVE  /\ StoreInv /\ StoreOK /\ NoGhost
         /\ readyState \in [Sockets -> {"new", "open", "closing", "closed"}]
         /\ isAlive \in [Sockets -> BOOLEAN] /\ silent \in SUBSET Sockets
         /\ now \in 0..MaxTime /\ created \in 0..MaxSessions
BY DEF IInv, TypeOK, StoreInv, StoreOK

\* CREATE_SESSION
LEMMA CreateSessionInv ==
  ASSUME IInv, NEW s \in Sockets, CreateSession(s)
  PROVE  IInv'
<1> USE ServerConstants, InvFacts
<1>1. PICK id \in Ids \ Live, c \in FreeCodes, timeout \in Timeouts :
        /\ sessionsById' = [sessionsById EXCEPT ![id] =
             [nr |-> created + 1, code |-> c, expiresAt |-> now + timeout,
              consumed |-> FALSE, sender |-> s, receiver |-> NoSocket]]
        /\ sessionIdByPairingCode' = [sessionIdByPairingCode EXCEPT ![c] = id]
        /\ out' = {Msg(s, "SESSION_CREATED", id)}
  BY DEF CreateSession, HandleCreateSession
<1>2. /\ Unpaired(s) /\ created < MaxSessions /\ created' = created + 1
      /\ UNCHANGED <<readyState, isAlive, silent, now>>
  BY DEF CreateSession, HandleCreateSession, sockets
<1> DEFINE new == [nr |-> created + 1, code |-> c, expiresAt |-> now + timeout,
                   consumed |-> FALSE, sender |-> s, receiver |-> NoSocket]
<1>3. new \in Session
  <2>1. created + 1 \in Nat /\ now + timeout \in Nat /\ c \in Codes
    BY DEF FreeCodes
  <2> QED
    BY <2>1 DEF Session
<1>4. SessionsOf(s) = {} /\ readyState[s] = "open"
  BY <1>2 DEF Unpaired
<1>5. /\ new.code = c /\ new.sender = s /\ new.receiver = NoSocket
      /\ sessionsById' = [sessionsById EXCEPT ![id] = new]
  BY <1>1
<1> HIDE DEF new
<1>6. /\ StoreInv' /\ Live' = Live \cup {id}
      /\ \A other \in Live : Peers(other)' = Peers(other)
      /\ Peers(id)' = {s}
  BY <1>1, <1>3, <1>4, <1>5, CreateAdds
<1>7. \A other \in Live' : \A p \in Peers(other)' : readyState'[p] # "closed"
  BY <1>2, <1>4, <1>6 DEF NoGhost
<1>8. MessagesOK'
  BY <1>1 DEF MessagesOK, Msg
<1> QED
  BY <1>2, <1>6, <1>7, <1>8, Preserved

\* JOIN_SESSION that found a session: it expires, is refused, or takes place.
LEMMA JoinFoundInv ==
  ASSUME IInv, NEW s \in Sockets, Unpaired(s), NEW id \in Live, NEW token,
         JoinFound(s, id, token), UNCHANGED <<created, sockets, now>>
  PROVE  IInv'
<1> USE ServerConstants, InvFacts
<1>0. UNCHANGED <<created, readyState, isAlive, silent, now>>
  BY DEF sockets
<1>1. CASE Expire(s, id)
  <2>1. Destroy({id}) /\ out' = {Msg(s, "SESSION_NOT_FOUND", NoId)}
    BY <1>1 DEF Expire
  <2>2. /\ StoreInv' /\ Live' = Live \ {id}
        /\ \A other \in Live' : Peers(other)' = Peers(other)
    BY <2>1, DestroyRemoves
  <2>3. \A other \in Live' : \A p \in Peers(other)' : readyState'[p] # "closed"
    BY <1>0, <2>2 DEF NoGhost
  <2>4. MessagesOK'
    BY <2>1 DEF MessagesOK, Msg
  <2> QED
    BY <1>0, <2>2, <2>3, <2>4, Preserved
<1>2. CASE Refuse(s, id, token)
  <2>1. /\ UNCHANGED <<sessionsById, sessionIdByPairingCode>>
        /\ \E type \in {"SESSION_EXPIRED", "ERROR"} : out' = {Msg(s, type, id)}
    BY <1>2 DEF Refuse
  <2>2. StoreInv' /\ Live' = Live /\ \A other \in Live : Peers(other)' = Peers(other)
    BY <2>1, SameStore
  <2>3. \A other \in Live' : \A p \in Peers(other)' : readyState'[p] # "closed"
    BY <1>0, <2>2 DEF NoGhost
  <2>4. MessagesOK'
    BY <2>1 DEF MessagesOK, Msg
  <2> QED
    BY <1>0, <2>2, <2>3, <2>4, Preserved
<1>3. CASE Join(s, id, token)
  <2> DEFINE new == [sessionsById[id] EXCEPT
                       !.receiver = s, !.consumed = TRUE]
  <2>1. /\ sessionsById' = [sessionsById EXCEPT ![id] = new]
        /\ UNCHANGED sessionIdByPairingCode
        /\ out' = Sent({Msg(s, "SESSION_JOINED", id),
                        Msg(sessionsById[id].sender, "PEER_JOINED", id)})
    BY <1>3 DEF Join
  <2>2. sessionsById[id] \in Session /\ sessionsById[id].sender \in Sockets
    BY LiveIsSession
  <2>3. /\ new \in Session /\ new.receiver = s /\ new.consumed
        /\ new.code = sessionsById[id].code /\ new.sender = sessionsById[id].sender
    BY <2>2 DEF Session
  <2> HIDE DEF new
  <2>4. SessionsOf(s) = {} /\ readyState[s] = "open" /\ s # NoSocket
    BY DEF Unpaired
  <2>5. /\ StoreInv' /\ Live' = Live
        /\ \A other \in Live \ {id} : Peers(other)' = Peers(other)
        /\ Peers(id)' = {new.sender, new.receiver} \ {NoSocket}
    BY <2>1, <2>3, <2>4, ReceiverChanges
  <2>6. new.sender \in Peers(id)
    BY <2>3, LiveIsSession
  <2>7. \A other \in Live' : \A p \in Peers(other)' : readyState'[p] # "closed"
    BY <1>0, <2>3, <2>4, <2>5, <2>6 DEF NoGhost
  <2>8. MessagesOK'
    BY <2>1, <2>2 DEF MessagesOK, Msg, Sent
  <2> QED
    BY <1>0, <2>5, <2>7, <2>8, Preserved
<1> QED
  BY <1>1, <1>2, <1>3 DEF JoinFound

\* A step that leaves the store and every socket's readyState alone.
LEMMA StoreAlone ==
  ASSUME IInv, UNCHANGED <<store, readyState>>, MessagesOK',
         isAlive' \in [Sockets -> BOOLEAN], silent' \in SUBSET Sockets,
         now' \in 0..MaxTime
  PROVE  IInv'
<1> USE ServerConstants, InvFacts
<1>1. UNCHANGED <<sessionsById, sessionIdByPairingCode, created>>
  BY DEF store
<1>2. StoreInv' /\ Live' = Live /\ \A id \in Live : Peers(id)' = Peers(id)
  BY <1>1, SameStore
<1>3. \A id \in Live' : \A p \in Peers(id)' : readyState'[p] # "closed"
  BY <1>2 DEF NoGhost
<1> QED
  BY <1>1, <1>2, <1>3, Preserved

\* A step that changes one socket's readyState, not to closed, and no session.
LEMMA SocketsMove ==
  ASSUME IInv, UNCHANGED store, out' = {},
         readyState' \in [Sockets -> {"new", "open", "closing", "closed"}],
         \A s \in Sockets : readyState'[s] = "closed" => readyState[s] = "closed",
         isAlive' \in [Sockets -> BOOLEAN], UNCHANGED <<silent, now>>
  PROVE  IInv'
<1> USE ServerConstants, InvFacts
<1>1. UNCHANGED <<sessionsById, sessionIdByPairingCode, created>>
  BY DEF store
<1>2. StoreInv' /\ Live' = Live /\ \A id \in Live : Peers(id)' = Peers(id)
  BY <1>1, SameStore
<1>3. \A id \in Live : Peers(id) \subseteq Sockets
  BY LiveIsSession
<1>4. \A id \in Live' : \A p \in Peers(id)' : readyState'[p] # "closed"
  BY <1>2, <1>3 DEF NoGhost
<1>5. MessagesOK'
  BY DEF MessagesOK
<1> QED
  BY <1>1, <1>2, <1>4, <1>5, Preserved

\* JOIN_SESSION by code and by QR: nothing is found, or a live session.
LEMMA JoinByCodeInv ==
  ASSUME IInv, NEW s \in Sockets, JoinByCode(s)
  PROVE  IInv'
<1> USE ServerConstants, InvFacts
<1>1. Unpaired(s) /\ UNCHANGED <<created, sockets, now>>
  BY DEF JoinByCode, HandleJoinByCode
<1>2. PICK c \in Codes :
        LET id == sessionIdByPairingCode[c] IN
        IF id = NoId
        THEN out' = {Msg(s, "SESSION_NOT_FOUND", NoId)}
             /\ UNCHANGED <<sessionsById, sessionIdByPairingCode>>
        ELSE JoinFound(s, id, sessionsById[id].nr)
  BY DEF JoinByCode, HandleJoinByCode
<1>3. CASE sessionIdByPairingCode[c] = NoId
  <2>1. UNCHANGED <<store, readyState, isAlive, silent, now>> /\ MessagesOK'
    BY <1>1, <1>2, <1>3 DEF store, sockets, MessagesOK, Msg
  <2> QED
    BY <2>1, StoreAlone
<1>4. CASE sessionIdByPairingCode[c] # NoId
  <2>1. sessionIdByPairingCode[c] \in Live
    BY <1>4 DEF IInv, CodesIndexed
  <2>2. JoinFound(s, sessionIdByPairingCode[c], sessionsById[sessionIdByPairingCode[c]].nr)
    BY <1>2, <1>4
  <2> QED
    BY <1>1, <2>1, <2>2, JoinFoundInv
<1> QED
  BY <1>3, <1>4

LEMMA JoinByQrInv ==
  ASSUME IInv, NEW s \in Sockets, JoinByQr(s)
  PROVE  IInv'
<1> USE ServerConstants, InvFacts
<1>1. Unpaired(s) /\ UNCHANGED <<created, sockets, now>>
  BY DEF JoinByQr, HandleJoinByQr
<1>2. PICK id \in Ids, token \in 1..created :
        IF id \notin Live
        THEN out' = {Msg(s, "SESSION_NOT_FOUND", NoId)}
             /\ UNCHANGED <<sessionsById, sessionIdByPairingCode>>
        ELSE JoinFound(s, id, token)
  BY DEF JoinByQr, HandleJoinByQr
<1>3. CASE id \notin Live
  <2>1. UNCHANGED <<store, readyState, isAlive, silent, now>> /\ MessagesOK'
    BY <1>1, <1>2, <1>3 DEF store, sockets, MessagesOK, Msg
  <2> QED
    BY <2>1, StoreAlone
<1>4. CASE id \in Live
  BY <1>1, <1>2, <1>4, JoinFoundInv
<1> QED
  BY <1>3, <1>4

\* OFFER, ANSWER and ICE_CANDIDATE go to the other of the sender's session.
LEMMA RelayMessageInv ==
  ASSUME IInv, NEW s \in Sockets, RelayMessage(s)
  PROVE  IInv'
<1> USE ServerConstants, InvFacts
<1>1. UNCHANGED <<store, readyState, isAlive, silent, now>>
  BY DEF RelayMessage, sockets
<1>2. PICK id \in Ids, type \in {"OFFER", "ANSWER", "ICE_CANDIDATE"} :
        LET mine == SessionsOf(s) # {} /\ FirstOf(s) = id
            peer == PeerOf(s, id)
        IN out' = CASE ~mine -> {Msg(s, "ERROR", id)}
                    [] mine /\ peer # NoSocket -> Sent({Msg(peer, type, id)})
                    [] mine /\ peer = NoSocket /\ type # "ICE_CANDIDATE" -> {Msg(s, "ERROR", id)}
                    [] OTHER -> {}
  BY DEF RelayMessage
<1>3. CASE SessionsOf(s) # {} /\ FirstOf(s) = id
  <2>1. id \in Live
    BY <1>3, FirstIsTheOne DEF StoreInv, SessionsOf
  <2>2. PeerOf(s, id) \in Sockets \cup {NoSocket}
    BY <2>1, LiveIsSession DEF PeerOf, Session
  <2>3. \/ out' \in {{Msg(PeerOf(s, id), type, id)}, {}} /\ PeerOf(s, id) # NoSocket
        \/ out' \in {{Msg(s, "ERROR", id)}, {}}
    BY <1>2, <1>3 DEF Sent
  <2>4. MessagesOK'
    BY <2>2, <2>3 DEF MessagesOK, Msg
  <2> QED
    BY <1>1, <2>4, StoreAlone
<1>4. CASE ~(SessionsOf(s) # {} /\ FirstOf(s) = id)
  <2>1. out' = {Msg(s, "ERROR", id)}
    BY <1>2, <1>4
  <2>2. MessagesOK'
    BY <2>1 DEF MessagesOK, Msg
  <2> QED
    BY <1>1, <2>2, StoreAlone
<1> QED
  BY <1>3, <1>4

\* The close event: the one session of the socket is destroyed or released, so
\* no session keeps the socket that is closed now.
LEMMA HandleDisconnectInv ==
  ASSUME IInv, NEW s \in Sockets, HandleDisconnect(s)
  PROVE  IInv'
<1> USE ServerConstants, InvFacts
<1>1. /\ readyState' = [readyState EXCEPT ![s] = "closed"]
      /\ UNCHANGED <<created, isAlive, silent, now>>
  BY DEF HandleDisconnect
<1>2. \A p \in Sockets : p # s => readyState'[p] = readyState[p]
  BY <1>1
<1>3. CASE SessionsOf(s) = {}
  <2>1. out' = {} /\ UNCHANGED <<sessionsById, sessionIdByPairingCode>>
    BY <1>3 DEF HandleDisconnect
  <2>2. StoreInv' /\ Live' = Live /\ \A id \in Live : Peers(id)' = Peers(id)
    BY <2>1, SameStore
  <2>3. \A id \in Live : Peers(id) \subseteq Sockets /\ s \notin Peers(id)
    BY <1>3, LiveIsSession DEF SessionsOf
  <2>4. \A id \in Live' : \A p \in Peers(id)' : readyState'[p] # "closed"
    BY <1>2, <2>2, <2>3 DEF NoGhost
  <2>5. MessagesOK'
    BY <2>1 DEF MessagesOK
  <2> QED
    BY <1>1, <2>2, <2>4, <2>5, Preserved
<1>4. CASE SessionsOf(s) # {}
  <2>0. PICK id \in Ids : id = FirstOf(s)
    BY <1>4, FirstIsTheOne, LiveIsSession DEF StoreInv, SessionsOf
  <2>1. id \in SessionsOf(s) /\ SessionsOf(s) = {id}
    BY <1>4, <2>0, FirstIsTheOne DEF StoreInv
  <2>2. /\ out' = Notice(s, id)
        /\ IF IsSender(s, id) THEN Destroy({id}) ELSE Release(id)
    BY <1>4, <2>0 DEF HandleDisconnect
  <2>3. id \in Live /\ s \in Peers(id)
    BY <2>1 DEF SessionsOf
  <2>4. \A other \in Live : Peers(other) \subseteq Sockets /\ (other # id => s \notin Peers(other))
    BY <2>1, LiveIsSession DEF SessionsOf
  <2>5. sessionsById[id] \in Session
    BY <2>3, LiveIsSession
  <2>6. MessagesOK'
    <3>1. PeerOf(s, id) \in Sockets \cup {NoSocket}
      BY <2>5 DEF PeerOf, Session
    <3>2. out' = {} \/ (PeerOf(s, id) # NoSocket /\ out' \in SUBSET {Msg(PeerOf(s, id), "PEER_LEFT", id)})
      BY <2>2 DEF Notice, Sent
    <3> QED
      BY <3>1, <3>2 DEF MessagesOK, Msg
  <2>7. CASE IsSender(s, id)
    <3>1. Destroy({id}) /\ {id} \in SUBSET Live
      BY <2>2, <2>3, <2>7
    <3>2. /\ StoreInv' /\ Live' = Live \ {id}
          /\ \A other \in Live' : Peers(other)' = Peers(other)
      BY <3>1, DestroyRemoves
    <3>3. \A other \in Live' : \A p \in Peers(other)' : readyState'[p] # "closed"
      BY <1>2, <2>4, <3>2 DEF NoGhost
    <3> QED
      BY <1>1, <2>6, <3>2, <3>3, Preserved
  <2>8. CASE ~IsSender(s, id)
    <3> DEFINE new == [sessionsById[id] EXCEPT !.receiver = NoSocket, !.consumed = FALSE]
    <3>1. /\ sessionsById' = [sessionsById EXCEPT ![id] = new]
          /\ UNCHANGED sessionIdByPairingCode
      BY <2>2, <2>8 DEF Release
    <3>2. /\ new \in Session /\ new.receiver = NoSocket
          /\ new.code = sessionsById[id].code /\ new.sender = sessionsById[id].sender
      BY <2>5 DEF Session
    <3> HIDE DEF new
    <3>3. /\ StoreInv' /\ Live' = Live
          /\ \A other \in Live \ {id} : Peers(other)' = Peers(other)
          /\ Peers(id)' = {new.sender, new.receiver} \ {NoSocket}
      BY <2>3, <3>1, <3>2, ReceiverChanges
    <3>4. new.sender \in Peers(id) /\ new.sender # s
      BY <2>3, <2>8, <3>2, LiveIsSession DEF IsSender
    <3>5. \A other \in Live' : \A p \in Peers(other)' : readyState'[p] # "closed"
      <4>1. \A p \in Peers(id)' : readyState'[p] # "closed"
        BY <1>2, <2>3, <2>4, <3>2, <3>3, <3>4 DEF NoGhost
      <4>2. \A other \in Live \ {id} : \A p \in Peers(other)' : readyState'[p] # "closed"
        BY <1>2, <2>4, <3>3 DEF NoGhost
      <4> QED
        BY <3>3, <4>1, <4>2
    <3> QED
      BY <1>1, <2>6, <3>3, <3>5, Preserved
  <2> QED
    BY <2>7, <2>8
<1> QED
  BY <1>3, <1>4

\* sweepExpired
LEMMA SweepExpiredInv ==
  ASSUME IInv, SweepExpired
  PROVE  IInv'
<1> USE ServerConstants, InvFacts
<1>1. /\ out' = Sent(UNION {{Msg(p, "SESSION_EXPIRED", id) : p \in Peers(id)} : id \in Expired})
      /\ Destroy(Expired) /\ UNCHANGED <<created, readyState, isAlive, silent, now>>
  BY DEF SweepExpired, sockets
<1>2. Expired \in SUBSET Live
  BY DEF Expired
<1>3. /\ StoreInv' /\ Live' = Live \ Expired
      /\ \A id \in Live' : Peers(id)' = Peers(id)
  BY <1>1, <1>2, DestroyRemoves
<1>4. \A id \in Live' : \A p \in Peers(id)' : readyState'[p] # "closed"
  BY <1>1, <1>3 DEF NoGhost
<1>5. MessagesOK'
  <2>1. \A id \in Live : Peers(id) \subseteq Sockets
    BY LiveIsSession
  <2> QED
    BY <1>1, <1>2, <2>1 DEF MessagesOK, Msg, Sent
<1> QED
  BY <1>1, <1>3, <1>4, <1>5, Preserved

LEMMA NextInv == IInv /\ [Next]_vars => IInv'
<1> SUFFICES ASSUME IInv, [Next]_vars
             PROVE  IInv'
  OBVIOUS
<1> USE ServerConstants, InvFacts
<1>1. ASSUME NEW s \in Sockets, CreateSession(s) PROVE IInv'
  BY <1>1, CreateSessionInv
<1>2. ASSUME NEW s \in Sockets, JoinByCode(s) PROVE IInv'
  BY <1>2, JoinByCodeInv
<1>3. ASSUME NEW s \in Sockets, JoinByQr(s) PROVE IInv'
  BY <1>3, JoinByQrInv
<1>4. ASSUME NEW s \in Sockets, RelayMessage(s) PROVE IInv'
  BY <1>4, RelayMessageInv
<1>5. ASSUME NEW s \in Sockets, RefuseMessage(s) PROVE IInv'
  <2>1. UNCHANGED <<store, readyState, isAlive, silent, now>> /\ MessagesOK'
    BY <1>5 DEF RefuseMessage, sockets, MessagesOK, Msg
  <2> QED
    BY <2>1, StoreAlone
<1>6. ASSUME NEW s \in Sockets, Connect(s) PROVE IInv'
  BY <1>6, SocketsMove DEF Connect
<1>7. ASSUME NEW s \in Sockets, Close(s) PROVE IInv'
  BY <1>7, SocketsMove DEF Close
<1>8. ASSUME NEW s \in Sockets, FallSilent(s) PROVE IInv'
  <2>1. UNCHANGED <<store, readyState, isAlive, now>> /\ silent' \in SUBSET Sockets /\ MessagesOK'
    BY <1>8 DEF FallSilent, MessagesOK
  <2> QED
    BY <2>1, StoreAlone
<1>9. ASSUME NEW s \in Sockets, HandleDisconnect(s) PROVE IInv'
  BY <1>9, HandleDisconnectInv
<1>10. ASSUME NEW s \in Sockets, Pong(s) PROVE IInv'
  BY <1>10, SocketsMove DEF Pong
<1>11. ASSUME Heartbeat PROVE IInv'
  BY <1>11, SocketsMove DEF Heartbeat
<1>12. ASSUME SweepExpired PROVE IInv'
  BY <1>12, SweepExpiredInv
<1>13. ASSUME Tick PROVE IInv'
  <2>1. UNCHANGED <<store, readyState, isAlive, silent>> /\ now' \in 0..MaxTime /\ MessagesOK'
    BY <1>13 DEF Tick, sockets, MessagesOK
  <2> QED
    BY <2>1, StoreAlone
<1>14. ASSUME UNCHANGED vars PROVE IInv'
  <2>1. UNCHANGED <<store, readyState, isAlive, silent, now, out>>
    BY <1>14 DEF vars, sockets
  <2>2. MessagesOK'
    BY <2>1 DEF IInv, TypeOK, MessagesOK
  <2> QED
    BY <2>1, <2>2, StoreAlone
<1> QED
  BY <1>1, <1>2, <1>3, <1>4, <1>5, <1>6, <1>7, <1>8, <1>9, <1>10, <1>11, <1>12,
     <1>13, <1>14 DEF Next, SocketStep

LEMMA SpecInv == Spec => []IInv
BY InitInv, NextInv, PTL DEF Spec

-----------------------------------------------------------------------------
\* Whatever the sockets send and whenever they die, every variable keeps its
\* type, and a message goes to a socket and never to the null of an absent peer.
THEOREM TypeCorrect == Spec => []TypeOK
<1>1. IInv => TypeOK
  BY DEF IInv
<1> QED
  BY <1>1, SpecInv, PTL

\* The two maps of the session store agree through createSession, destroy,
\* getById and sweepExpired: a pairing code leads to the session that has it.
THEOREM CodesAgree == Spec => []CodesIndexed
<1>1. IInv => CodesIndexed
  BY DEF IInv
<1> QED
  BY <1>1, SpecInv, PTL

\* handleDisconnect, which looks for one session only, leaves the closed socket
\* in none.
THEOREM NoGhosts == Spec => []NoGhost
<1>1. IInv => NoGhost
  BY DEF IInv
<1> QED
  BY <1>1, SpecInv, PTL

-----------------------------------------------------------------------------
\* A socket becomes closed in no other step than its own close event.
LEMMA OnlyDisconnectCloses ==
  ASSUME TypeOK, [Next]_vars, NEW s \in Sockets,
         readyState[s] = "closing", readyState'[s] = "closed"
  PROVE  HandleDisconnect(s)
<1>0. readyState \in [Sockets -> {"new", "open", "closing", "closed"}]
  BY DEF TypeOK
<1>1. readyState' # readyState
  OBVIOUS
<1>2. ASSUME NEW t \in Sockets, SocketStep(t)
      PROVE  HandleDisconnect(s)
  <2>1. CASE HandleDisconnect(t)
    BY <1>0, <2>1 DEF HandleDisconnect
  <2>2. CASE Connect(t) \/ Close(t)
    BY <1>0, <2>2 DEF Connect, Close
  <2>3. CASE CreateSession(t) \/ JoinByCode(t) \/ JoinByQr(t)
    BY <1>1, <2>3 DEF CreateSession, HandleCreateSession, JoinByCode, HandleJoinByCode,
                      JoinByQr, HandleJoinByQr, sockets
  <2>4. CASE RelayMessage(t) \/ RefuseMessage(t) \/ FallSilent(t) \/ Pong(t)
    BY <1>1, <2>4 DEF RelayMessage, RefuseMessage, FallSilent, Pong, sockets
  <2> QED
    BY <1>2, <2>1, <2>2, <2>3, <2>4 DEF SocketStep
<1>3. CASE Heartbeat
  BY <1>0, <1>3 DEF Heartbeat
<1>4. CASE SweepExpired \/ Tick \/ UNCHANGED vars
  BY <1>1, <1>4 DEF SweepExpired, Tick, vars, sockets
<1> QED
  BY <1>2, <1>3, <1>4 DEF Next

\* The session that handleDisconnect handles is the one the two are in, and
\* whoever is in it with the closed socket is its PeerOf.
LEMMA DisconnectTells ==
  ASSUME IInv, NEW id \in Live, NEW s \in Peers(id), NEW p \in Peers(id),
         s # p, readyState[p] = "open", HandleDisconnect(s)
  PROVE  Msg(p, "PEER_LEFT", id) \in out'
<1> USE ServerConstants, InvFacts
<1>1. s \in Sockets /\ p \in Sockets
  BY LiveIsSession
<1>2. id \in SessionsOf(s) /\ SessionsOf(s) # {}
  BY DEF SessionsOf
<1>3. FirstOf(s) = id
  BY <1>1, <1>2, FirstIsTheOne DEF StoreInv
<1>4. out' = Notice(s, id)
  BY <1>2, <1>3 DEF HandleDisconnect
<1>5. PeerOf(s, id) = p /\ p # NoSocket
  BY <1>1 DEF PeerOf, IsSender, Peers
<1> QED
  BY <1>4, <1>5 DEF Notice, Sent, Msg

\* handleDisconnect tells whoever is left, in every session and for every order of
\* closes, expiries and joins before.
THEOREM PartnerIsTold == Spec => PartnerTold
<1> DEFINE Told ==
      \A id \in Live : \A s, p \in Peers(id) :
        /\ s # p /\ readyState[p] = "open"
        /\ readyState[s] = "closing" /\ readyState'[s] = "closed"
        => Msg(p, "PEER_LEFT", id) \in out'
<1>1. IInv /\ [Next]_vars => [Told]_vars
  <2> SUFFICES ASSUME IInv, [Next]_vars,
                      NEW id \in Live, NEW s \in Peers(id), NEW p \in Peers(id),
                      s # p, readyState[p] = "open",
                      readyState[s] = "closing", readyState'[s] = "closed"
               PROVE  Msg(p, "PEER_LEFT", id) \in out'
    OBVIOUS
  <2>1. s \in Sockets
    BY InvFacts, LiveIsSession
  <2>2. HandleDisconnect(s)
    BY <2>1, OnlyDisconnectCloses DEF IInv
  <2> QED
    BY <2>2, DisconnectTells
<1> QED
  BY <1>1, SpecInv, PTL DEF Spec, PartnerTold
-----------------------------------------------------------------------------
\* A step that keeps the session of an id and changes its receiver is a join or the
\* close event of the receiver.
LEMMA ReceiverMoves ==
  ASSUME IInv, [Next]_vars, NEW id \in Live \cap Live',
         sessionsById'[id].receiver # sessionsById[id].receiver
  PROVE  \/ \E s \in Sockets : \E token : Join(s, id, token)
         \/ \E s \in Sockets : HandleDisconnect(s)
<1>0. sessionsById' # sessionsById /\ id \in Ids /\ sessionsById'[id] # NoSession
  BY DEF Live
<1>1. ASSUME NEW ids, Destroy(ids)
      PROVE  FALSE
  BY <1>0, <1>1 DEF Destroy
<1>2. ASSUME NEW s \in Sockets, NEW other \in Live, NEW token, JoinFound(s, other, token)
      PROVE  Join(s, id, token)
  <2>1. ~Expire(s, other) /\ ~Refuse(s, other, token)
    BY <1>0, <1>1 DEF Expire, Refuse
  <2>2. Join(s, other, token)
    BY <1>2, <2>1 DEF JoinFound
  <2>3. sessionsById' = [sessionsById EXCEPT ![other].receiver = s, ![other].consumed = TRUE]
    BY <2>2 DEF Join
  <2>4. other = id
    BY <1>0, <2>3, InvFacts DEF StoreOK
  <2> QED
    BY <2>2, <2>4
<1>3. ASSUME NEW s \in Sockets, SocketStep(s)
      PROVE  HandleDisconnect(s) \/ \E token : Join(s, id, token)
  <2>1. CASE CreateSession(s)
    BY <1>0, <2>1 DEF CreateSession, HandleCreateSession
  <2>2. CASE JoinByCode(s)
    <3>1. PICK c \in Codes :
            LET found == sessionIdByPairingCode[c] IN
            found # NoId /\ JoinFound(s, found, sessionsById[found].nr)
      BY <1>0, <2>2 DEF JoinByCode, HandleJoinByCode
    <3>2. sessionIdByPairingCode[c] \in Live
      BY <3>1 DEF IInv, CodesIndexed
    <3> QED
      BY <1>2, <3>1, <3>2
  <2>3. CASE JoinByQr(s)
    <3>1. PICK other \in Ids, token \in 1..created : other \in Live /\ JoinFound(s, other, token)
      BY <1>0, <2>3 DEF JoinByQr, HandleJoinByQr
    <3> QED
      BY <1>2, <3>1
  <2>4. CASE \/ RelayMessage(s) \/ RefuseMessage(s) \/ Connect(s)
             \/ Close(s) \/ FallSilent(s) \/ Pong(s)
    BY <1>0, <2>4 DEF RelayMessage, RefuseMessage, Connect, Close, FallSilent, Pong, store
  <2> QED
    BY <1>3, <2>1, <2>2, <2>3, <2>4 DEF SocketStep
<1>4. ~SweepExpired
  BY <1>1 DEF SweepExpired
<1>5. ~Heartbeat /\ ~Tick /\ ~UNCHANGED vars
  BY <1>0 DEF Heartbeat, Tick, vars, store
<1> QED
  BY <1>3, <1>4, <1>5 DEF Next

\* joinAsReceiver finds the place free and tells a sender that is there.
LEMMA JoinAnnounces ==
  ASSUME IInv, NEW id \in Live, NEW s \in Sockets, NEW token, Join(s, id, token)
  PROVE  /\ sessionsById[id].receiver = NoSocket
         /\ readyState[sessionsById[id].sender] = "open"
              => Msg(sessionsById[id].sender, "PEER_JOINED", id) \in out'
<1>1. ~sessionsById[id].consumed
  BY DEF Join, MayJoin
<1> QED
  BY <1>1 DEF IInv, JoinedIsClosed, Join, Sent, Msg

\* handleDisconnect takes no receiver away but the one whose socket it is.
LEMMA DisconnectReleases ==
  ASSUME IInv, NEW s \in Sockets, HandleDisconnect(s), NEW id \in Live \cap Live',
         sessionsById'[id].receiver # sessionsById[id].receiver
  PROVE  /\ sessionsById[id].receiver = s /\ sessionsById'[id].receiver = NoSocket
         /\ readyState[s] = "closing" /\ readyState'[s] = "closed"
<1> USE ServerConstants, InvFacts
<1>1. readyState[s] = "closing" /\ readyState'[s] = "closed"
  BY DEF HandleDisconnect
<1>2. SessionsOf(s) # {}
  BY DEF HandleDisconnect
<1>3. PICK found \in Live : found = FirstOf(s) /\ s \in Peers(found)
  BY <1>2, FirstIsTheOne DEF StoreInv, SessionsOf
<1>4. IF IsSender(s, found) THEN Destroy({found}) ELSE Release(found)
  BY <1>2, <1>3 DEF HandleDisconnect
<1>5. id \in Ids /\ sessionsById'[id] # NoSession
  BY DEF Live
<1>6. ~IsSender(s, found) /\ Release(found)
  BY <1>4, <1>5 DEF Destroy
<1>7. sessionsById' = [sessionsById EXCEPT ![found].receiver = NoSocket, ![found].consumed = FALSE]
  BY <1>6 DEF Release
<1>8. found = id
  BY <1>5, <1>7 DEF StoreOK
<1>9. sessionsById[id].receiver = s
  BY <1>3, <1>6, <1>8 DEF IsSender, Peers
<1>10. sessionsById'[id].receiver = NoSocket
  <2>1. sessionsById \in [Ids -> Session \cup {NoSession}] /\ sessionsById[id] \in Session
    BY LiveIsSession DEF StoreOK
  <2> QED
    BY <1>5, <1>7, <1>8, <2>1 DEF Session
<1> QED
  BY <1>1, <1>9, <1>10

\* joinAsReceiver displaces nobody and handleDisconnect takes only the socket that
\* closed: a receiver keeps its place until its own close event, in every session.
THEOREM ReceiverIsKept == Spec => ReceiverKept
<1> DEFINE Kept ==
      \A id \in Live \cap Live' :
        LET old == sessionsById[id].receiver
            sender == sessionsById[id].sender
        IN sessionsById'[id].receiver # old =>
             IF old = NoSocket
             THEN readyState[sender] = "open" => Msg(sender, "PEER_JOINED", id) \in out'
             ELSE /\ sessionsById'[id].receiver = NoSocket
                  /\ readyState[old] = "closing" /\ readyState'[old] = "closed"
<1>1. IInv /\ [Next]_vars => [Kept]_vars
  <2> SUFFICES ASSUME IInv, [Next]_vars, NEW id \in Live \cap Live',
                      sessionsById'[id].receiver # sessionsById[id].receiver
               PROVE  LET old == sessionsById[id].receiver
                          sender == sessionsById[id].sender
                      IN IF old = NoSocket
                         THEN readyState[sender] = "open"
                                => Msg(sender, "PEER_JOINED", id) \in out'
                         ELSE /\ sessionsById'[id].receiver = NoSocket
                              /\ readyState[old] = "closing" /\ readyState'[old] = "closed"
    OBVIOUS
  <2>1. CASE \E s \in Sockets : \E token : Join(s, id, token)
    BY <2>1, JoinAnnounces
  <2>2. CASE \E s \in Sockets : HandleDisconnect(s)
    BY <2>2, DisconnectReleases, ServerConstants
  <2> QED
    BY <2>1, <2>2, ReceiverMoves
<1> QED
  BY <1>1, SpecInv, PTL DEF Spec, ReceiverKept
=============================================================================
