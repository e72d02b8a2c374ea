------------------------------- MODULE Pairing -------------------------------
(***************************************************************************)
(* A sending page and a receiving page on their way into one session: the  *)
(* pages (SendPage.tsx, ReceiveScanPage.tsx), the start of their sessions  *)
(* (SenderSession.start, ReceiverSession.join), the SignalingClient of     *)
(* each session object, the sockets between them and the server, which is  *)
(* SignalingServer with its handlers as they are.                          *)
(*                                                                         *)
(* A WebSocket has two ends that learn of its end apart: `end` is the      *)
(* browser's, readyState the server's.  A page may replace its session     *)
(* object (Try Again) while the client of the old one lives on.            *)
(***************************************************************************)
EXTENDS Naturals, Sequences, FiniteSets, Functions

CONSTANTS
  Senders, Receivers, \* session objects that the two pages may construct
  NoObject,
  MaxReconnects,      \* MAX_RECONNECT_ATTEMPTS
  MaxFailures,        \* bound: sockets that fail or are lost
  Sockets, Ids, Codes, NoSocket, NoSession, NoId, Timeouts, MaxTime, MaxSessions

ASSUME PairingConstants ==
  /\ Senders \cap Receivers = {} /\ NoObject \notin Senders \cup Receivers
  /\ NoSocket \notin Sockets /\ NoId \notin Ids /\ Timeouts \subseteq Nat
  /\ {MaxReconnects, MaxFailures, MaxTime, MaxSessions} \subseteq Nat

Objects == Senders \cup Receivers

VARIABLES
  sessionsById, sessionIdByPairingCode, readyState, isAlive, silent, now, created, out,
  client,   \* the SignalingClient of each session object
  end,      \* the browser's end of each socket: unused, connecting, open, dead, closed
  owner,    \* the session object that opened the socket, NoObject before
  asking,   \* sockets that connect() opened and whose promise is not settled
  asked,    \* the request on its way to the server: none, create, join
  mail,     \* messages on their way to the page
  ref,      \* sessionRef of the sending and of the receiving page
  shows,    \* what the two pages show
  starting, \* sender sessions whose start() awaits its encryption keys
  joinRequested, \* receiver sessions whose join() is under way or done
  failures, \* failures that are left
  lost      \* history: an open socket was lost

Server == INSTANCE SignalingServer
C == INSTANCE SignalingClient

ASSUME NoSessionIsNone == NoSession \notin Server!Session

serverVars == <<sessionsById, sessionIdByPairingCode, readyState, isAlive, silent,
                now, created, out>>
socketVars == <<end, owner, asking, asked, mail>>
pageVars == <<client, ref, shows, starting, joinRequested>>
vars == <<serverVars, socketVars, pageVars, failures, lost>>

RoleOf(c) == IF c \in Senders THEN "sender" ELSE "receiver"
Unused == {s \in Sockets : end[s] = "unused"}

Init ==
  /\ Server!Init
  /\ client = [c \in Objects |-> C!NewClient]
  /\ end = [s \in Sockets |-> "unused"] /\ owner = [s \in Sockets |-> NoObject]
  /\ asking = {} /\ asked = [s \in Sockets |-> "none"] /\ mail = [s \in Sockets |-> <<>>]
  /\ ref = [sender |-> NoObject, receiver |-> NoObject]
  /\ shows = [sender |-> "select", receiver |-> "form"]
  /\ starting = {} /\ joinRequested = {} /\ failures = MaxFailures /\ lost = FALSE

Fail == failures > 0 /\ failures' = failures - 1
-----------------------------------------------------------------------------
(* The pages                                                               *)

\* openSocket of object c; `connecting` says whether connect() called it.
Open(c, connecting) ==
  /\ Unused # {}
  /\ LET s == CHOOSE s \in Unused : TRUE IN
     /\ client' = [client EXCEPT ![c] =
          C!OpenSocket(IF connecting THEN C!Connecting(@) ELSE @, s)]
     /\ end' = [end EXCEPT ![s] = "connecting"]
     /\ owner' = [owner EXCEPT ![s] = c]
     /\ asking' = IF connecting THEN asking \cup {s} ELSE asking
  /\ UNCHANGED <<asked, mail>>

Fresh(objects) == {c \in objects \ starting : client[c] = C!NewClient}

\* socket.close() at the browser's end
Shut(ends, s) ==
  IF s # NoSocket /\ ends[s] \in {"connecting", "open"} THEN [ends EXCEPT ![s] = "dead"] ELSE ends

\* close() of the client of object c
CloseClient(c) ==
  /\ client' = [client EXCEPT ![c] = C!Close(@)]
  /\ end' = Shut(end, client[c].socket)
  /\ mail' = [s \in Sockets |-> IF s = client[c].socket THEN <<>> ELSE mail[s]]

\* handleGenerateQr, by Generate QR or by Try Again: the session object before is
\* not destroyed.
GenerateQr ==
  /\ shows["sender"] \in {"select", "error"}
  /\ \E c \in Fresh(Senders) :
       ref' = [ref EXCEPT !["sender"] = c] /\ starting' = starting \cup {c}
  /\ shows' = [shows EXCEPT !["sender"] = "creating"]
  /\ UNCHANGED <<serverVars, socketVars, client, joinRequested, failures, lost>>

\* start() goes on, and connect() sets manuallyClosed back: also when the page
\* destroyed the session object in the meantime.
StartConnects(c) ==
  /\ c \in starting
  /\ starting' = starting \ {c}
  /\ Open(c, TRUE)
  /\ UNCHANGED <<serverVars, ref, shows, joinRequested, failures, lost>>

\* join() of a receiver session
Join(c) ==
  /\ joinRequested' = joinRequested \cup {c}
  /\ Open(c, TRUE)

\* Slip: join() does not look whether it was called before.
JoinAgain(c) == Join(c)
\* A second join() of the same session does nothing.
JoinOnce(c) ==
  IF c \in joinRequested
  THEN UNCHANGED <<joinRequested, client, end, owner, asking, asked, mail>>
  ELSE Join(c)

\* A code is entered or a QR scanned, perhaps a second time: startSession keeps
\* the session object that there is.
EnterCode ==
  /\ shows["receiver"] \in {"form", "connecting"}
  /\ \E c \in IF ref["receiver"] = NoObject THEN Fresh(Receivers) ELSE {ref["receiver"]} :
       ref' = [ref EXCEPT !["receiver"] = c] /\ JoinOnce(c)
  /\ shows' = [shows EXCEPT !["receiver"] = "connecting"]
  /\ UNCHANGED <<serverVars, starting, failures, lost>>

\* Cancel, Back, or the page is left, or the receiving page scans a code that is
\* none: the session object is destroyed.
Leave(role) ==
  /\ ref[role] # NoObject
  /\ CloseClient(ref[role])
  /\ ref' = [ref EXCEPT ![role] = NoObject]
  /\ shows' = [shows EXCEPT ![role] = IF role = "sender" THEN "select" ELSE "form"]
  /\ UNCHANGED <<serverVars, owner, asking, asked, starting, joinRequested, failures, lost>>
-----------------------------------------------------------------------------
(* Events of the browser's sockets                                         *)

Handshake(s) ==
  /\ end[s] = "connecting"
  /\ Server!Connect(s)
  /\ UNCHANGED <<socketVars, pageVars, failures, lost>>

\* open: the first one settles connect(), and the session sends its request over
\* this.socket.  After a reconnect nothing is sent.
OpenEvent(s) ==
  LET c == owner[s]
      via == client[c].socket IN
  /\ end[s] = "connecting" /\ readyState[s] # "new"
  /\ end' = [end EXCEPT ![s] = "open"]
  /\ client' = [client EXCEPT ![c] = C!OnOpen(@)]
  /\ asking' = asking \ {s}
  /\ asked' = IF s \in asking /\ via # NoSocket /\ end'[via] = "open"
              THEN [asked EXCEPT ![via] = IF c \in Senders THEN "create" ELSE "join"]
              ELSE asked
  /\ UNCHANGED <<serverVars, owner, mail, ref, shows, starting, joinRequested, failures, lost>>

\* Slip: the error is not written to the store.
RejectedSilently(c, clients, ends) ==
  /\ joinRequested' = joinRequested \ {c}
  /\ client' = clients /\ end' = ends /\ UNCHANGED <<ref, shows>>

\* connect() is rejected, and the error is written where both pages read theirs: a
\* sending page with a session shows its error view and a receiving page destroys
\* the session it has, whichever object failed.
Rejected(c, clients, ends) ==
  LET mine == ref["receiver"]
      destroys == c \in Receivers /\ mine # NoObject IN
  /\ joinRequested' = joinRequested \ {c}
  /\ IF destroys
     THEN /\ ref' = [ref EXCEPT !["receiver"] = NoObject]
          /\ shows' = [shows EXCEPT !["receiver"] = "form"]
          /\ client' = [clients EXCEPT ![mine] = C!Close(@)]
          /\ end' = Shut(ends, clients[mine].socket)
     ELSE /\ shows' = IF c \in Senders /\ shows["sender"] # "select"
                      THEN [shows EXCEPT !["sender"] = "error"] ELSE shows
          /\ client' = clients /\ end' = ends /\ UNCHANGED ref

\* close: a pending connect() is rejected, and the client plans a reconnect unless
\* it was closed by its owner.
CloseEvent(s) ==
  LET c == owner[s]
      clients == [client EXCEPT ![c] = C!OnClose(@)]
      ends == [end EXCEPT ![s] = "closed"] IN
  /\ end[s] = "dead"
  /\ asking' = asking \ {s}
  /\ IF s \in asking THEN Rejected(c, clients, ends)
     ELSE client' = clients /\ end' = ends /\ UNCHANGED <<ref, shows, joinRequested>>
  /\ UNCHANGED <<serverVars, owner, asked, mail, starting, failures, lost>>

\* No answer within CONNECT_TIMEOUT_MS: the socket is closed and a pending
\* connect() rejected; the close event follows.
ConnectTimeout(s) ==
  LET c == owner[s]
      ends == [end EXCEPT ![s] = "dead"] IN
  /\ end[s] = "connecting" /\ Fail
  /\ asking' = asking \ {s}
  /\ IF s \in asking THEN Rejected(c, client, ends)
     ELSE end' = ends /\ UNCHANGED <<client, ref, shows, joinRequested>>
  /\ UNCHANGED <<serverVars, owner, asked, mail, starting, lost>>

ReconnectTimer(c) ==
  /\ client[c].timer
  /\ Open(c, FALSE)
  /\ UNCHANGED <<serverVars, ref, shows, starting, joinRequested, failures, lost>>
-----------------------------------------------------------------------------
(* The network                                                             *)

\* The connection is refused.
Refused(s) ==
  /\ end[s] = "connecting" /\ readyState[s] = "new" /\ Fail
  /\ end' = [end EXCEPT ![s] = "dead"]
  /\ UNCHANGED <<serverVars, owner, asking, asked, mail, pageVars, lost>>

\* An open socket is lost: the server is told (ServerHears), or never learns of it.
Lose(s) ==
  /\ end[s] = "open" /\ Fail
  /\ end' = [end EXCEPT ![s] = "dead"]
  /\ mail' = [mail EXCEPT ![s] = <<>>]
  /\ lost' = TRUE
  /\ \/ UNCHANGED <<serverVars, asked>>
     \/ Server!FallSilent(s) /\ asked' = [asked EXCEPT ![s] = "none"]
  /\ UNCHANGED <<owner, asking, pageVars>>

ServerHears(s) ==
  /\ end[s] \in {"dead", "closed"} /\ s \notin silent
  /\ asked[s] = "none"
  /\ Server!Close(s)
  /\ UNCHANGED <<socketVars, pageVars, failures, lost>>
-----------------------------------------------------------------------------
(* The server's steps                                                      *)

\* What a step of the server sends gets into the mail of sockets that live.
Mailed ==
  mail' = [s \in Sockets |->
    IF end[s] \in {"connecting", "open"} /\ \E m \in out' : m.to = s
    THEN Append(mail[s], (CHOOSE m \in out' : m.to = s).t) ELSE mail[s]]

ServerStep(A) ==
  /\ A /\ Mailed
  /\ UNCHANGED <<end, owner, asking, asked, pageVars, failures, lost>>

TakeRequest(s) ==
  /\ readyState[s] = "open" /\ asked[s] # "none"
  /\ \/ asked[s] = "create" /\ Server!HandleCreateSession(s)
     \/ asked[s] = "join" /\ (Server!HandleJoinByCode(s) \/ Server!HandleJoinByQr(s))
  /\ asked' = [asked EXCEPT ![s] = "none"]
  /\ Mailed
  /\ UNCHANGED <<end, owner, asking, pageVars, failures, lost>>

\* A page that is there answers a ping before the next one: the server ends only
\* sockets whose page is gone, and only the beats in the meantime change anything.
Heartbeat ==
  /\ \E s \in silent : readyState[s] = "open"
  /\ \A s \in Sockets : readyState[s] = "open" /\ s \notin silent => isAlive[s]
  /\ ServerStep(Server!Heartbeat)

ServerSteps ==
  \/ \E s \in Sockets : ServerStep(Server!HandleDisconnect(s)) \/ ServerStep(Server!Pong(s))
  \/ ServerStep(Server!SweepExpired)
-----------------------------------------------------------------------------
(* Messages at the pages                                                   *)

\* What a page shows after a message: an error hides the rest until the user acts.
View(role, type) ==
  CASE shows[role] \in {"select", "form", "error"} -> shows[role]
    [] type = "SESSION_CREATED" -> "code"
    [] type \in {"SESSION_JOINED", "PEER_JOINED"} -> "paired"
    [] type = "PEER_LEFT" -> "interrupted"
    [] type = "SESSION_EXPIRED" -> "expired"
    [] OTHER -> shows[role]

TakeMail(s) ==
  LET c == owner[s]
      type == Head(mail[s])
      fails == c \in Receivers /\ type \in {"ERROR", "SESSION_NOT_FOUND"} IN
  /\ end[s] = "open" /\ mail[s] # <<>>
  /\ IF fails
     THEN /\ CloseClient(c)
          /\ ref' = [ref EXCEPT !["receiver"] = NoObject]
          /\ shows' = [shows EXCEPT !["receiver"] = "form"]
     ELSE /\ mail' = [mail EXCEPT ![s] = Tail(@)]
          /\ shows' = [shows EXCEPT ![RoleOf(c)] = View(RoleOf(c), type)]
          /\ UNCHANGED <<client, end, ref>>
  /\ UNCHANGED <<serverVars, owner, asking, asked, starting, joinRequested, failures, lost>>
-----------------------------------------------------------------------------
Events ==
  \/ \E s \in Sockets :
       \/ Handshake(s) \/ OpenEvent(s) \/ CloseEvent(s)
       \/ ServerHears(s) \/ TakeRequest(s) \/ TakeMail(s)
  \/ \E c \in Objects : ReconnectTimer(c) \/ StartConnects(c)
  \/ ServerSteps

Next ==
  \/ Events \/ Heartbeat
  \/ GenerateQr \/ EnterCode \/ (\E role \in {"sender", "receiver"} : Leave(role))
  \/ \E s \in Sockets : ConnectTimeout(s) \/ Refused(s) \/ Lose(s)
  \/ ServerStep(Server!Tick)

Spec == Init /\ [][Next]_vars

\* Events, timers and intervals come; users and the network need not do anything.
FairSpec == Spec /\ WF_vars(Events) /\ WF_vars(Heartbeat)
-----------------------------------------------------------------------------
\* Every variable holds a value of its type.
TypeOK ==
  /\ client \in [Objects -> C!Clients]
  /\ end \in [Sockets -> {"unused", "connecting", "open", "dead", "closed"}]
  /\ owner \in [Sockets -> Objects \cup {NoObject}] /\ asking \subseteq Sockets
  /\ asked \in [Sockets -> {"none", "create", "join"}]
  /\ failures \in 0..MaxFailures /\ starting \subseteq Senders /\ joinRequested \subseteq Receivers

\* The pages behave as SignalingServer assumes of its clients: nobody asks for a
\* session over a socket that is in one.
KeepsServerSpec == Server!Spec

\* A client has one socket at a time, and none while a reconnect is planned,
\* whatever its timeouts, close events and reconnects did: with two, every message
\* would be handled twice.
OneSocket ==
  \A c \in Objects :
    Cardinality({s \in Sockets : owner[s] = c /\ end[s] \in {"connecting", "open"}})
      <= IF client[c].timer THEN 0 ELSE 1

\* After close() a client opens no further socket unless connect() is called: no
\* timer that was under way and no late event of an old socket brings it back.
ClosedForGood ==
  [][\A c \in Objects \ starting : client[c].manuallyClosed =>
       \A s \in Sockets : owner'[s] = c => owner[s] = c]_vars

\* Neither page waits for ever while no open socket is lost: the request is
\* answered, or the connection fails and the page says so.
RequestAnswered ==
  /\ shows["sender"] = "creating" ~> shows["sender"] # "creating" \/ lost
  /\ shows["receiver"] = "connecting" ~> shows["receiver"] # "connecting" \/ lost

\* A page that vanishes without closing its socket leaves its session in the end, and
\* an expired session is removed although nobody asks for it: the intervals see to both.
SilentPeerLeaves == silent # {} ~> \A s \in silent : Server!SessionsOf(s) = {}
ExpiredIsRemoved ==
  \A id \in Ids :
    sessionsById[id] # NoSession /\ Server!IsExpired(id)
      ~> sessionsById[id] = NoSession \/ ~Server!IsExpired(id)
-----------------------------------------------------------------------------
(* What the repository says and the code does not keep                     *)

\* SignalingClient.ts: "Handles reconnection with backoff so a brief network blip
\* doesn't abort a pairing session": a page that goes on showing a code over an
\* open socket has its session on the server.
Showing == shows["sender"] = "code" /\ client[ref["sender"]].state = "open"
Served == \E id \in Ids : sessionsById[id] # NoSession
                          /\ sessionsById[id].sender = client[ref["sender"]].socket
BlipKeepsPairing == Showing /\ ~Served ~> ~Showing \/ Served
=============================================================================
