--------------------------- MODULE Pairing_proofs ---------------------------
(***************************************************************************)
(* For every number of session objects and sockets, of reconnects and of   *)
(* failures: a SignalingClient has one socket at a time and none while a   *)
(* reconnect is planned, a closed one stays closed, and the two pages use  *)
(* the server as SignalingServer assumes of its clients.                   *)
(*                                                                         *)
(* The argument follows the sockets of one client.  OneSocket is not       *)
(* inductive: a socket whose end the page knows of but whose close event   *)
(* is still to come will plan a reconnect, so there must be no other one   *)
(* beside it either (Sound).                                               *)
(***************************************************************************)
EXTENDS Pairing, FiniteSetTheorems, TLAPS

Ends == {"unused", "connecting", "open", "dead", "closed"}
Alive == {"connecting", "open"}
Present == Alive \cup {"dead"}   \* its close event is still to come

\* Object c with client cl.  Before its first socket it has none, and none is planned.
\* A socket that lives is this.socket of a client that was not closed.  A client that
\* was not closed has one socket whose close event is to come, or a planned reconnect.
Sound(c, cl, ends, owners) ==
  /\ cl.state = "idle" => ~cl.timer /\ \A s \in Sockets : owners[s] # c
  /\ \A s \in Sockets : owners[s] = c /\ ends[s] \in Alive =>
       ~cl.manuallyClosed /\ cl.socket = s
  /\ ~cl.manuallyClosed => \A s, t \in Sockets :
       owners[s] = c /\ owners[t] = c /\ ends[s] \in Present /\ ends[t] \in Present =>
         s = t /\ ~cl.timer

\* Every object is sound; one whose start() awaits its keys has had no socket.
Sane(clients, ends, owners, starts) ==
  /\ clients \in [Objects -> C!Clients]
  /\ ends \in [Sockets -> Ends] /\ owners \in [Sockets -> Objects \cup {NoObject}]
  /\ \A s \in Sockets : ends[s] = "unused" <=> owners[s] = NoObject
  /\ \A c \in Objects : Sound(c, clients[c], ends, owners)
  /\ \A c \in starts \cap Objects : clients[c].state = "idle"
-----------------------------------------------------------------------------
(* The clients                                                             *)

LEMMA ClientTypes ==
  ASSUME NEW cl \in C!Clients
  PROVE  /\ C!Close(cl) \in C!Clients
         /\ C!Close(cl).manuallyClosed /\ ~C!Close(cl).timer
         /\ C!Close(cl).state = cl.state
         /\ ~cl.timer => C!OnOpen(cl) \in C!Clients
         /\ C!OnOpen(cl).state = "open" /\ C!OnOpen(cl).socket = cl.socket
         /\ C!OnOpen(cl).timer = cl.timer /\ C!OnOpen(cl).manuallyClosed = cl.manuallyClosed
<1>1. MaxReconnects \in Nat /\ 0 \in 0..MaxReconnects
  BY PairingConstants
<1>2. /\ C!Close(cl) \in C!Clients
      /\ C!Close(cl).manuallyClosed /\ ~C!Close(cl).timer
      /\ C!Close(cl).state = cl.state
  BY DEF C!Clients, C!Close
<1>3. /\ ~cl.timer => C!OnOpen(cl) \in C!Clients
      /\ C!OnOpen(cl).state = "open" /\ C!OnOpen(cl).socket = cl.socket
  BY <1>1 DEF C!Clients, C!OnOpen
<1>4. C!OnOpen(cl).timer = cl.timer /\ C!OnOpen(cl).manuallyClosed = cl.manuallyClosed
  BY DEF C!Clients, C!OnOpen
<1> QED  BY <1>2, <1>3, <1>4

LEMMA OpenTypes ==
  ASSUME NEW cl \in C!Clients, NEW s \in Sockets,
         NEW new \in {C!OpenSocket(cl, s), C!OpenSocket(C!Connecting(cl), s)}
  PROVE  /\ new \in C!Clients /\ new.state # "idle" /\ new.socket = s /\ ~new.timer
         /\ ~cl.manuallyClosed => ~new.manuallyClosed
         /\ new = C!OpenSocket(C!Connecting(cl), s) => ~new.manuallyClosed
<1>1. CASE new = C!OpenSocket(cl, s)
  BY <1>1 DEF C!Clients, C!OpenSocket, C!Connecting
<1>2. CASE new = C!OpenSocket(C!Connecting(cl), s)
  BY <1>2 DEF C!Clients, C!OpenSocket, C!Connecting
<1> QED  BY <1>1, <1>2

LEMMA CloseEventTypes ==
  ASSUME NEW cl \in C!Clients
  PROVE  /\ C!OnClose(cl) \in C!Clients /\ C!OnClose(cl).state # "idle"
         /\ C!OnClose(cl).socket = cl.socket
         /\ C!OnClose(cl).manuallyClosed = cl.manuallyClosed
<1>1. CASE cl.manuallyClosed
  BY <1>1 DEF C!Clients, C!OnClose
<1>2. CASE ~cl.manuallyClosed /\ cl.attempts >= MaxReconnects
  BY <1>2 DEF C!Clients, C!OnClose, C!ScheduleReconnect
<1>3. CASE ~cl.manuallyClosed /\ ~(cl.attempts >= MaxReconnects)
  <2>1. /\ cl.attempts + 1 \in 0..MaxReconnects /\ cl.attempts + 1 > 0
        /\ cl.attempts \in 0..MaxReconnects
    BY <1>3, PairingConstants DEF C!Clients
  <2>2. C!OnClose(cl) = [cl EXCEPT !.state = "reconnecting", !.attempts = cl.attempts + 1,
                                   !.timer = TRUE]
    BY <1>3 DEF C!OnClose, C!ScheduleReconnect
  <2> QED  BY <1>3, <2>1, <2>2 DEF C!Clients
<1> QED  BY <1>1, <1>2, <1>3
-----------------------------------------------------------------------------
(* What happens to a socket keeps the objects sane                         *)

\* No socket comes to life or is used for the first time.
Wither(ends, after) ==
  \A s \in Sockets : /\ after[s] \in Alive => ends[s] \in Alive
                     /\ after[s] \in Present => ends[s] \in Present
                     /\ after[s] = "unused" <=> ends[s] = "unused"

LEMMA SaneWithers ==
  ASSUME NEW clients, NEW ends, NEW owners, NEW starts, NEW after \in [Sockets -> Ends],
         Sane(clients, ends, owners, starts), Wither(ends, after)
  PROVE  Sane(clients, after, owners, starts)
<1>1. \A c \in Objects : Sound(c, clients[c], after, owners)
  BY DEF Sane, Sound, Wither
<1> QED  BY <1>1 DEF Sane, Wither

LEMMA ShutWithers ==
  ASSUME NEW ends \in [Sockets -> Ends], NEW s
  PROVE  /\ Shut(ends, s) \in [Sockets -> Ends] /\ Wither(ends, Shut(ends, s))
         /\ s # NoSocket => Shut(ends, s)[s] \notin Alive \/ s \notin Sockets
BY DEF Shut, Wither, Ends, Alive, Present

LEMMA SaneCloses ==
  ASSUME NEW clients, NEW ends, NEW owners, NEW starts, Sane(clients, ends, owners, starts),
         NEW c \in Objects
  PROVE  Sane([clients EXCEPT ![c] = C!Close(@)], Shut(ends, clients[c].socket), owners, starts)
<1> DEFINE cl == clients[c]
           after == Shut(ends, cl.socket)
           all == [clients EXCEPT ![c] = C!Close(@)]
<1>1. ends \in [Sockets -> Ends] /\ clients \in [Objects -> C!Clients] /\ cl \in C!Clients
  BY DEF Sane
<1>2. after \in [Sockets -> Ends] /\ Wither(ends, after)
  BY <1>1, ShutWithers
<1>3. Sane(clients, after, owners, starts)
  BY <1>2, SaneWithers
<1>4. /\ C!Close(cl) \in C!Clients /\ C!Close(cl).manuallyClosed /\ ~C!Close(cl).timer
      /\ C!Close(cl).state = cl.state
  BY <1>1, ClientTypes
<1>5. \A s \in Sockets : owners[s] = c => after[s] \notin Alive
  <2>1. SUFFICES ASSUME NEW s \in Sockets, owners[s] = c, after[s] \in Alive PROVE FALSE
    OBVIOUS
  <2>2. ends[s] \in Alive
    BY <1>2, <2>1 DEF Wither
  <2>3. cl.socket = s
    BY <2>1, <2>2 DEF Sane, Sound
  <2>4. s # NoSocket
    BY <2>1, PairingConstants
  <2> QED  BY <1>1, <2>1, <2>3, <2>4, ShutWithers
<1>6. all \in [Objects -> C!Clients] /\ all[c] = C!Close(cl)
      /\ \A d \in Objects \ {c} : all[d] = clients[d]
  BY <1>1, <1>4
<1> HIDE DEF after, all
<1>7. Sound(c, all[c], after, owners)
  <2>1. cl.state = "idle" => \A s \in Sockets : owners[s] # c
    BY DEF Sane, Sound
  <2> HIDE DEF cl
  <2> QED  BY <1>4, <1>5, <1>6, <2>1 DEF Sound
<1>8. \A d \in Objects \ {c} : Sound(d, all[d], after, owners)
  BY <1>3, <1>6 DEF Sane
<1>9. \A d \in starts \cap Objects : all[d].state = "idle"
  BY <1>3, <1>4, <1>6 DEF Sane
<1>10. Sane(all, after, owners, starts)
  BY <1>3, <1>6, <1>7, <1>8, <1>9 DEF Sane
<1> QED  BY <1>10 DEF all, after

LEMMA SaneOpens ==
  ASSUME NEW clients, NEW ends, NEW owners, NEW starts, Sane(clients, ends, owners, starts),
         NEW c \in Objects, NEW s \in Sockets, ends[s] = "unused",
         NEW new \in {C!OpenSocket(clients[c], s), C!OpenSocket(C!Connecting(clients[c]), s)},
         ~new.manuallyClosed,
         \A t \in Sockets : owners[t] = c => ends[t] \notin Present
  PROVE  Sane([clients EXCEPT ![c] = new], [ends EXCEPT ![s] = "connecting"],
              [owners EXCEPT ![s] = c], starts \ {c})
<1> DEFINE after == [ends EXCEPT ![s] = "connecting"]
           owned == [owners EXCEPT ![s] = c]
           all == [clients EXCEPT ![c] = new]
<1>1. /\ ends \in [Sockets -> Ends] /\ clients \in [Objects -> C!Clients]
      /\ owners \in [Sockets -> Objects \cup {NoObject}] /\ owners[s] = NoObject
      /\ clients[c] \in C!Clients
      /\ c # NoObject /\ NoObject \notin Objects
  BY PairingConstants DEF Sane, Objects
<1>2. new \in C!Clients /\ new.state # "idle" /\ new.socket = s /\ ~new.timer
  BY <1>1, OpenTypes
<1>3. /\ all \in [Objects -> C!Clients] /\ all[c] = new
      /\ \A d \in Objects \ {c} : all[d] = clients[d]
      /\ after \in [Sockets -> Ends] /\ after[s] = "connecting"
      /\ owned \in [Sockets -> Objects \cup {NoObject}] /\ owned[s] = c
      /\ \A t \in Sockets \ {s} : after[t] = ends[t] /\ owned[t] = owners[t]
  BY <1>1, <1>2 DEF Ends
<1> HIDE DEF after, owned, all
<1>4. Sound(c, all[c], after, owned)
  BY <1>1, <1>2, <1>3 DEF Sound, Alive, Present
<1>5. ASSUME NEW d \in Objects \ {c} PROVE Sound(d, all[d], after, owned)
  <2>1. Sound(d, clients[d], ends, owners)
    BY DEF Sane
  <2>2. \A t \in Sockets : owned[t] = d => t # s /\ owners[t] = d /\ after[t] = ends[t]
    BY <1>3
  <2> QED  BY <1>3, <2>1, <2>2 DEF Sound
<1>6. \A t \in Sockets : after[t] = "unused" <=> owned[t] = NoObject
  BY <1>1, <1>3 DEF Sane
<1>7. \A d \in (starts \ {c}) \cap Objects : all[d].state = "idle"
  BY <1>3 DEF Sane
<1>8. Sane(all, after, owned, starts \ {c})
  BY <1>3, <1>4, <1>5, <1>6, <1>7 DEF Sane
<1> QED  BY <1>8 DEF all, after, owned

LEMMA SaneOpened ==
  ASSUME NEW clients, NEW ends, NEW owners, NEW starts, Sane(clients, ends, owners, starts),
         NEW s \in Sockets, ends[s] = "connecting"
  PROVE  LET c == owners[s] IN
         /\ c \in Objects /\ clients[c].socket = s
         /\ Sane([clients EXCEPT ![c] = C!OnOpen(@)], [ends EXCEPT ![s] = "open"],
                 owners, starts)
<1> DEFINE c == owners[s]
           cl == clients[c]
           after == [ends EXCEPT ![s] = "open"]
           all == [clients EXCEPT ![c] = C!OnOpen(@)]
<1>1. /\ ends \in [Sockets -> Ends] /\ clients \in [Objects -> C!Clients]
      /\ c \in Objects /\ cl \in C!Clients
  BY DEF Sane
<1>2. ~cl.manuallyClosed /\ cl.socket = s /\ ~cl.timer /\ cl.state # "idle"
  BY <1>1 DEF Sane, Sound, Alive, Present
<1>3. after \in [Sockets -> Ends] /\ Wither(ends, after)
  BY <1>1 DEF Wither, Ends, Alive, Present
<1>4. Sane(clients, after, owners, starts)
  BY <1>3, SaneWithers
<1>5. /\ C!OnOpen(cl) \in C!Clients /\ C!OnOpen(cl).state = "open" /\ C!OnOpen(cl).socket = cl.socket
      /\ C!OnOpen(cl).timer = cl.timer /\ C!OnOpen(cl).manuallyClosed = cl.manuallyClosed
  BY <1>1, <1>2, ClientTypes
<1>6. all \in [Objects -> C!Clients] /\ all[c] = C!OnOpen(cl)
      /\ \A d \in Objects \ {c} : all[d] = clients[d]
  BY <1>1, <1>5
<1>7. Sound(c, cl, after, owners) /\ c \notin starts
  BY <1>1, <1>2, <1>4 DEF Sane
<1> HIDE DEF c, cl, all, after
<1>8. Sound(c, all[c], after, owners)
  BY <1>5, <1>6, <1>7 DEF Sound
<1>9. Sane(all, after, owners, starts)
  BY <1>4, <1>6, <1>7, <1>8 DEF Sane
<1> QED  BY <1>1, <1>2, <1>9 DEF all, after, c, cl

LEMMA SaneClosed ==
  ASSUME NEW clients, NEW ends, NEW owners, NEW starts, Sane(clients, ends, owners, starts),
         NEW s \in Sockets, ends[s] = "dead"
  PROVE  LET c == owners[s] IN
         /\ c \in Objects
         /\ Sane([clients EXCEPT ![c] = C!OnClose(@)], [ends EXCEPT ![s] = "closed"],
                 owners, starts)
<1> DEFINE c == owners[s]
           cl == clients[c]
           after == [ends EXCEPT ![s] = "closed"]
           all == [clients EXCEPT ![c] = C!OnClose(@)]
<1>1. /\ ends \in [Sockets -> Ends] /\ clients \in [Objects -> C!Clients]
      /\ c \in Objects /\ cl \in C!Clients
  BY DEF Sane
<1>2. Sound(c, cl, ends, owners) /\ cl.state # "idle"
  BY <1>1 DEF Sane, Sound
<1>3. after \in [Sockets -> Ends] /\ Wither(ends, after)
  BY <1>1 DEF Wither, Ends, Alive, Present
<1>4. Sane(clients, after, owners, starts)
  BY <1>3, SaneWithers
<1>5. /\ C!OnClose(cl) \in C!Clients /\ C!OnClose(cl).state # "idle"
      /\ C!OnClose(cl).socket = cl.socket
      /\ C!OnClose(cl).manuallyClosed = cl.manuallyClosed
  BY <1>1, CloseEventTypes
<1>6. all \in [Objects -> C!Clients] /\ all[c] = C!OnClose(cl)
      /\ \A d \in Objects \ {c} : all[d] = clients[d]
  BY <1>1, <1>5
<1>7. Sound(c, cl, after, owners) /\ c \notin starts
  BY <1>1, <1>2, <1>4 DEF Sane
<1>8. ~cl.manuallyClosed => \A t \in Sockets : owners[t] = c => after[t] \notin Present
  <2>1. SUFFICES ASSUME ~cl.manuallyClosed, NEW t \in Sockets, owners[t] = c, after[t] \in Present
                 PROVE  FALSE
    OBVIOUS
  <2>2. t # s /\ ends[t] \in Present /\ ends[s] \in Present
    BY <1>1, <2>1 DEF Present, Alive
  <2> QED  BY <1>2, <2>1, <2>2 DEF Sound
<1> HIDE DEF c, cl, all, after
<1>9. Sound(c, all[c], after, owners)
  BY <1>5, <1>6, <1>7, <1>8 DEF Sound
<1>10. Sane(all, after, owners, starts)
  BY <1>4, <1>6, <1>7, <1>9 DEF Sane
<1> QED  BY <1>1, <1>10 DEF all, after, c, cl
-----------------------------------------------------------------------------
(* The steps of Pairing                                                    *)

Objective == Sane(client, end, owner, starting)

\* The pages know objects of theirs, and a receiving page only one that has joined.
Paged ==
  /\ starting \subseteq Senders /\ joinRequested \subseteq Receivers
  /\ ref \in [{"sender", "receiver"} -> Objects \cup {NoObject}]
  /\ ref["receiver"] # NoObject => ref["receiver"] \in joinRequested

Counted ==
  /\ asking \subseteq Sockets /\ asked \in [Sockets -> {"none", "create", "join"}]
  /\ failures \in 0..MaxFailures

\* What a step does to the owners of sockets: a new one is opened by start(), by a first
\* join() or by the timer of a client that was not closed.
Opener(c) == c \in starting \/ ~client[c].manuallyClosed
OwnersStep ==
  \A s \in Sockets : owner'[s] = owner[s] \/ Opener(owner'[s])

LEMMA OpenStep ==
  ASSUME Objective, NEW c \in Objects, NEW connecting \in BOOLEAN, Open(c, connecting),
         \/ connecting /\ client[c].state = "idle" /\ Opener(c)
         \/ ~connecting /\ client[c].timer
  PROVE  /\ Sane(client', end', owner', starting \ {c})
         /\ OwnersStep /\ asked' = asked /\ (asking \subseteq Sockets => asking' \subseteq Sockets)
<1> DEFINE cl == client[c]
<1>1. PICK s \in Sockets :
        /\ end[s] = "unused"
        /\ client' = [client EXCEPT ![c] =
                        C!OpenSocket(IF connecting THEN C!Connecting(cl) ELSE cl, s)]
        /\ end' = [end EXCEPT ![s] = "connecting"]
        /\ owner' = [owner EXCEPT ![s] = c]
        /\ asking' = IF connecting THEN asking \cup {s} ELSE asking
        /\ asked' = asked
  BY DEF Open, Unused
<1>2. client \in [Objects -> C!Clients] /\ owner \in [Sockets -> Objects \cup {NoObject}]
      /\ cl \in C!Clients /\ Sound(c, cl, end, owner)
  BY DEF Objective, Sane
<1>3. cl.timer => ~cl.manuallyClosed
  BY <1>2 DEF C!Clients
<1>4. \A t \in Sockets : owner[t] = c => end[t] \notin Present
  BY <1>2, <1>3 DEF Sound
<1> DEFINE new == C!OpenSocket(IF connecting THEN C!Connecting(cl) ELSE cl, s)
<1>5. /\ new \in {C!OpenSocket(cl, s), C!OpenSocket(C!Connecting(cl), s)}
      /\ connecting => new = C!OpenSocket(C!Connecting(cl), s)
  OBVIOUS
<1>6. ~new.manuallyClosed
  BY <1>2, <1>3, <1>5, OpenTypes
<1>7. client' = [client EXCEPT ![c] = new]
  BY <1>1
<1> HIDE DEF new
<1>8. Sane(client', end', owner', starting \ {c})
  <2>1. Sane(client, end, owner, starting)
        /\ new \in {C!OpenSocket(client[c], s), C!OpenSocket(C!Connecting(client[c]), s)}
    BY <1>5 DEF Objective
  <2>2. Sane([client EXCEPT ![c] = new], [end EXCEPT ![s] = "connecting"],
             [owner EXCEPT ![s] = c], starting \ {c})
    BY <1>1, <1>4, <1>6, <2>1, SaneOpens
  <2> QED  BY <1>1, <1>7, <2>2
<1>9. OwnersStep
  BY <1>1, <1>2, <1>3 DEF OwnersStep, Opener
<1> QED  BY <1>1, <1>8, <1>9

\* close() of one object's client, on its own or after what came before in the same step.
LEMMA CloseStep ==
  ASSUME Objective, NEW c \in Objects, CloseClient(c), UNCHANGED <<owner, starting>>
  PROVE  Objective'
<1>1. Sane([client EXCEPT ![c] = C!Close(@)], Shut(end, client[c].socket), owner, starting)
  BY SaneCloses DEF Objective
<1> QED  BY <1>1 DEF Objective, CloseClient

LEMMA RejectedStep ==
  ASSUME Paged, NEW c \in Objects, NEW clients, NEW ends, Sane(clients, ends, owner, starting),
         Rejected(c, clients, ends), UNCHANGED <<owner, starting>>
  PROVE  Objective' /\ Paged'
<1> DEFINE mine == ref["receiver"]
<1>1. joinRequested' = joinRequested \ {c}
  BY DEF Rejected
<1>2. CASE c \in Receivers /\ mine # NoObject
  <2>1. /\ ref' = [ref EXCEPT !["receiver"] = NoObject]
        /\ client' = [clients EXCEPT ![mine] = C!Close(@)]
        /\ end' = Shut(ends, clients[mine].socket)
    BY <1>2 DEF Rejected
  <2>2. mine \in Objects
    BY <1>2 DEF Paged
  <2>3. Sane([clients EXCEPT ![mine] = C!Close(@)], Shut(ends, clients[mine].socket),
             owner, starting)
    BY <2>2, SaneCloses
  <2> QED  BY <1>1, <2>1, <2>3 DEF Objective, Paged
<1>3. CASE ~(c \in Receivers /\ mine # NoObject)
  <2>1. client' = clients /\ end' = ends /\ ref' = ref
    BY <1>3 DEF Rejected
  <2>2. Paged'
    BY <1>1, <1>3, <2>1 DEF Paged
  <2> QED  BY <2>1, <2>2 DEF Objective
<1> QED  BY <1>2, <1>3

PairTypes == Objective /\ Paged /\ Counted

LEMMA PairTypesInit == Init => PairTypes
<1>1. C!NewClient \in C!Clients /\ C!NewClient.state = "idle" /\ ~C!NewClient.timer
  BY PairingConstants DEF C!Clients, C!NewClient
<1>2. SUFFICES ASSUME Init PROVE PairTypes
  OBVIOUS
<1>3. NoObject \notin Objects /\ 0 \in Nat /\ MaxFailures \in Nat
  BY PairingConstants DEF Objects
<1>4. Objective
  BY <1>1, <1>2, <1>3 DEF Init, Objective, Sane, Sound, Ends, Alive, Present
<1> QED  BY <1>2, <1>3, <1>4 DEF Init, PairTypes, Paged, Counted

\* The pages' own steps.
LEMMA PageSteps ==
  ASSUME PairTypes
  PROVE  /\ GenerateQr => PairTypes' /\ OwnersStep
         /\ EnterCode => PairTypes' /\ OwnersStep
         /\ \A c \in Objects : StartConnects(c) \/ ReconnectTimer(c) => PairTypes' /\ OwnersStep
         /\ \A role \in {"sender", "receiver"} : Leave(role) => PairTypes' /\ OwnersStep
<1> USE DEF PairTypes
<1>1. /\ Senders \subseteq Objects /\ Receivers \subseteq Objects
      /\ C!NewClient.state = "idle" /\ ~C!NewClient.manuallyClosed
  BY DEF Objects, C!NewClient
<1>2. ASSUME GenerateQr PROVE PairTypes' /\ OwnersStep
  <2>1. PICK c \in Fresh(Senders) : ref' = [ref EXCEPT !["sender"] = c]
                                    /\ starting' = starting \cup {c}
    BY <1>2 DEF GenerateQr
  <2>2. c \in Senders /\ client[c].state = "idle"
    BY <1>1, <2>1 DEF Fresh
  <2>3. UNCHANGED <<client, end, owner, asking, asked, joinRequested, failures>>
    BY <1>2 DEF GenerateQr, socketVars
  <2>4. Objective'
    BY <2>1, <2>2, <2>3 DEF Objective, Sane
  <2>5. Paged'
    BY <1>1, <2>1, <2>2, <2>3 DEF Paged
  <2> QED  BY <2>3, <2>4, <2>5 DEF Counted, OwnersStep
<1>3. ASSUME EnterCode PROVE PairTypes' /\ OwnersStep
  <2>1. PICK c \in IF ref["receiver"] = NoObject THEN Fresh(Receivers) ELSE {ref["receiver"]} :
          ref' = [ref EXCEPT !["receiver"] = c] /\ JoinOnce(c)
    BY <1>3 DEF EnterCode
  <2>2. UNCHANGED <<starting, failures>>
    BY <1>3 DEF EnterCode
  <2>3. CASE c \in joinRequested
    <3>1. UNCHANGED <<joinRequested, client, end, owner, asking, asked>>
      BY <2>1, <2>3 DEF JoinOnce
    <3>2. Paged'
      BY <1>1, <2>1, <2>2, <2>3, <3>1 DEF Paged
    <3> QED  BY <2>2, <3>1, <3>2 DEF Objective, Counted, OwnersStep
  <2>4. CASE c \notin joinRequested
    <3>1. joinRequested' = joinRequested \cup {c} /\ Open(c, TRUE)
      BY <2>1, <2>4 DEF JoinOnce, Join
    <3>2. c \in Fresh(Receivers)
      BY <2>1, <2>4 DEF Paged
    <3>3. c \in Receivers /\ c \notin starting /\ client[c] = C!NewClient
      BY <3>2 DEF Fresh
    <3>4. Sane(client', end', owner', starting \ {c}) /\ OwnersStep /\ asked' = asked
          /\ (asking \subseteq Sockets => asking' \subseteq Sockets)
      BY <1>1, <3>1, <3>3, OpenStep DEF Opener
    <3>5. starting \ {c} = starting'
      BY <2>2, <3>3
    <3>6. Paged'
      BY <1>1, <2>1, <2>2, <3>1, <3>3 DEF Paged
    <3> QED  BY <2>2, <3>4, <3>5, <3>6 DEF Objective, Counted
  <2> QED  BY <2>3, <2>4
<1>4. ASSUME NEW c \in Objects, StartConnects(c) PROVE PairTypes' /\ OwnersStep
  <2>1. /\ c \in starting /\ starting' = starting \ {c} /\ Open(c, TRUE)
        /\ UNCHANGED <<ref, joinRequested, failures>>
    BY <1>4 DEF StartConnects
  <2>2. client[c].state = "idle"
    BY <2>1 DEF Objective, Sane
  <2>3. Sane(client', end', owner', starting \ {c}) /\ OwnersStep /\ asked' = asked
        /\ (asking \subseteq Sockets => asking' \subseteq Sockets)
    BY <2>1, <2>2, OpenStep DEF Opener
  <2> QED  BY <2>1, <2>3 DEF Objective, Paged, Counted
<1>5. ASSUME NEW c \in Objects, ReconnectTimer(c) PROVE PairTypes' /\ OwnersStep
  <2>1. client[c].timer /\ Open(c, FALSE) /\ UNCHANGED <<ref, starting, joinRequested, failures>>
    BY <1>5 DEF ReconnectTimer
  <2>2. c \notin starting
    BY <2>1 DEF Objective, Sane, Sound
  <2>3. Sane(client', end', owner', starting \ {c}) /\ OwnersStep /\ asked' = asked
        /\ (asking \subseteq Sockets => asking' \subseteq Sockets)
    BY <2>1, OpenStep
  <2>4. starting \ {c} = starting'
    BY <2>1, <2>2
  <2> QED  BY <2>1, <2>3, <2>4 DEF Objective, Paged, Counted
<1>6. ASSUME NEW role \in {"sender", "receiver"}, Leave(role) PROVE PairTypes' /\ OwnersStep
  <2>1. /\ ref[role] \in Objects /\ CloseClient(ref[role])
        /\ ref' = [ref EXCEPT ![role] = NoObject]
        /\ UNCHANGED <<owner, asking, asked, starting, joinRequested, failures>>
    BY <1>6 DEF Leave, Paged
  <2>2. Objective'
    BY <2>1, CloseStep
  <2> QED  BY <2>1, <2>2 DEF Paged, Counted, OwnersStep
<1> QED  BY <1>2, <1>3, <1>4, <1>5, <1>6

\* The events of the sockets, and the network.
LEMMA SocketSteps ==
  ASSUME PairTypes, NEW s \in Sockets
  PROVE  /\ OpenEvent(s) => PairTypes' /\ OwnersStep
         /\ CloseEvent(s) => PairTypes' /\ OwnersStep
         /\ ConnectTimeout(s) => PairTypes' /\ OwnersStep
         /\ Refused(s) \/ Lose(s) => PairTypes' /\ OwnersStep
         /\ TakeMail(s) => PairTypes' /\ OwnersStep
<1> USE DEF PairTypes
<1> DEFINE c == owner[s]
<1>1. end \in [Sockets -> Ends] /\ (end[s] # "unused" => c \in Objects)
  BY DEF Objective, Sane
<1>2. MaxFailures \in Nat /\ (Fail => failures' \in 0..MaxFailures)
  BY PairingConstants DEF Fail, Counted
<1>3. \A after \in {"open", "dead"} :
        end[s] \in Alive =>
          [end EXCEPT ![s] = after] \in [Sockets -> Ends]
          /\ Wither(end, [end EXCEPT ![s] = after])
  BY <1>1 DEF Wither, Ends, Alive, Present
<1>4. ASSUME UNCHANGED owner PROVE OwnersStep
  BY <1>4 DEF OwnersStep
<1>5. ASSUME OpenEvent(s) PROVE PairTypes' /\ OwnersStep
  <2>1. /\ end[s] = "connecting" /\ end' = [end EXCEPT ![s] = "open"]
        /\ client' = [client EXCEPT ![c] = C!OnOpen(@)]
        /\ UNCHANGED <<owner, ref, starting, joinRequested, failures>>
        /\ asking' = asking \ {s}
    BY <1>5 DEF OpenEvent
  <2>2. Objective'
    BY <2>1, SaneOpened DEF Objective
  <2>3. asked' \in [Sockets -> {"none", "create", "join"}]
    <3>1. \/ asked' = asked
          \/ \E via, what : what \in {"create", "join"} /\ asked' = [asked EXCEPT ![via] = what]
      BY <1>5 DEF OpenEvent
    <3> QED  BY <3>1 DEF Counted
  <2> QED  BY <1>4, <2>1, <2>2, <2>3 DEF Paged, Counted
<1>6. ASSUME CloseEvent(s) PROVE PairTypes' /\ OwnersStep
  <2> DEFINE clients == [client EXCEPT ![c] = C!OnClose(@)]
             ends == [end EXCEPT ![s] = "closed"]
  <2>1. /\ end[s] = "dead" /\ UNCHANGED <<owner, asked, starting, failures>>
        /\ asking' = asking \ {s}
        /\ \/ Rejected(c, clients, ends)
           \/ client' = clients /\ end' = ends /\ UNCHANGED <<ref, joinRequested>>
    BY <1>6 DEF CloseEvent
  <2>2. c \in Objects /\ Sane(clients, ends, owner, starting)
    BY <2>1, SaneClosed DEF Objective
  <2> HIDE DEF clients, ends
  <2>3. CASE Rejected(c, clients, ends)
    <3>1. Objective' /\ Paged'
      BY <2>1, <2>2, <2>3, RejectedStep
    <3> QED  BY <1>4, <2>1, <3>1 DEF Counted
  <2>4. CASE client' = clients /\ end' = ends /\ UNCHANGED <<ref, joinRequested>>
    BY <1>4, <2>1, <2>2, <2>4 DEF Objective, Paged, Counted
  <2> QED  BY <2>1, <2>3, <2>4
<1>7. ASSUME ConnectTimeout(s) PROVE PairTypes' /\ OwnersStep
  <2> DEFINE ends == [end EXCEPT ![s] = "dead"]
  <2>1. /\ end[s] = "connecting" /\ UNCHANGED <<owner, asked, starting>>
        /\ asking' = asking \ {s} /\ failures' \in 0..MaxFailures
        /\ \/ Rejected(c, client, ends)
           \/ end' = ends /\ UNCHANGED <<client, ref, joinRequested>>
    BY <1>2, <1>7 DEF ConnectTimeout
  <2>2. c \in Objects /\ Sane(client, ends, owner, starting)
    BY <1>1, <1>3, <2>1, SaneWithers DEF Objective, Alive
  <2> HIDE DEF ends
  <2>3. CASE Rejected(c, client, ends)
    <3>1. Objective' /\ Paged'
      BY <2>1, <2>2, <2>3, RejectedStep
    <3> QED  BY <1>4, <2>1, <3>1 DEF Counted
  <2>4. CASE end' = ends /\ UNCHANGED <<client, ref, joinRequested>>
    BY <1>4, <2>1, <2>2, <2>4 DEF Objective, Paged, Counted
  <2> QED  BY <2>1, <2>3, <2>4
<1>8. ASSUME Refused(s) \/ Lose(s) PROVE PairTypes' /\ OwnersStep
  <2>1. /\ end[s] \in Alive /\ end' = [end EXCEPT ![s] = "dead"]
        /\ UNCHANGED <<owner, asking, client, ref, starting, joinRequested>>
        /\ failures' \in 0..MaxFailures
        /\ asked' = asked \/ asked' = [asked EXCEPT ![s] = "none"]
    BY <1>2, <1>8 DEF Refused, Lose, pageVars, Alive
  <2>2. Sane(client, end', owner, starting)
    BY <1>3, <2>1, SaneWithers DEF Objective
  <2> QED  BY <1>4, <2>1, <2>2 DEF Objective, Paged, Counted
<1>9. ASSUME TakeMail(s) PROVE PairTypes' /\ OwnersStep
  <2>1. /\ end[s] = "open" /\ UNCHANGED <<owner, asking, asked, starting, joinRequested, failures>>
        /\ \/ CloseClient(c) /\ ref' = [ref EXCEPT !["receiver"] = NoObject]
           \/ UNCHANGED <<client, end, ref>>
    BY <1>9 DEF TakeMail
  <2>2. Objective'
    BY <1>1, <2>1, CloseStep DEF Objective
  <2> QED  BY <1>4, <2>1, <2>2 DEF Paged, Counted
<1> QED  BY <1>5, <1>6, <1>7, <1>8, <1>9

\* The server's steps do not touch the pages.
LEMMA ServerSide ==
  ASSUME PairTypes
  PROVE  /\ \A s \in Sockets : Handshake(s) \/ ServerHears(s) \/ TakeRequest(s) =>
                                 PairTypes' /\ OwnersStep
         /\ Heartbeat \/ ServerSteps \/ ServerStep(Server!Tick) => PairTypes' /\ OwnersStep
         /\ UNCHANGED vars => PairTypes' /\ OwnersStep
<1>1. ASSUME UNCHANGED <<end, owner, asking, client, ref, starting, joinRequested, failures>>,
             asked' = asked \/ \E s : asked' = [asked EXCEPT ![s] = "none"]
      PROVE  PairTypes' /\ OwnersStep
  BY <1>1 DEF PairTypes, Objective, Paged, Counted, OwnersStep
<1>2. ASSUME NEW s \in Sockets, Handshake(s) \/ ServerHears(s) \/ TakeRequest(s)
      PROVE  PairTypes' /\ OwnersStep
  BY <1>1, <1>2 DEF Handshake, ServerHears, TakeRequest, socketVars, pageVars
<1>3. ASSUME Heartbeat \/ ServerSteps \/ ServerStep(Server!Tick) PROVE PairTypes' /\ OwnersStep
  <2>1. UNCHANGED <<end, owner, asking, asked, pageVars, failures, lost>>
    BY <1>3 DEF Heartbeat, ServerSteps, ServerStep
  <2> QED  BY <1>1, <2>1 DEF pageVars
<1>4. ASSUME UNCHANGED vars PROVE PairTypes' /\ OwnersStep
  BY <1>1, <1>4 DEF vars, socketVars, pageVars
<1> QED  BY <1>2, <1>3, <1>4

LEMMA PairTypesStep ==
  ASSUME PairTypes, [Next]_vars
  PROVE  PairTypes' /\ OwnersStep
BY PageSteps, SocketSteps, ServerSide DEF Next, Events

LEMMA PairTypesHold == Spec => []PairTypes
<1>1. PairTypes /\ [Next]_vars => PairTypes'
  BY PairTypesStep
<1> QED  BY <1>1, PairTypesInit, PTL DEF Spec

\* Every variable of the pages, their clients and their sockets keeps its type; the
\* counter of reconnect attempts stays within MAX_RECONNECT_ATTEMPTS.
THEOREM PairingTypes == Spec => []TypeOK
<1>1. PairTypes => TypeOK
  BY DEF PairTypes, Objective, Sane, Paged, Counted, TypeOK, Ends
<1> QED  BY <1>1, PairTypesHold, PTL

\* A client never has two sockets that can deliver messages, and none while a reconnect
\* is planned: openSocket runs from connect() once, and after that only from the timer,
\* which is set only by the close event of the last socket.
THEOREM OneSocketEach == Spec => []OneSocket
<1>1. PairTypes => OneSocket
  <2>1. SUFFICES ASSUME PairTypes, NEW c \in Objects
                 PROVE  Cardinality({s \in Sockets : owner[s] = c /\ end[s] \in Alive})
                          <= IF client[c].timer THEN 0 ELSE 1
    BY DEF OneSocket, Alive
  <2> DEFINE own == {s \in Sockets : owner[s] = c /\ end[s] \in Alive}
  <2>2. Sound(c, client[c], end, owner)
    BY <2>1 DEF PairTypes, Objective, Sane
  <2>3. CASE own = {}
    <3>1. Cardinality(own) = 0
      BY <2>3, FS_EmptySet
    <3> QED  BY <3>1
  <2>4. CASE own # {}
    <3>1. PICK s \in own : TRUE
      BY <2>4
    <3>2. \A t \in own : t = s /\ ~client[c].timer
      BY <2>2, <3>1 DEF Sound, Present
    <3>3. own = {s} /\ ~client[c].timer
      BY <3>1, <3>2
    <3>4. Cardinality(own) = 1
      BY <3>3, FS_Singleton
    <3> QED  BY <3>3, <3>4
  <2> QED  BY <2>3, <2>4
<1> QED  BY <1>1, PairTypesHold, PTL

\* close() is final: once manuallyClosed is set, neither a reconnect timer nor a late close
\* or timeout of an old socket opens another, only a connect() that was still to come.
THEOREM ClosedStays == Spec => ClosedForGood
<1>1. PairTypes /\ [Next]_vars =>
        [\A c \in Objects \ starting : client[c].manuallyClosed =>
           \A s \in Sockets : owner'[s] = c => owner[s] = c]_vars
  BY PairTypesStep DEF OwnersStep, Opener
<1> QED  BY <1>1, PairTypesHold, PTL DEF Spec, ClosedForGood
-----------------------------------------------------------------------------
(* The server as the pages use it                                          *)

\* What SignalingServer's own invariant says of the store, as far as it is needed here:
\* a code of the index leads to a session with that code.
Stored ==
  /\ sessionsById \in [Ids -> Server!Session \cup {NoSession}]
  /\ sessionIdByPairingCode \in [Codes -> Ids \cup {NoId}]
  /\ now \in Nat /\ created \in Nat
  /\ \A c \in Codes : sessionIdByPairingCode[c] # NoId =>
       /\ sessionsById[sessionIdByPairingCode[c]] # NoSession
       /\ sessionsById[sessionIdByPairingCode[c]].code = c

\* No socket is in two sessions.
Alone == \A s \in Sockets : \A a, b \in Server!SessionsOf(s) : a = b

\* A socket that was not open yet, or whose one request the server has not taken yet, is
\* in no session, and its page is there.
Early == {"unused", "connecting"}
Untried ==
  \A s \in Sockets :
    /\ end[s] \in Early => asked[s] = "none"
    /\ end[s] \in Early \/ asked[s] # "none" => s \notin silent /\ Server!SessionsOf(s) = {}

Kept == Stored /\ Alone /\ Untried

\* What a step does to the sessions of a socket: s may enter session id, all others stay
\* or leave.
Enters(s, id) ==
  \A t \in Sockets :
    Server!SessionsOf(t)' \subseteq Server!SessionsOf(t) \cup IF t = s THEN {id} ELSE {}

LEMMA NobodyEnters ==
  ASSUME NEW s, Enters(NoSocket, NoId)
  PROVE  \E id \in Ids \cup {NoId} : Enters(s, id)
<1>1. Enters(s, NoId)
  <2>1. \A t \in Sockets : Server!SessionsOf(t)' \subseteq Server!SessionsOf(t)
    BY PairingConstants DEF Enters
  <2> QED  BY <2>1 DEF Enters
<1> QED  BY <1>1

LEMMA LiveRow ==
  ASSUME Stored, NEW id \in Server!Live
  PROVE  id \in Ids /\ sessionsById[id] \in Server!Session
BY DEF Stored, Server!Live

LEMMA SameStore ==
  ASSUME Stored, UNCHANGED <<sessionsById, sessionIdByPairingCode>>,
         now' \in Nat, created' \in Nat
  PROVE  Stored' /\ Enters(NoSocket, NoId)
BY DEF Stored, Enters, Server!SessionsOf, Server!Live, Server!Peers

LEMMA DestroyKeeps ==
  ASSUME Stored, NEW ids, Server!Destroy(ids), now' \in Nat, created' \in Nat
  PROVE  Stored' /\ Enters(NoSocket, NoId)
<1>1. /\ sessionsById' = [id \in Ids |-> IF id \in ids THEN NoSession ELSE sessionsById[id]]
      /\ sessionIdByPairingCode' =
           [c \in Codes |-> IF \E id \in ids : sessionsById[id].code = c
                            THEN NoId ELSE sessionIdByPairingCode[c]]
  BY DEF Server!Destroy
<1>2. Stored'
  <2>1. /\ sessionsById' \in [Ids -> Server!Session \cup {NoSession}]
        /\ sessionIdByPairingCode' \in [Codes -> Ids \cup {NoId}]
    BY <1>1 DEF Stored
  <2>2. ASSUME NEW c \in Codes, sessionIdByPairingCode'[c] # NoId
        PROVE  /\ sessionsById'[sessionIdByPairingCode'[c]] # NoSession
               /\ sessionsById'[sessionIdByPairingCode'[c]].code = c
    <3> DEFINE id == sessionIdByPairingCode[c]
    <3>1. sessionIdByPairingCode'[c] = id /\ ~\E other \in ids : sessionsById[other].code = c
      BY <1>1, <2>2
    <3>2. id \in Ids /\ sessionsById[id] # NoSession /\ sessionsById[id].code = c
      BY <2>2, <3>1 DEF Stored
    <3>3. sessionsById'[id] = sessionsById[id]
      BY <1>1, <3>1, <3>2
    <3> QED  BY <3>1, <3>2, <3>3
  <2> QED  BY <2>1, <2>2 DEF Stored
<1>3. \A id \in Server!Live' : id \in Server!Live /\ sessionsById'[id] = sessionsById[id]
  BY <1>1 DEF Server!Live
<1> QED  BY <1>2, <1>3 DEF Enters, Server!SessionsOf, Server!Peers

\* The receiver of one session changes.
LEMMA RowChanges ==
  ASSUME Stored, NEW id \in Server!Live, NEW new \in Server!Session, NEW s,
         new.code = sessionsById[id].code, new.sender = sessionsById[id].sender,
         new.receiver \in {NoSocket, s},
         sessionsById' = [sessionsById EXCEPT ![id] = new],
         UNCHANGED <<sessionIdByPairingCode, now, created>>
  PROVE  Stored' /\ Enters(s, id)
<1>1. id \in Ids /\ sessionsById[id] # NoSession /\ new # NoSession
  BY NoSessionIsNone DEF Server!Live
<1>2. sessionsById' \in [Ids -> Server!Session \cup {NoSession}] /\ sessionsById'[id] = new
      /\ \A other \in Ids \ {id} : sessionsById'[other] = sessionsById[other]
  BY <1>1 DEF Stored
<1>3. Stored'
  BY <1>1, <1>2 DEF Stored
<1>4. Server!Live' = Server!Live
  BY <1>1, <1>2 DEF Server!Live
<1>5. ASSUME NEW t \in Sockets, NEW other \in Server!SessionsOf(t)'
      PROVE  other \in Server!SessionsOf(t) \cup IF t = s THEN {id} ELSE {}
  <2>1. other \in Server!Live /\ other \in Ids /\ t # NoSocket
        /\ t \in {sessionsById'[other].sender, sessionsById'[other].receiver}
    BY <1>4, <1>5, PairingConstants DEF Server!SessionsOf, Server!Peers, Server!Live
  <2>2. CASE other = id
    BY <1>2, <2>1, <2>2 DEF Server!SessionsOf, Server!Peers
  <2>3. CASE other # id
    BY <1>2, <2>1, <2>3 DEF Server!SessionsOf, Server!Peers
  <2> QED  BY <2>2, <2>3
<1> QED  BY <1>3, <1>5 DEF Enters

LEMMA CreateKeeps ==
  ASSUME Stored, NEW s \in Sockets, Server!HandleCreateSession(s)
  PROVE  Stored' /\ \E id \in Ids : Enters(s, id)
<1>1. PICK id \in Ids \ Server!Live, c \in Server!FreeCodes, timeout \in Timeouts :
        /\ sessionsById' = [sessionsById EXCEPT ![id] =
             [nr |-> created + 1, code |-> c, expiresAt |-> now + timeout,
              consumed |-> FALSE, sender |-> s, receiver |-> NoSocket]]
        /\ sessionIdByPairingCode' = [sessionIdByPairingCode EXCEPT ![c] = id]
  BY DEF Server!HandleCreateSession
<1>2. UNCHANGED now /\ created' = created + 1
  BY DEF Server!HandleCreateSession
<1> DEFINE new == [nr |-> created + 1, code |-> c, expiresAt |-> now + timeout,
                   consumed |-> FALSE, sender |-> s, receiver |-> NoSocket]
<1>3. now + timeout \in Nat /\ created + 1 \in Nat /\ c \in Codes /\ id \in Ids
      /\ sessionsById[id] = NoSession
  BY PairingConstants DEF Stored, Server!FreeCodes, Server!Live
<1>4. new \in Server!Session /\ new.code = c /\ new.sender = s /\ new.receiver = NoSocket
  BY <1>3 DEF Server!Session
<1>5. new # NoSession /\ sessionsById' = [sessionsById EXCEPT ![id] = new]
  BY <1>1, <1>4, NoSessionIsNone
<1> HIDE DEF new
<1>6. /\ sessionsById' \in [Ids -> Server!Session \cup {NoSession}] /\ sessionsById'[id] = new
      /\ \A other \in Ids \ {id} : sessionsById'[other] = sessionsById[other]
      /\ sessionIdByPairingCode' \in [Codes -> Ids \cup {NoId}]
      /\ sessionIdByPairingCode'[c] = id
      /\ \A d \in Codes \ {c} : sessionIdByPairingCode'[d] = sessionIdByPairingCode[d]
  <2>1. /\ sessionsById \in [Ids -> Server!Session \cup {NoSession}]
        /\ sessionIdByPairingCode \in [Codes -> Ids \cup {NoId}]
    BY DEF Stored
  <2>2. /\ sessionsById' \in [Ids -> Server!Session \cup {NoSession}] /\ sessionsById'[id] = new
        /\ \A other \in Ids \ {id} : sessionsById'[other] = sessionsById[other]
    BY <1>3, <1>4, <1>5, <2>1
  <2>3. /\ sessionIdByPairingCode' \in [Codes -> Ids \cup {NoId}]
        /\ sessionIdByPairingCode'[c] = id
        /\ \A d \in Codes \ {c} : sessionIdByPairingCode'[d] = sessionIdByPairingCode[d]
    BY <1>1, <1>3, <2>1
  <2> QED  BY <2>2, <2>3
<1>7. Stored'
  <2>1. ASSUME NEW d \in Codes, sessionIdByPairingCode'[d] # NoId
        PROVE  /\ sessionsById'[sessionIdByPairingCode'[d]] # NoSession
               /\ sessionsById'[sessionIdByPairingCode'[d]].code = d
    <3>1. CASE d = c
      BY <1>4, <1>5, <1>6, <3>1
    <3>2. CASE d # c
      <4>1. sessionIdByPairingCode'[d] = sessionIdByPairingCode[d]
        BY <1>6, <3>2
      <4>2. /\ sessionIdByPairingCode[d] \in Ids
            /\ sessionsById[sessionIdByPairingCode[d]] # NoSession
            /\ sessionsById[sessionIdByPairingCode[d]].code = d
        BY <2>1, <4>1 DEF Stored
      <4> QED  BY <1>3, <1>6, <4>1, <4>2
    <3> QED  BY <3>1, <3>2
  <2> QED  BY <1>2, <1>3, <1>6, <2>1 DEF Stored
<1>8. ASSUME NEW t \in Sockets, NEW other \in Server!SessionsOf(t)'
      PROVE  other \in Server!SessionsOf(t) \cup IF t = s THEN {id} ELSE {}
  <2>1. other \in Ids /\ t # NoSocket /\ sessionsById'[other] # NoSession
        /\ t \in {sessionsById'[other].sender, sessionsById'[other].receiver}
    BY <1>8, PairingConstants DEF Server!SessionsOf, Server!Peers, Server!Live
  <2>2. CASE other = id
    BY <1>4, <1>6, <2>1, <2>2
  <2>3. CASE other # id
    BY <1>6, <2>1, <2>3 DEF Server!SessionsOf, Server!Peers, Server!Live
  <2> QED  BY <2>2, <2>3
<1> QED  BY <1>3, <1>7, <1>8 DEF Enters

LEMMA JoinKeeps ==
  ASSUME Stored, NEW s \in Sockets, NEW id \in Server!Live, NEW token,
         Server!JoinFound(s, id, token), UNCHANGED <<now, created>>
  PROVE  Stored' /\ \E other \in Ids \cup {NoId} : Enters(s, other)
<1>1. id \in Ids /\ sessionsById[id] \in Server!Session /\ now \in Nat /\ created \in Nat
  BY LiveRow DEF Stored
<1>2. CASE Server!Expire(s, id)
  <2>1. Server!Destroy({id})
    BY <1>2 DEF Server!Expire
  <2>2. Stored' /\ Enters(NoSocket, NoId)
    BY <1>1, <2>1, DestroyKeeps
  <2> QED  BY <2>2, NobodyEnters
<1>3. CASE Server!Refuse(s, id, token)
  <2>1. UNCHANGED <<sessionsById, sessionIdByPairingCode>>
    BY <1>3 DEF Server!Refuse
  <2>2. Stored' /\ Enters(NoSocket, NoId)
    BY <1>1, <2>1, SameStore
  <2> QED  BY <2>2, NobodyEnters
<1>4. CASE Server!Join(s, id, token)
  <2> DEFINE new == [sessionsById[id] EXCEPT !.receiver = s, !.consumed = TRUE]
  <2>1. sessionsById' = [sessionsById EXCEPT ![id] = new] /\ UNCHANGED sessionIdByPairingCode
    BY <1>1, <1>4 DEF Server!Join, Stored
  <2>2. /\ new \in Server!Session /\ new.receiver = s
        /\ new.code = sessionsById[id].code /\ new.sender = sessionsById[id].sender
    BY <1>1 DEF Server!Session
  <2> HIDE DEF new
  <2>3. Stored' /\ Enters(s, id)
    BY <2>1, <2>2, RowChanges
  <2> QED  BY <1>1, <2>3
<1> QED  BY <1>2, <1>3, <1>4 DEF Server!JoinFound

LEMMA RequestKeeps ==
  ASSUME Stored, NEW s \in Sockets,
         Server!HandleCreateSession(s) \/ Server!HandleJoinByCode(s) \/ Server!HandleJoinByQr(s)
  PROVE  Stored' /\ \E id \in Ids \cup {NoId} : Enters(s, id)
<1>1. ASSUME UNCHANGED <<sessionsById, sessionIdByPairingCode, now, created>>
      PROVE  Stored' /\ \E id \in Ids \cup {NoId} : Enters(s, id)
  <2>1. Stored' /\ Enters(NoSocket, NoId)
    BY <1>1, SameStore DEF Stored
  <2> QED  BY <2>1, NobodyEnters
<1>2. CASE Server!HandleCreateSession(s)
  BY <1>2, CreateKeeps
<1>3. CASE Server!HandleJoinByCode(s)
  <2>1. UNCHANGED <<now, created>>
    BY <1>3 DEF Server!HandleJoinByCode
  <2>2. PICK c \in Codes :
          \/ UNCHANGED <<sessionsById, sessionIdByPairingCode>>
          \/ /\ sessionIdByPairingCode[c] # NoId
             /\ Server!JoinFound(s, sessionIdByPairingCode[c],
                                 sessionsById[sessionIdByPairingCode[c]].nr)
    BY <1>3 DEF Server!HandleJoinByCode
  <2>3. sessionIdByPairingCode[c] # NoId => sessionIdByPairingCode[c] \in Server!Live
    BY DEF Stored, Server!Live
  <2> QED  BY <1>1, <2>1, <2>2, <2>3, JoinKeeps
<1>4. CASE Server!HandleJoinByQr(s)
  <2>1. UNCHANGED <<now, created>>
    BY <1>4 DEF Server!HandleJoinByQr
  <2>2. PICK id \in Ids, token \in 1..created :
          \/ UNCHANGED <<sessionsById, sessionIdByPairingCode>>
          \/ id \in Server!Live /\ Server!JoinFound(s, id, token)
    BY <1>4 DEF Server!HandleJoinByQr
  <2> QED  BY <1>1, <2>1, <2>2, JoinKeeps
<1> QED  BY <1>2, <1>3, <1>4

\* The server's other steps: nobody enters a session.
LEMMA LeavingKeeps ==
  ASSUME Stored, Alone,
         \/ \E s \in Sockets : Server!HandleDisconnect(s) \/ Server!Pong(s)
                              \/ Server!Connect(s) \/ Server!Close(s) \/ Server!FallSilent(s)
         \/ Server!Heartbeat \/ Server!SweepExpired \/ Server!Tick
  PROVE  Stored' /\ Enters(NoSocket, NoId)
<1>0. now \in Nat /\ created \in Nat /\ now + 1 \in Nat
  BY DEF Stored
<1>1. CASE \E s \in Sockets : Server!HandleDisconnect(s)
  <2>1. PICK s \in Sockets : Server!HandleDisconnect(s)
    BY <1>1
  <2>2. UNCHANGED <<now, created>>
    BY <2>1 DEF Server!HandleDisconnect
  <2>3. CASE Server!SessionsOf(s) = {}
    <3>1. UNCHANGED <<sessionsById, sessionIdByPairingCode>>
      BY <2>1, <2>3 DEF Server!HandleDisconnect
    <3> QED  BY <1>0, <2>2, <3>1, SameStore
  <2>4. CASE Server!SessionsOf(s) # {}
    <3> DEFINE id == Server!FirstOf(s)
    <3>1. PICK own : own \in Server!SessionsOf(s)
      BY <2>4
    <3>2. own \in Server!Live /\ \A other \in Server!SessionsOf(s) : other = own
      BY <3>1 DEF Alone, Server!SessionsOf
    <3>3. sessionsById[own] \in Server!Session /\ own \in Ids
      BY <3>2, LiveRow
    <3>4. sessionsById[own].nr <= sessionsById[own].nr
      BY <3>3 DEF Server!Session
    <3>5. id \in Server!SessionsOf(s)
      <4>1. \E x \in Server!SessionsOf(s) : \A y \in Server!SessionsOf(s) :
               sessionsById[x].nr <= sessionsById[y].nr
        BY <3>1, <3>2, <3>4
      <4> QED  BY <4>1 DEF Server!FirstOf
    <3>6. id = own
      BY <3>2, <3>5
    <3>7. Server!Destroy({id}) \/ Server!Release(id)
      BY <2>1, <2>4 DEF Server!HandleDisconnect
    <3> HIDE DEF id
    <3>8. CASE Server!Destroy({id})
      BY <1>0, <2>2, <3>8, DestroyKeeps
    <3>9. CASE Server!Release(id)
      <4> DEFINE new == [sessionsById[own] EXCEPT !.receiver = NoSocket, !.consumed = FALSE]
      <4>1. sessionsById' = [sessionsById EXCEPT ![own] = new] /\ UNCHANGED sessionIdByPairingCode
        BY <3>3, <3>6, <3>9 DEF Server!Release, Stored
      <4>2. /\ new \in Server!Session /\ new.receiver = NoSocket
            /\ new.code = sessionsById[own].code /\ new.sender = sessionsById[own].sender
        BY <3>3 DEF Server!Session
      <4> HIDE DEF new
      <4>3. Stored' /\ Enters(NoSocket, own)
        BY <2>2, <3>2, <4>1, <4>2, RowChanges
      <4> QED  BY <4>3, PairingConstants DEF Enters
    <3> QED  BY <3>7, <3>8, <3>9
  <2> QED  BY <2>3, <2>4
<1>2. CASE \E s \in Sockets : \/ Server!Pong(s) \/ Server!Connect(s) \/ Server!Close(s)
                             \/ Server!FallSilent(s)
  <2>1. UNCHANGED <<sessionsById, sessionIdByPairingCode, now, created>>
    BY <1>2 DEF Server!Pong, Server!Connect, Server!Close, Server!FallSilent, Server!store
  <2> QED  BY <1>0, <2>1, SameStore
<1>3. CASE Server!Heartbeat \/ Server!Tick
  <2>1. UNCHANGED <<sessionsById, sessionIdByPairingCode, created>> /\ now' \in {now, now + 1}
    BY <1>3 DEF Server!Heartbeat, Server!Tick, Server!store
  <2> QED  BY <1>0, <2>1, SameStore
<1>4. CASE Server!SweepExpired
  <2>1. Server!Destroy(Server!Expired) /\ UNCHANGED <<created, now>>
    BY <1>4 DEF Server!SweepExpired
  <2> QED  BY <1>0, <2>1, DestroyKeeps
<1> QED  BY <1>1, <1>2, <1>3, <1>4

LEMMA AloneStays ==
  ASSUME Alone, NEW s, NEW id, Enters(s, id), s \in Sockets => Server!SessionsOf(s) = {}
  PROVE  Alone'
<1>1. \A t \in Sockets : \/ Server!SessionsOf(t)' \subseteq Server!SessionsOf(t)
                        \/ Server!SessionsOf(t)' \subseteq {id}
  BY DEF Enters
<1>2. ASSUME NEW t \in Sockets, NEW a \in Server!SessionsOf(t)', NEW b \in Server!SessionsOf(t)'
      PROVE  a = b
  BY <1>1 DEF Alone
<1> QED  BY <1>2 DEF Alone

\* What the pages do to their ends of the sockets: no socket becomes a new one.
NoRewind(ends, after) == \A s \in Sockets : after[s] \in Early => ends[s] \in Early

LEMMA OpenForward ==
  ASSUME PairTypes, NEW c, NEW connecting, Open(c, connecting)
  PROVE  NoRewind(end, end') /\ UNCHANGED asked
<1>1. PICK s \in Sockets : end[s] = "unused" /\ end' = [end EXCEPT ![s] = "connecting"]
  BY DEF Open, Unused
<1>2. UNCHANGED asked
  BY DEF Open
<1> QED  BY <1>1, <1>2 DEF NoRewind, Early, PairTypes, Objective, Sane

LEMMA ShutForward ==
  ASSUME NEW ends \in [Sockets -> Ends], NEW s
  PROVE  NoRewind(ends, Shut(ends, s))
BY DEF NoRewind, Early, Shut

\* A step that leaves the server and the requests alone.
LEMMA PageKeeps ==
  ASSUME Kept, UNCHANGED <<serverVars, asked>>, NoRewind(end, end')
  PROVE  Kept'
<1>1. UNCHANGED <<sessionsById, sessionIdByPairingCode, now, created, silent>>
  BY DEF serverVars
<1>2. Stored' /\ Enters(NoSocket, NoId)
  BY <1>1, SameStore DEF Kept, Stored
<1>3. \A t \in Sockets : Server!SessionsOf(t)' \subseteq Server!SessionsOf(t)
  BY <1>2, PairingConstants DEF Enters
<1>4. Untried'
  BY <1>1, <1>3 DEF Kept, Untried, NoRewind
<1> QED  BY <1>2, <1>4, AloneStays, PairingConstants DEF Kept

\* A step of the server in which nobody enters a session.
LEMMA ServerKeeps ==
  ASSUME Kept, UNCHANGED <<end, asked, silent>>, Stored', Enters(NoSocket, NoId)
  PROVE  Kept'
<1>1. \A t \in Sockets : Server!SessionsOf(t)' \subseteq Server!SessionsOf(t)
  BY PairingConstants DEF Enters
<1>2. Untried'
  BY <1>1 DEF Kept, Untried
<1> QED  BY <1>2, AloneStays, PairingConstants DEF Kept

LEMMA PagesUse ==
  ASSUME PairTypes, Kept,
         \/ GenerateQr \/ EnterCode \/ \E role \in {"sender", "receiver"} : Leave(role)
         \/ \E c \in Objects : StartConnects(c) \/ ReconnectTimer(c)
         \/ \E s \in Sockets : CloseEvent(s) \/ ConnectTimeout(s) \/ Refused(s) \/ TakeMail(s)
  PROVE  Kept' /\ UNCHANGED serverVars
<1>1. /\ end \in [Sockets -> Ends] /\ UNCHANGED serverVars
      /\ \A s \in Sockets : [end EXCEPT ![s] = "closed"] \in [Sockets -> Ends]
                           /\ [end EXCEPT ![s] = "dead"] \in [Sockets -> Ends]
      /\ \A s \in Sockets : NoRewind(end, [end EXCEPT ![s] = "closed"])
                           /\ NoRewind(end, [end EXCEPT ![s] = "dead"])
  <2>1. UNCHANGED serverVars
    BY DEF GenerateQr, EnterCode, Leave, StartConnects, ReconnectTimer, CloseEvent,
           ConnectTimeout, Refused, TakeMail
  <2>2. end \in [Sockets -> Ends]
    BY DEF PairTypes, Objective, Sane
  <2> QED  BY <2>1, <2>2 DEF NoRewind, Early, Ends
<1>2. ASSUME NEW c, NEW clients, NEW ends \in [Sockets -> Ends], NoRewind(end, ends),
             Rejected(c, clients, ends)
      PROVE  NoRewind(end, end')
  <2>1. end' = ends \/ \E s : end' = Shut(ends, s)
    BY <1>2 DEF Rejected
  <2> QED  BY <1>2, <2>1, ShutForward DEF NoRewind
<1>3. ASSUME NEW c, CloseClient(c) PROVE NoRewind(end, end')
  BY <1>1, <1>3, ShutForward DEF CloseClient
<1>4. NoRewind(end, end)
  BY DEF NoRewind
<1>5. CASE GenerateQr
  <2>1. UNCHANGED <<end, asked>>
    BY <1>5 DEF GenerateQr, socketVars
  <2> QED  BY <1>1, <1>4, <2>1, PageKeeps
<1>6. CASE EnterCode
  <2>1. PICK c : JoinOnce(c)
    BY <1>6 DEF EnterCode
  <2>2. Open(c, TRUE) \/ UNCHANGED <<end, asked>>
    BY <2>1 DEF JoinOnce, Join
  <2> QED  BY <1>1, <1>4, <2>2, OpenForward, PageKeeps
<1>7. CASE \E role \in {"sender", "receiver"} : Leave(role)
  <2>1. PICK c : CloseClient(c) /\ UNCHANGED asked
    BY <1>7 DEF Leave
  <2> QED  BY <1>1, <1>3, <2>1, PageKeeps
<1>8. CASE \E c \in Objects : StartConnects(c) \/ ReconnectTimer(c)
  <2>1. PICK c, connecting : Open(c, connecting)
    BY <1>8 DEF StartConnects, ReconnectTimer
  <2> QED  BY <1>1, <2>1, OpenForward, PageKeeps
<1>9. ASSUME NEW s \in Sockets, CloseEvent(s) PROVE Kept'
  <2> DEFINE ends == [end EXCEPT ![s] = "closed"]
  <2>1. (end' = ends \/ \E c, clients : Rejected(c, clients, ends)) /\ UNCHANGED asked
    BY <1>9 DEF CloseEvent
  <2>2. ends \in [Sockets -> Ends] /\ NoRewind(end, ends)
    BY <1>1
  <2> HIDE DEF ends
  <2> QED  BY <1>1, <1>2, <2>1, <2>2, PageKeeps
<1>10. ASSUME NEW s \in Sockets, ConnectTimeout(s) PROVE Kept'
  <2> DEFINE ends == [end EXCEPT ![s] = "dead"]
  <2>1. (end' = ends \/ \E c, clients : Rejected(c, clients, ends)) /\ UNCHANGED asked
    BY <1>10 DEF ConnectTimeout
  <2>2. ends \in [Sockets -> Ends] /\ NoRewind(end, ends)
    BY <1>1
  <2> HIDE DEF ends
  <2> QED  BY <1>1, <1>2, <2>1, <2>2, PageKeeps
<1>11. ASSUME NEW s \in Sockets, Refused(s) PROVE Kept'
  BY <1>1, <1>11, PageKeeps DEF Refused
<1>12. ASSUME NEW s \in Sockets, TakeMail(s) PROVE Kept'
  <2>1. (CloseClient(owner[s]) \/ end' = end) /\ UNCHANGED asked
    BY <1>12 DEF TakeMail
  <2> QED  BY <1>1, <1>3, <1>4, <2>1, PageKeeps
<1> QED  BY <1>1, <1>5, <1>6, <1>7, <1>8, <1>9, <1>10, <1>11, <1>12

\* The session sends its request over the socket that has just opened: this.socket of a
\* client whose socket opens is that socket.
LEMMA OpenUses ==
  ASSUME PairTypes, Kept, NEW s \in Sockets, OpenEvent(s)
  PROVE  Kept' /\ UNCHANGED serverVars
<1> DEFINE via == client[owner[s]].socket
<1>1. /\ end[s] = "connecting" /\ end' = [end EXCEPT ![s] = "open"] /\ UNCHANGED serverVars
      /\ \/ UNCHANGED asked
         \/ \E what : asked' = [asked EXCEPT ![via] = what]
  BY DEF OpenEvent
<1>2. via = s /\ end \in [Sockets -> Ends]
  <2>1. Sane(client, end, owner, starting) /\ end \in [Sockets -> Ends]
    BY DEF PairTypes, Objective, Sane
  <2>2. client[owner[s]].socket = s
    <3>1. owner[s] \in Objects
      BY <1>1, <2>1 DEF Sane
    <3>2. Sound(owner[s], client[owner[s]], end, owner) /\ end[s] \in Alive
      BY <1>1, <2>1, <3>1 DEF Sane, Alive
    <3> QED  BY <3>2 DEF Sound
  <2> QED  BY <2>1, <2>2
<1> HIDE DEF via
<1>3. /\ end'[s] = "open" /\ \A t \in Sockets \ {s} : end'[t] = end[t] /\ asked'[t] = asked[t]
      /\ asked \in [Sockets -> {"none", "create", "join"}]
  BY <1>1, <1>2 DEF PairTypes, Counted
<1>4. UNCHANGED <<sessionsById, sessionIdByPairingCode, now, created, silent>>
  BY <1>1 DEF serverVars
<1>5. Stored' /\ Enters(NoSocket, NoId)
  BY <1>4, SameStore DEF Kept, Stored
<1>6. \A t \in Sockets : Server!SessionsOf(t)' \subseteq Server!SessionsOf(t)
  BY <1>5, PairingConstants DEF Enters
<1>7. Untried'
  <2>1. ASSUME NEW t \in Sockets
        PROVE  /\ end'[t] \in Early => asked'[t] = "none"
               /\ end'[t] \in Early \/ asked'[t] # "none" =>
                    t \notin silent' /\ Server!SessionsOf(t)' = {}
    <3>1. CASE t = s
      <4>1. s \notin silent /\ Server!SessionsOf(s) = {}
        BY <1>1 DEF Kept, Untried, Early
      <4> QED  BY <1>3, <1>4, <1>6, <3>1, <4>1 DEF Early
    <3>2. CASE t # s
      <4>1. /\ end[t] \in Early => asked[t] = "none"
            /\ end[t] \in Early \/ asked[t] # "none" => t \notin silent /\ Server!SessionsOf(t) = {}
        BY DEF Kept, Untried
      <4> QED  BY <1>3, <1>4, <1>6, <3>2, <4>1
    <3> QED  BY <3>1, <3>2
  <2> QED  BY <2>1 DEF Untried
<1> QED  BY <1>1, <1>5, <1>7, AloneStays, PairingConstants DEF Kept

\* A request is taken once, from a socket in no session whose page is there.
LEMMA RequestUses ==
  ASSUME PairTypes, Kept, NEW s \in Sockets, TakeRequest(s)
  PROVE  Kept' /\ Server!Next
<1>1. /\ readyState[s] = "open" /\ asked[s] # "none" /\ UNCHANGED end
      /\ asked' = [asked EXCEPT ![s] = "none"]
      /\ \/ Server!HandleCreateSession(s)
         \/ Server!HandleJoinByCode(s) \/ Server!HandleJoinByQr(s)
  BY DEF TakeRequest
<1>2. s \notin silent /\ Server!SessionsOf(s) = {} /\ end[s] \notin Early
  BY <1>1 DEF Kept, Untried
<1>3. Server!Next
  <2>1. Server!Unpaired(s)
    BY <1>1, <1>2 DEF Server!Unpaired
  <2>2. Server!CreateSession(s) \/ Server!JoinByCode(s) \/ Server!JoinByQr(s)
    BY <1>1, <2>1 DEF Server!CreateSession, Server!JoinByCode, Server!JoinByQr
  <2> QED  BY <2>2 DEF Server!Next, Server!SocketStep
<1>4. UNCHANGED silent
  BY <1>1 DEF Server!HandleCreateSession, Server!HandleJoinByCode, Server!HandleJoinByQr,
              Server!sockets
<1>5. PICK id \in Ids \cup {NoId} : Stored' /\ Enters(s, id)
  BY <1>1, RequestKeeps DEF Kept
<1>6. \A t \in Sockets \ {s} : Server!SessionsOf(t)' \subseteq Server!SessionsOf(t)
  BY <1>5 DEF Enters
<1>7. asked'[s] = "none" /\ \A t \in Sockets \ {s} : asked'[t] = asked[t]
  BY <1>1 DEF PairTypes, Counted
<1>8. Untried'
  <2>1. ASSUME NEW t \in Sockets
        PROVE  /\ end'[t] \in Early => asked'[t] = "none"
               /\ end'[t] \in Early \/ asked'[t] # "none" =>
                    t \notin silent' /\ Server!SessionsOf(t)' = {}
    <3>1. CASE t = s
      BY <1>1, <1>2, <1>7, <3>1
    <3>2. CASE t # s
      <4>1. /\ end[t] \in Early => asked[t] = "none"
            /\ end[t] \in Early \/ asked[t] # "none" => t \notin silent /\ Server!SessionsOf(t) = {}
        BY DEF Kept, Untried
      <4> QED  BY <1>1, <1>4, <1>6, <1>7, <3>2, <4>1
    <3> QED  BY <3>1, <3>2
  <2> QED  BY <2>1 DEF Untried
<1>9. Alone'
  BY <1>2, <1>5, AloneStays DEF Kept
<1> QED  BY <1>3, <1>5, <1>8, <1>9 DEF Kept

\* Connections that come, end and fall silent.
LEMMA ConnectionUses ==
  ASSUME PairTypes, Kept, NEW s \in Sockets, Handshake(s) \/ ServerHears(s) \/ Lose(s)
  PROVE  Kept' /\ (Server!Next \/ UNCHANGED serverVars)
<1>1. CASE Handshake(s) \/ ServerHears(s)
  <2>1. Server!Connect(s) \/ Server!Close(s)
    BY <1>1 DEF Handshake, ServerHears
  <2>2. UNCHANGED <<end, asked>>
    BY <1>1 DEF Handshake, ServerHears, socketVars
  <2>3. UNCHANGED silent
    BY <2>1 DEF Server!Connect, Server!Close
  <2>4. Stored' /\ Enters(NoSocket, NoId)
    BY <2>1, LeavingKeeps DEF Kept
  <2> QED  BY <2>1, <2>2, <2>3, <2>4, ServerKeeps DEF Server!Next, Server!SocketStep
<1>2. CASE Lose(s)
  <2>1. end[s] = "open" /\ end' = [end EXCEPT ![s] = "dead"] /\ end \in [Sockets -> Ends]
    BY <1>2 DEF Lose, PairTypes, Objective, Sane
  <2>2. NoRewind(end, end')
    BY <2>1 DEF NoRewind, Early
  <2>3. CASE UNCHANGED <<serverVars, asked>>
    BY <2>2, <2>3, PageKeeps
  <2>4. CASE Server!FallSilent(s) /\ asked' = [asked EXCEPT ![s] = "none"]
    <3>1. silent' = silent \cup {s}
      BY <2>4 DEF Server!FallSilent
    <3>2. Stored' /\ Enters(NoSocket, NoId)
      BY <2>4, LeavingKeeps DEF Kept
    <3>3. \A t \in Sockets : Server!SessionsOf(t)' \subseteq Server!SessionsOf(t)
      BY <3>2, PairingConstants DEF Enters
    <3>4. /\ asked'[s] = "none" /\ end'[s] \notin Early
          /\ \A t \in Sockets \ {s} : asked'[t] = asked[t] /\ end'[t] = end[t]
      BY <2>1, <2>4 DEF PairTypes, Counted, Early
    <3>5. Untried'
      BY <3>1, <3>3, <3>4 DEF Kept, Untried
    <3>6. Kept'
      BY <3>2, <3>5, AloneStays, PairingConstants DEF Kept
    <3> QED  BY <2>4, <3>6 DEF Server!Next, Server!SocketStep
  <2> QED  BY <1>2, <2>3, <2>4 DEF Lose
<1> QED  BY <1>1, <1>2

\* The server's close events, answers to pings and intervals.
LEMMA IntervalUses ==
  ASSUME Kept, Heartbeat \/ ServerSteps \/ ServerStep(Server!Tick)
  PROVE  Kept' /\ Server!Next
<1>1. \/ \E s \in Sockets : Server!HandleDisconnect(s) \/ Server!Pong(s)
      \/ Server!Heartbeat \/ Server!SweepExpired \/ Server!Tick
  BY DEF Heartbeat, ServerSteps, ServerStep
<1>2. UNCHANGED <<end, asked>>
  BY DEF Heartbeat, ServerSteps, ServerStep
<1>3. UNCHANGED silent
  BY <1>1 DEF Server!HandleDisconnect, Server!Pong, Server!Heartbeat, Server!SweepExpired,
              Server!Tick, Server!sockets
<1>4. Stored' /\ Enters(NoSocket, NoId)
  BY <1>1, LeavingKeeps DEF Kept
<1> QED  BY <1>1, <1>2, <1>3, <1>4, ServerKeeps DEF Server!Next, Server!SocketStep

LEMMA KeptInit == Init => Kept
<1>1. SUFFICES ASSUME Init PROVE Kept
  OBVIOUS
<1>2. /\ sessionsById = [id \in Ids |-> NoSession] /\ silent = {} /\ now = 0 /\ created = 0
      /\ sessionIdByPairingCode = [c \in Codes |-> NoId]
      /\ asked = [s \in Sockets |-> "none"]
  BY <1>1 DEF Init, Server!Init
<1>3. \A s \in Sockets : Server!SessionsOf(s) = {}
  BY <1>2 DEF Server!SessionsOf, Server!Live
<1>4. Stored
  BY <1>2 DEF Stored
<1>5. Alone
  BY <1>3 DEF Alone
<1>6. Untried
  BY <1>2, <1>3 DEF Untried
<1> QED  BY <1>4, <1>5, <1>6 DEF Kept

LEMMA KeptStep ==
  ASSUME PairTypes, Kept, [Next]_vars
  PROVE  Kept' /\ [Server!Next]_(Server!vars)
<1>1. ASSUME UNCHANGED serverVars PROVE UNCHANGED Server!vars
  BY <1>1 DEF serverVars, Server!vars, Server!store, Server!sockets
<1>2. CASE UNCHANGED vars
  <2>1. UNCHANGED serverVars /\ UNCHANGED <<end, asked>>
    BY <1>2 DEF vars, socketVars
  <2>2. NoRewind(end, end')
    BY <2>1 DEF NoRewind
  <2> QED  BY <1>1, <2>1, <2>2, PageKeeps
<1>3. CASE Next
  BY <1>1, <1>3, PagesUse, OpenUses, RequestUses, ConnectionUses, IntervalUses DEF Next, Events
<1> QED  BY <1>2, <1>3

\* The two pages are clients as SignalingServer assumes them: each sends one request over
\* a socket of its own that is in no session, so every behaviour of the pages, their
\* clients and the server is one of SignalingServer, and what is proved of it holds here.
THEOREM ServerIsUsedAsAssumed == Spec => KeepsServerSpec
<1>1. Init => Server!Init
  BY DEF Init
<1>2. PairTypes /\ Kept /\ [Next]_vars => Kept' /\ [Server!Next]_(Server!vars)
  BY KeptStep
<1> QED  BY <1>1, <1>2, KeptInit, PairTypesHold, PTL DEF Spec, KeepsServerSpec, Server!Spec
=============================================================================
