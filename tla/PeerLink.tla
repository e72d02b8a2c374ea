------------------------------ MODULE PeerLink -------------------------------
(***************************************************************************)
(* What lies between the two pages: the signaling relay of the server and  *)
(* the WebRTC connection with its two data channels, as the sessions use   *)
(* them through SignalingClient and PeerConnectionManager.                 *)
(*                                                                         *)
(* Every PeerConnectionManager of the sender has a number, which its OFFER *)
(* and the ANSWER to it carry; `up` is the number of the connection whose  *)
(* channels are open at both ends, 0 if there is none.  Both channels are  *)
(* ordered and reliable while the connection lives; when it is lost, what  *)
(* was not delivered is lost with it.  A frame that was delivered waits in *)
(* the receiver's fileChannelQueue, which outlives the connection: `frames`*)
(* holds both, and its first `kept` frames came over earlier connections.  *)
(***************************************************************************)
EXTENDS Naturals, Sequences, FiniteSets

CONSTANTS
  NumFiles,   \* files in the sender's queue
  NumChunks,  \* chunks of each file
  Encrypted   \* application encryption is on

ASSUME LinkConstants ==
  /\ NumFiles \in Nat \ {0} /\ NumChunks \in Nat \ {0}
  /\ Encrypted \in BOOLEAN

Files == 1..NumFiles

VARIABLES
  up,           \* number of the open connection, 0 if none
  opened,       \* number of the last connection that opened
  session,      \* the signaling server still has the session
  linked,       \* the receiver's socket is still the session's receiver
  toSender,     \* signaling messages on their way to the sender
  toReceiver,   \* signaling messages on their way to the receiver
  ctlToSender,  \* control channel, receiver to sender
  ctlToReceiver,\* control channel, sender to receiver
  frames,       \* file channel and fileChannelQueue
  kept,         \* how many of them came over an earlier connection
  ended         \* connections that ended and whose end the receiver may yet see

signalVars == <<session, linked, toSender, toReceiver>>
channelVars == <<up, opened, ctlToSender, ctlToReceiver, frames, kept, ended>>
linkVars == <<signalVars, channelVars>>

LinkInit ==
  /\ up = 0 /\ opened = 0 /\ session = TRUE /\ linked = TRUE
  /\ toSender = <<[t |-> "PEER_JOINED"]>> /\ toReceiver = <<>>
  /\ ctlToSender = <<>> /\ ctlToReceiver = <<>>
  /\ frames = <<>> /\ kept = 0 /\ ended = {}

\* send() of PeerConnectionManager: dropped unless the channel is open.
Post(queue, peer, msgs) == IF up # 0 /\ up = peer THEN queue \o msgs ELSE queue

\* The open connection, if there is one, ends.  The receiver keeps the frames
\* that were delivered; the last control messages to each side may still be
\* delivered to a page whose own peer connection was not closed.
CutLink(lastToSender, lastToReceiver) ==
  /\ up' = 0 /\ UNCHANGED opened
  /\ ended' = IF up = 0 THEN ended ELSE ended \cup {up}
  /\ \E k \in kept..Len(frames) :
       /\ frames' = SubSeq(frames, 1, k)
       /\ kept' = k
  /\ ctlToSender' \in {<<>>, lastToSender}
  /\ ctlToReceiver' \in {<<>>, lastToReceiver}

\* relay.ts handleDisconnect for the sender's socket: the session is destroyed
\* and the receiver is told.
SenderSocketGone ==
  /\ session' = FALSE
  /\ toReceiver' = IF session /\ linked
                   THEN Append(toReceiver, [t |-> "PEER_LEFT"]) ELSE toReceiver
  /\ toSender' = <<>>
  /\ UNCHANGED linked

\* The same for the receiver's socket: the session stays, without a receiver.
ReceiverSocketGone ==
  /\ linked' = FALSE
  /\ toSender' = IF session /\ linked
                 THEN Append(toSender, [t |-> "PEER_LEFT"]) ELSE toSender
  /\ toReceiver' = <<>>
  /\ UNCHANGED session
=============================================================================
