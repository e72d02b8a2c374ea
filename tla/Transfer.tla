------------------------------ MODULE Transfer -------------------------------
(***************************************************************************)
(* One transfer: a sending page and a receiving page that has just joined, *)
(* the relay and the connection between them, and what the world does to   *)
(* them.  SenderSession and ReceiverSession share the variables of         *)
(* PeerLink; this module interleaves their steps.                          *)
(***************************************************************************)
EXTENDS SenderSession, ReceiverSession, TransferStateMachine

CONSTANTS
  MaxLosses,   \* bound: losses out of Losses
  Losses,      \* break, sender-blip, receiver-blip
  Stalls,      \* a negotiation may fail before its channels open
  MaxUpsets,   \* bound: upsets out of Upsets
  Upsets,      \* signaling events: sender-drops, receiver-drops, expires, refuses;
               \* fault: a rejected read, write or history entry; cancel and leaves:
               \* by a user
  MaxPauses    \* bound: pauses by the user

ASSUME WorldConstants ==
  /\ {MaxLosses, MaxUpsets, MaxPauses} \subseteq Nat
  /\ Losses \subseteq {"break", "sender-blip", "receiver-blip"}
  /\ Stalls \in BOOLEAN
  /\ Upsets \subseteq {"sender-drops", "receiver-drops", "expires", "refuses",
                        "fault", "cancel", "leaves"}

VARIABLES
  left,    \* what the world may still do
  blipped  \* the receiver's connection is disconnected and will recover

worldVars == <<left, blipped>>
vars == <<linkVars, senderVars, receiverVars, worldVars>>

Init ==
  /\ LinkInit /\ SenderInit /\ ReceiverInit
  /\ left = [losses |-> MaxLosses, upsets |-> MaxUpsets, pauses |-> MaxPauses]
  /\ blipped = FALSE

Spend(kind) ==
  /\ left[kind] > 0
  /\ left' = [left EXCEPT ![kind] = @ - 1]
  /\ UNCHANGED blipped

Undisturbed == left.upsets = MaxUpsets
Upset(kind) == kind \in Upsets /\ Spend("upsets")
Loss(kind) == kind \in Losses /\ Spend("losses")

SenderStep(A) == A /\ UNCHANGED <<receiverVars, worldVars>>
ReceiverStep(A) == A /\ UNCHANGED <<senderVars, worldVars>>
-----------------------------------------------------------------------------
\* The two descriptions match: ICE and DTLS succeed and the channels open.
ConnectionOpens ==
  /\ ChannelsReady /\ rPeer = sPeer /\ ~rGone
  /\ ReadyR
  /\ UNCHANGED worldVars

\* The network drops the open connection.
ConnectionBreaks ==
  /\ up # 0 /\ Loss("break")
  /\ CutLink(<<>>, <<>>)
  /\ UNCHANGED <<signalVars, senderVars, receiverVars>>

\* The negotiation of this.peer fails, or takes longer than a pong may: the
\* heartbeat of a new peer starts before its channels are open.  A negotiation that
\* the receiver has answered may fail for its peer as well.
NegotiationStalls ==
  /\ Stalls /\ sPeer > opened
  /\ LoseConnection
  /\ \/ UNCHANGED receiverVars
     \/ rPeer > opened /\ ~rGone /\ LoseConnectionR
  /\ UNCHANGED worldVars

\* A disconnected event, or a late pong, at the sender while the channels work.
SenderBlip ==
  /\ up # 0 /\ Loss("sender-blip")
  /\ LoseConnection
  /\ UNCHANGED receiverVars

\* disconnected at the receiver, and connected again later
ReceiverBlip ==
  /\ up # 0 /\ ~blipped /\ "receiver-blip" \in Losses /\ left.losses > 0
  /\ left' = [left EXCEPT !.losses = @ - 1] /\ blipped' = TRUE
  /\ LoseConnectionR
  /\ UNCHANGED <<senderVars, linkVars>>

ReceiverRecovers ==
  /\ blipped /\ blipped' = FALSE
  /\ IF up # 0 THEN ReadyR ELSE UNCHANGED receiverVars
  /\ UNCHANGED <<left, senderVars, linkVars>>

\* The sender's socket drops and SignalingClient opens another one; the server
\* has destroyed the session by then.
SenderSocketDrops ==
  /\ sOnline /\ Upset("sender-drops")
  /\ sOnline' = FALSE
  /\ SenderSocketGone
  /\ UNCHANGED <<sControl, sReconnect, sPeer, sDesc, sLeft, cancelled, channelVars,
                 receiverVars>>

SenderSocketReopens ==
  /\ ~sOnline /\ ~cancelled /\ ~sLeft
  /\ sOnline' = TRUE
  /\ UNCHANGED <<sControl, sReconnect, sPeer, sDesc, sLeft, cancelled,
                 linkVars, receiverVars, worldVars>>

\* The receiver's socket drops; its next one is not part of the session.
ReceiverSocketDrops ==
  /\ linked /\ Upset("receiver-drops")
  /\ ReceiverSocketGone
  /\ UNCHANGED <<channelVars, senderVars, receiverVars>>

\* The server's sweep: both are told, and the session is gone.
SessionExpires ==
  /\ session /\ Upset("expires")
  /\ session' = FALSE
  /\ toSender' = Append(toSender, [t |-> "SESSION_EXPIRED"])
  /\ toReceiver' = IF linked
                   THEN Append(toReceiver, [t |-> "SESSION_EXPIRED"]) ELSE toReceiver
  /\ UNCHANGED <<linked, channelVars, senderVars, receiverVars>>

\* The server's message limit refuses a message of one of the pages.
RateLimits ==
  /\ Upset("refuses")
  /\ \/ /\ sOnline
        /\ toSender' = Append(toSender, [t |-> "RATE_LIMITED"])
        /\ UNCHANGED toReceiver
     \/ /\ linked
        /\ toReceiver' = Append(toReceiver, [t |-> "RATE_LIMITED"])
        /\ UNCHANGED toSender
  /\ UNCHANGED <<session, linked, channelVars, senderVars, receiverVars>>

Faults ==
  /\ Upset("fault")
  /\ \/ (\E k \in DOMAIN loops : LoopFails(k)) /\ UNCHANGED receiverVars
     \/ (WriteFails \/ FinalizeFails) /\ UNCHANGED senderVars

Pauses == PauseCurrentFile /\ Spend("pauses") /\ UNCHANGED receiverVars

Cancels ==
  /\ Upset("cancel")
  /\ \/ UserCancels /\ UNCHANGED receiverVars
     \/ CancelR /\ UNCHANGED senderVars
Leaves ==
  /\ Upset("leaves")
  /\ \/ Leave /\ UNCHANGED receiverVars
     \/ LeaveR /\ UNCHANGED senderVars
-----------------------------------------------------------------------------
Continuation ==
  \E k \in DOMAIN loops :
    SenderStep(NextFile(k)) \/ SenderStep(PumpContinues(k)) \/ SenderStep(PumpReturns(k))

SenderReads ==
  \E k \in DOMAIN loops :
    \/ SenderStep(PrefixHashed(k))
    \/ SenderStep(ChunkRead(k))
    \/ SenderStep(BufferLow(k))
    \/ SenderStep(HistorySaved(k))

SenderHandlers ==
  \/ SenderStep(BeginHandshake) \/ SenderStep(TakeAnswer) \/ SenderStep(TakeNotice)
  \/ SenderStep(HandleAccept) \/ SenderStep(HandleReject) \/ SenderStep(HandleCancel)
  \/ SenderStep(ResumeCurrentFile)
  \/ SenderStep(LossNoticed) \/ SenderStep(AttemptReconnect)

ReceiverHandlers ==
  \/ ReceiverStep(TakeOffer) \/ ReceiverStep(TakeNoticeR)
  \/ ReceiverStep(TakeRefusal)
  \/ ReceiverStep(HandleSessionInit) \/ ReceiverStep(KeyImported)
  \/ ReceiverStep(HandleFileOffer) \/ ReceiverStep(HandleCancelR)
  \/ \E i \in DOMAIN accepting : ReceiverStep(SinkCreated(i))
  \/ \E n \in ended : ReceiverStep(LossNoticedR(n))
  \/ ReceiverStep(GiveUp)

ReceiverUser == ReceiverStep(Accept) \/ ReceiverStep(Reject)

ReceiverFrames ==
  \/ ReceiverStep(TakeChunk) \/ ReceiverStep(TakeFileComplete)
  \/ ReceiverStep(TakeTransferComplete)

World ==
  \/ ConnectionOpens \/ ConnectionBreaks \/ NegotiationStalls
  \/ SenderBlip \/ ReceiverBlip \/ ReceiverRecovers
  \/ SenderSocketDrops \/ SenderSocketReopens \/ ReceiverSocketDrops
  \/ SessionExpires \/ RateLimits
  \/ Faults \/ Pauses \/ Cancels \/ Leaves

\* A continuation of the sending page runs before anything else happens.
Next ==
  \/ Continuation
  \/ /\ Quiet
     /\ \/ SenderReads \/ SenderHandlers
        \/ ReceiverHandlers \/ ReceiverUser \/ ReceiverFrames
        \/ World

Spec == Init /\ [][Next]_vars

\* As long as there is something to do, it is done: timers fire, events are
\* dispatched, reads end, matching descriptions connect, a closed signaling socket
\* is opened again, a negotiation that leads nowhere fails, and a user who paused
\* resumes.  Nobody has to answer a dialog, and the world need not do anything.
Fairness ==
  WF_vars(\/ Continuation
          \/ /\ Quiet
             /\ \/ SenderReads \/ SenderHandlers \/ ReceiverHandlers \/ ReceiverFrames
                \/ ConnectionOpens \/ SenderSocketReopens \/ NegotiationStalls)

FairSpec == Spec /\ Fairness
-----------------------------------------------------------------------------
\* Every variable holds a value of its type; no chunk index lies outside a file.
TypeOK ==
  /\ \A i \in DOMAIN frames :
       frames[i].t = "CHUNK" => frames[i].f \in Files /\ frames[i].c \in 0..(NumChunks - 1)
  /\ up \in 0..MaxConns /\ sPeer \in 0..MaxConns /\ rPeer \in 0..MaxConns
  /\ sDesc \in 0..MaxConns /\ ended \subseteq 1..MaxConns
  /\ kept \in 0..Len(frames)
  /\ {session, linked, sOnline, sLeft, reconnecting, cancelled, rCancelled, rGone}
       \subseteq BOOLEAN
  /\ attempts \in 0..MaxAttempts /\ retries \in Nat
  /\ activeFile \in Files /\ activePump \in 0..Len(loops)
  /\ \A k \in DOMAIN loops :
       /\ loops[k].at \in {"next", "run", "save", "done", "dead"}
       /\ loops[k].file \in 0..NumFiles
       /\ loops[k].resume \in [Files -> 0..NumChunks]
       /\ loops[k].pump \in Pumps
  /\ sState \in {"WAITING_FOR_PEER", "CONNECTING", "AWAITING_ACCEPTANCE",
                 "TRANSFERRING", "PAUSED", "INTERRUPTED"} \cup Closed
  /\ rState \in {"CONNECTING", "TRANSFERRING", "INTERRUPTED"} \cup Closed
  /\ giveUp \in {"off", "armed", "spent"} /\ rKey \in {"none", "importing", "set"}

-----------------------------------------------------------------------------
(* Over one connection                                                     *)

\* The receiving page shows the transfer as COMPLETED only when every file of it
\* was verified, or was concluded otherwise because a step of it was rejected or its
\* accept came before the key: TRANSFER_COMPLETE travels behind every chunk and
\* FILE_COMPLETE.
CompletedMeansVerified ==
  rState = "COMPLETED" =>
    \A f \in Files :
      rFile[f] = "COMPLETED"
      \/ (f \in completed /\ ~(Undisturbed /\ recv[f].keyed = Encrypted))

\* Chunks are folded into the running hash in ascending order, and without a hole
\* as long as no write is rejected.
HashedInOrder ==
  \A f \in Files : Accepted(f) =>
    \A j \in DOMAIN recv[f].hashed :
      IF Undisturbed THEN recv[f].hashed[j] = j - 1
      ELSE j > 1 => recv[f].hashed[j - 1] < recv[f].hashed[j]

\* After cancelAll the sending page shows CANCELLED for good and puts nothing
\* more on the file channel, whatever loops, timers and messages are left.
CancelIsFinal ==
  [][cancelled => sState' = "CANCELLED" /\ Len(frames') <= Len(frames)]_vars

\* Once the receiver has accepted everything and the connection holds, both pages
\* get to COMPLETED, unless a step of theirs was rejected.
AcceptedIsDelivered ==
  (\A f \in Files : Accepted(f)) ~>
    (sState = "COMPLETED" /\ rState = "COMPLETED") \/ ~Undisturbed

\* Over one connection the sending page's states follow each other as the table of
\* TransferStateMachine has it, however its user pauses and resumes; one step is not
\* in the table, a pause that falls on the last chunk.
FollowsTable ==
  [][CanTransition(sState, sState') \/ (sState = "PAUSED" /\ sState' = "COMPLETED")]_sState
-----------------------------------------------------------------------------
(* Across connections                                                      *)

\* A FILE_ACCEPT on its way asks for no chunk beyond what the receiver has
\* without a hole: nothing is skipped on resume.
ResumePointHeld ==
  \A i \in DOMAIN ctlToSender :
    LET m == ctlToSender[i] IN
    m.t = "FILE_ACCEPT" =>
      \A f \in Files : m.resume[f] > 0 =>
        Accepted(f) /\ 0..(m.resume[f] - 1) \subseteq Held(recv[f])

\* The loop that the open connection's FILE_ACCEPT started leaves no hole in a
\* file that the receiver was ready for when it accepted: each chunk below the
\* loop's index is there or on its way, as long as no write was rejected.
NoGap ==
  Undisturbed =>
    \A k \in DOMAIN loops :
      LET l == loops[k] IN
      Running(k) /\ up # 0 /\ l.via = up /\ l.file \in l.known /\ ~recv[l.file].digested =>
        \A c \in 0..(l.pump.chunk - 1) :
          \/ c \in Held(recv[l.file])
          \/ \E i \in DOMAIN frames :
                frames[i] = [t |-> "CHUNK", f |-> l.file, c |-> c]

\* The receiving page keeps the promises of Delivery.
Promise == INSTANCE Delivery WITH
  gathered <- [f \in Files |-> Held(recv[f])],
  outcome <- [f \in Files |->
                CASE f \notin completed -> "pending"
                  [] f \in completed /\ WholeFile(recv[f], NumChunks, Encrypted) -> "intact"
                  [] OTHER -> "damaged"]
KeepsPromise == Promise!Spec

\* Without a connection the sending page does not stay INTERRUPTED: it gets one
\* back, or runs out of attempts, even when its signaling socket was closed at the
\* time of an attempt (only the heartbeat of the dead peer brings it back to try),
\* unless its user leaves it.
InterruptedSettles ==
  sState = "INTERRUPTED" /\ up = 0 ~> sState # "INTERRUPTED" \/ up # 0 \/ sLeft
-----------------------------------------------------------------------------
(* What the repository says and the code does not keep                     *)

\* README "a transfer interrupted by a network blip resumes": what a sending page
\* shows as COMPLETED gets to the receiver in the end.
CompletedIsDelivered ==
  sState = "COMPLETED" ~> \A f \in Files : f \in completed

\* stateMachine.test.ts:36 "does not allow leaving a terminal state", and README "Explicit
\* transfer state machine (no ad-hoc boolean flags) driving a polished Material UI
\* dashboard": a state that the table lets nothing follow stays in the sender's store.
TerminalStays == [][(sState \in Terminal) => sState' = sState]_vars
=============================================================================
