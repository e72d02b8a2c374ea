---------------------------- MODULE SenderSession ----------------------------
(***************************************************************************)
(* The sending page's session (client/src/services/transfer/               *)
(* SenderSession.ts) from PEER_JOINED on: handshake, offer, the accept     *)
(* loop with its pumps, pause and cancel, loss of the connection and the   *)
(* attempts to reconnect.                                                  *)
(*                                                                         *)
(* Every FILE_ACCEPT starts one more run of handleAccept; nothing stops    *)
(* the earlier ones, so the session holds a sequence of them (`loops`).    *)
(* A step ends where the code awaits something that is not there yet.  A   *)
(* continuation that is ready (Busy) runs before any other event.          *)
(***************************************************************************)
EXTENDS PeerLink, ChunkPump

CONSTANTS
  MaxAttempts, \* MAX_WEBRTC_RECONNECT_ATTEMPTS
  FullAt,      \* frames on their way that may fill the buffer
  MaxConns     \* bound: peer connections the sender creates

ASSUME SenderConstants ==
  MaxAttempts \in Nat /\ FullAt \in Nat \ {0} /\ MaxConns \in Nat \ {0}

VARIABLES
  sState,      \* transferState of the sender's store
  sFile,       \* status of each file in the sender's store
  sPeer,       \* number of this.peer, 0 before the handshake
  sDesc,       \* number of the answer that this.peer took, 0 if none
  sOnline,     \* the signaling socket is open
  sLeft,       \* the page was left: destroy() without a cancel
  reconnecting, attempts, cancelled,
  retries,     \* attemptReconnect timers that have not fired
  activeFile,  \* activeFileIndex
  activePump,  \* the loop whose pump is this.activePump, 0 if null
  loops        \* one record per run of handleAccept

sControl == <<sState, sFile, activeFile, activePump, loops>>
sReconnect == <<reconnecting, attempts, retries>>
sConnection == <<sPeer, sDesc, sOnline, sLeft>>
senderVars == <<sControl, sReconnect, sConnection, cancelled>>

\* States nothing is expected to follow (handleConnectionLoss, TransferDashboard).
Closed == {"COMPLETED", "CANCELLED", "FAILED", "EXPIRED"}

Idle == NewPump(0)

\* A run of handleAccept: `file` is its loop index, `resume` the resumeFrom map
\* of the message, `at` where it is: about to take the next file, running the
\* file's pump, saving the history entry, finished, or ended by a rejection;
\* `on` is the connection whose buffer the pump waits for; `via` (history) is the
\* one that brought the message, `known` (history) the files that the receiver
\* was ready for when it sent it.
Loop(resume, known) ==
  [at |-> "next", file |-> 0, resume |-> resume, pump |-> Idle, on |-> 0,
   via |-> up, known |-> known]
Finished(place) ==
  [Loop([f \in Files |-> 0], {}) EXCEPT !.at = place, !.via = 0]

SenderInit ==
  /\ sState = "WAITING_FOR_PEER" /\ sFile = [f \in Files |-> "QUEUED"]
  /\ sPeer = 0 /\ sDesc = 0 /\ sOnline = TRUE /\ sLeft = FALSE
  /\ reconnecting = FALSE /\ attempts = 0 /\ cancelled = FALSE
  /\ retries = 0 /\ activeFile = 1 /\ activePump = 0 /\ loops = <<>>

Running(k) == loops[k].at = "run"

Busy(k) ==
  \/ loops[k].at = "next"
  \/ Running(k) /\ (Runs(loops[k].pump) \/ Over(loops[k].pump))

\* The page is between two events: no continuation is ready.
Quiet == \A k \in DOMAIN loops : ~Busy(k)

\* this.activePump?.pause() and its like
OnActivePump(Op(_)) ==
  IF activePump = 0 THEN loops
  ELSE [loops EXCEPT ![activePump].pump = Op(@)]

\* What every late handler asks, and the accept loop after its last file:
\* if (this.cancelled) return
NotCancelledForgotten == TRUE   \* slip: it is not asked
NotCancelled == ~cancelled

\* The budget of reconnects is spent.
GivesUp == attempts >= MaxAttempts

SetPump(k, p) == loops' = [loops EXCEPT ![k].pump = p]

PostFrames(msgs) == frames' = Post(frames, sPeer, msgs)
-----------------------------------------------------------------------------
(* Signaling                                                               *)

Relay(msg) ==
  toReceiver' = IF sOnline /\ session /\ linked
                THEN Append(toReceiver, msg) ELSE toReceiver

\* PEER_JOINED: beginWebRtcHandshake
BeginHandshake ==
  /\ toSender # <<>> /\ Head(toSender).t = "PEER_JOINED"
  /\ sPeer < MaxConns
  /\ sState' = "CONNECTING"
  /\ sPeer' = sPeer + 1 /\ sDesc' = 0
  /\ Relay([t |-> "OFFER", n |-> sPeer + 1])
  /\ toSender' = Tail(toSender)
  /\ UNCHANGED <<sFile, activeFile, activePump, loops, sReconnect, sOnline,
                 sLeft, cancelled, session, linked, channelVars>>

\* The first answer to arrive is applied to whatever this.peer is now; a later
\* one is refused by the peer connection.
TakeAnswer ==
  /\ toSender # <<>> /\ Head(toSender).t = "ANSWER"
  /\ sDesc' = IF sDesc = 0 THEN Head(toSender).n ELSE sDesc
  /\ toSender' = Tail(toSender)
  /\ UNCHANGED <<sControl, sReconnect, sPeer, sOnline, sLeft, cancelled,
                 session, linked, toReceiver, channelVars>>

\* The handlers that only write the state: PEER_LEFT, SESSION_EXPIRED,
\* RATE_LIMITED.  cancelAll closes the socket, so none comes after it.
TakeNotice ==
  /\ toSender # <<>>
  /\ \/ Head(toSender).t = "PEER_LEFT" /\ NotCancelled /\ sState' = "INTERRUPTED"
     \/ Head(toSender).t = "SESSION_EXPIRED" /\ sState' = "EXPIRED"
     \/ Head(toSender).t = "RATE_LIMITED" /\ sState' = "FAILED"
  /\ toSender' = Tail(toSender)
  /\ UNCHANGED <<sFile, activeFile, activePump, loops, sReconnect, sConnection,
                 cancelled, session, linked, toReceiver, channelVars>>
-----------------------------------------------------------------------------
(* Control channel                                                         *)

\* onChannelsReady when the connection of this.peer opens.  The first time the
\* whole queue is offered; after a reconnect the active file alone, with no
\* SESSION_INIT.
ChannelsReady ==
  /\ ~cancelled /\ ~sLeft /\ sPeer > opened /\ sDesc = sPeer
  /\ up' = sPeer /\ opened' = sPeer
  /\ reconnecting' = FALSE
  /\ IF reconnecting
     THEN /\ attempts' = 0
          /\ sState' = "TRANSFERRING"
          /\ ctlToReceiver' =
               Append(ctlToReceiver, [t |-> "FILE_OFFER", files |-> {activeFile}])
     ELSE /\ UNCHANGED attempts
          /\ sState' = "AWAITING_ACCEPTANCE"
          /\ ctlToReceiver' =
               ctlToReceiver
                 \o (IF Encrypted THEN <<[t |-> "SESSION_INIT"]>> ELSE <<>>)
                 \o <<[t |-> "FILE_OFFER", files |-> Files]>>
  /\ UNCHANGED <<sFile, activeFile, activePump, loops, retries, sConnection,
                 cancelled, signalVars, ctlToSender, frames, kept, ended>>

TakeControl(type) ==
  /\ ctlToSender # <<>> /\ Head(ctlToSender).t = type
  /\ ctlToSender' = Tail(ctlToSender)

\* FILE_ACCEPT: one more handleAccept
HandleAccept ==
  /\ TakeControl("FILE_ACCEPT")
  /\ sState' = "TRANSFERRING"
  /\ loops' = Append(loops, Loop(Head(ctlToSender).resume, Head(ctlToSender).known))
  /\ UNCHANGED <<sFile, activeFile, activePump, sReconnect, sConnection,
                 cancelled, signalVars, up, opened, ctlToReceiver, frames, kept, ended>>

HandleReject ==
  /\ TakeControl("FILE_REJECT")
  /\ sState' = "CANCELLED"
  /\ UNCHANGED <<sFile, activeFile, activePump, loops, sReconnect, sConnection,
                 cancelled, signalVars, up, opened, ctlToReceiver, frames, kept, ended>>

\* cancelAll with destroy(): the CANCEL may or may not leave before the close.
CancelAll ==
  /\ cancelled' = TRUE
  /\ loops' = OnActivePump(CancelPump)
  /\ sState' = "CANCELLED"
  /\ sOnline' = FALSE
  /\ CutLink(<<>>, Post(ctlToReceiver, sPeer, <<[t |-> "CANCEL"]>>))
  /\ SenderSocketGone
  /\ UNCHANGED <<sFile, activeFile, activePump, sReconnect, sPeer, sDesc, sLeft>>

HandleCancel ==
  /\ ctlToSender # <<>> /\ Head(ctlToSender).t = "CANCEL"
  /\ CancelAll
-----------------------------------------------------------------------------
(* handleAccept and the pump of the current file                           *)

\* The loop head: activeFileIndex moves before `cancelled` is looked at.  After
\* the last file TRANSFER_COMPLETE goes to whatever this.peer is now.
NextFile(k) ==
  LET f == loops[k].file + 1 IN
  /\ loops[k].at = "next"
  /\ \/ /\ f \in Files /\ ~cancelled
        /\ activeFile' = f
        /\ activePump' = k
        /\ sFile' = [sFile EXCEPT ![f] = "TRANSFERRING"]
        /\ loops' = [loops EXCEPT ![k].at = "run", ![k].file = f,
                                  ![k].pump = NewPump(loops[k].resume[f])]
        /\ UNCHANGED <<sState, frames>>
     \/ /\ f \in Files /\ cancelled
        /\ activeFile' = f
        /\ loops' = [loops EXCEPT ![k] = Finished("done")]
        /\ UNCHANGED <<sState, sFile, activePump, frames>>
     \/ /\ f \notin Files
        /\ loops' = [loops EXCEPT ![k] = Finished("done")]
        /\ IF NotCancelled
           THEN /\ PostFrames(<<[t |-> "TRANSFER_COMPLETE"]>>)
                /\ sState' = "COMPLETED"
           ELSE UNCHANGED <<sState, frames>>
        /\ UNCHANGED <<sFile, activeFile, activePump>>
  /\ UNCHANGED <<sReconnect, sConnection, cancelled, signalVars,
                 up, opened, ctlToSender, ctlToReceiver, kept, ended>>

\* The pump's continuations: the loop head and the look at the buffer, which
\* may be over the watermark when enough frames are still on their way.
PumpContinues(k) ==
  LET p == loops[k].pump IN
  /\ Running(k)
  /\ \/ p.at = "top" /\ SetPump(k, AtTop(p, NumChunks))
     \/ p.at = "resumed" /\ SetPump(k, AtBuffer(p, FALSE))
     \/ /\ p.at = "resumed" /\ up # 0 /\ up = sPeer
        /\ Len(frames) - kept >= FullAt
        /\ loops' = [loops EXCEPT ![k].pump = AtBuffer(p, TRUE), ![k].on = up]
  /\ UNCHANGED <<sState, sFile, activeFile, activePump, sReconnect, sConnection,
                 cancelled, linkVars>>

\* sendFile after run(): this.activePump is nulled whoever holds it by now.
PumpReturns(k) ==
  LET l == loops[k] IN
  /\ Running(k) /\ Over(l.pump)
  /\ activePump' = 0
  /\ IF l.pump.at = "cancelled"
     THEN /\ sFile' = [sFile EXCEPT ![l.file] = "CANCELLED"]
          /\ loops' = [loops EXCEPT ![k].at = "next", ![k].pump = Idle]
          /\ UNCHANGED frames
     ELSE /\ PostFrames(<<[t |-> "FILE_COMPLETE", f |-> l.file]>>)
          /\ sFile' = [sFile EXCEPT ![l.file] = "COMPLETED"]
          /\ loops' = [loops EXCEPT ![k].at = "save", ![k].pump = Idle]
  /\ UNCHANGED <<sState, activeFile, sReconnect, sConnection, cancelled,
                 signalVars, up, opened, ctlToSender, ctlToReceiver, kept, ended>>

\* hashAlreadySentRange has read the prefix.
PrefixHashed(k) ==
  /\ Running(k) /\ loops[k].pump.at = "hash"
  /\ SetPump(k, AfterHash(loops[k].pump))
  /\ UNCHANGED <<sState, sFile, activeFile, activePump, sReconnect, sConnection,
                 cancelled, linkVars>>

\* The slice is read: CHUNK_META and the binary frame, sent in one go.
ChunkRead(k) ==
  LET l == loops[k] IN
  /\ Running(k) /\ l.pump.at = "read"
  /\ SetPump(k, AfterRead(l.pump))
  /\ PostFrames(<<[t |-> "CHUNK", f |-> l.file, c |-> l.pump.chunk]>>)
  /\ UNCHANGED <<sState, sFile, activeFile, activePump, sReconnect, sConnection,
                 cancelled, signalVars, up, opened, ctlToSender, ctlToReceiver, kept, ended>>

\* bufferedamountlow, which only the channel that the pump listens to can fire,
\* and only while it is open: a pump that waits for a lost one waits for ever.
BufferLow(k) ==
  /\ Running(k) /\ loops[k].pump.at = "full"
  /\ up # 0 /\ up = loops[k].on
  /\ loops' = [loops EXCEPT ![k].pump = AfterDrain(@), ![k].on = 0]
  /\ UNCHANGED <<sState, sFile, activeFile, activePump, sReconnect, sConnection,
                 cancelled, linkVars>>

\* The history entry is written.
HistorySaved(k) ==
  /\ loops[k].at = "save"
  /\ loops' = [loops EXCEPT ![k].at = "next"]
  /\ UNCHANGED <<sState, sFile, activeFile, activePump, sReconnect, sConnection,
                 cancelled, linkVars>>

\* The slice, the encryption or the history entry is rejected: handleAccept
\* rejects, and nobody handles it.
LoopFails(k) ==
  /\ \/ loops[k].at = "save"
     \/ Running(k) /\ loops[k].pump.at \in {"read", "hash"}
  /\ loops' = [loops EXCEPT ![k] = Finished("dead")]
  /\ UNCHANGED <<sState, sFile, activeFile, activePump, sReconnect, sConnection,
                 cancelled, linkVars>>
-----------------------------------------------------------------------------
(* Pause, cancel, loss of the connection                                   *)

\* The pause button is there while the dashboard shows a file as TRANSFERRING.
PauseCurrentFile ==
  /\ ~sLeft /\ sState \in {"TRANSFERRING", "PAUSED", "AWAITING_ACCEPTANCE", "CONNECTING"}
  /\ \E f \in Files : sFile[f] = "TRANSFERRING"
  /\ loops' = OnActivePump(PausePump)
  /\ sFile' = [sFile EXCEPT ![activeFile] = "PAUSED"]
  /\ sState' = "PAUSED"
  /\ UNCHANGED <<activeFile, activePump, sReconnect, sConnection, cancelled, linkVars>>

ResumeCurrentFile ==
  /\ ~sLeft /\ sState \in {"TRANSFERRING", "PAUSED", "AWAITING_ACCEPTANCE", "CONNECTING"}
  /\ \E f \in Files : sFile[f] = "PAUSED"
  /\ loops' = OnActivePump(ResumePump)
  /\ sFile' = [sFile EXCEPT ![activeFile] = "TRANSFERRING"]
  /\ sState' = "TRANSFERRING"
  /\ UNCHANGED <<activeFile, activePump, sReconnect, sConnection, cancelled, linkVars>>

\* The cancel button, which the closed views of the dashboard do not have.
UserCancels ==
  /\ ~cancelled /\ ~sLeft /\ sState \notin Closed
  /\ CancelAll

\* The page is left in a transfer: destroy() closes this.peer, with its handlers, and
\* the socket, but `cancelled` stays FALSE: loops and planned attempts go on, and so
\* do earlier heartbeats and the timeouts of pings before the last.
Leave ==
  /\ ~cancelled /\ ~sLeft
  /\ sLeft' = TRUE /\ sOnline' = FALSE
  /\ CutLink(<<>>, <<>>)
  /\ SenderSocketGone
  /\ UNCHANGED <<sControl, sReconnect, sPeer, sDesc, cancelled>>

\* handleConnectionLoss
LoseConnection ==
  /\ NotCancelled
  /\ sState \notin {"COMPLETED", "CANCELLED", "FAILED"}
  /\ IF GivesUp
     THEN /\ sState' = "FAILED"
          /\ loops' = OnActivePump(CancelPump)
          /\ UNCHANGED <<attempts, retries>>
     ELSE /\ sState' = "INTERRUPTED"
          /\ loops' = OnActivePump(PausePump)
          /\ attempts' = attempts + 1
          /\ retries' = retries + 1
  /\ UNCHANGED <<sFile, activeFile, activePump, reconnecting, sConnection,
                 cancelled, linkVars>>

\* Slip: the heartbeat stops at the first loss, so nothing reports a second.
LossNoticedOnce ==
  /\ sPeer # 0 /\ sPeer = opened /\ up = 0 /\ attempts = 0
  /\ LoseConnection

\* The connection of this.peer is over: a disconnected or failed event, or a
\* pong that is overdue (the pings go on while there is no channel).
LossNoticed ==
  /\ sPeer # 0 /\ sPeer = opened /\ up = 0
  /\ LoseConnection

\* attemptReconnect: the old peer is closed and a new one offered, unless the
\* session was cancelled or the signaling socket is not open.
AttemptReconnect ==
  /\ retries > 0
  /\ retries' = retries - 1
  /\ IF cancelled \/ ~sOnline
     THEN UNCHANGED <<reconnecting, sPeer, sDesc, linkVars>>
     ELSE /\ sPeer < MaxConns
          /\ reconnecting' = TRUE
          /\ sPeer' = sPeer + 1 /\ sDesc' = 0
          /\ CutLink(<<>>, <<>>)
          /\ Relay([t |-> "OFFER", n |-> sPeer + 1])
          /\ UNCHANGED <<toSender, session, linked>>
  /\ UNCHANGED <<sControl, attempts, sOnline, sLeft, cancelled>>
=============================================================================
