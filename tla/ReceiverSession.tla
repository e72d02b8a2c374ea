--------------------------- MODULE ReceiverSession ---------------------------
(***************************************************************************)
(* The receiving page's session (client/src/services/transfer/             *)
(* ReceiverSession.ts) after SESSION_JOINED, with the page that owns it    *)
(* (pages/ReceiveScanPage.tsx): answers to offers, the approval dialog,    *)
(* the file channel queue, verification, and the give-up timer.            *)
(*                                                                         *)
(* The queue processes one frame to its end before the next, and nothing   *)
(* else writes what a frame writes, so one frame is one step.              *)
(***************************************************************************)
EXTENDS PeerLink, ChunkReceiver

CONSTANT
  OneAnswer  \* the user accepts no second dialog for a file accepted before

\* No ChunkReceiver in the `receivers` map.
None == [keyed |-> FALSE, hashed |-> <<>>, digested |-> FALSE, none |-> TRUE]

VARIABLES
  rState,    \* transferState of the receiver's store
  rFile,     \* status of each file in the store; ABSENT when it has no entry
  rPeer,     \* number of this.peer, 0 before the first OFFER
  rKey,      \* this.encryption: none, importing, set
  dialog,    \* files of the offer on screen, {} when there is none
  accepting, \* runs of respondToOffer that are creating sinks
  recv,      \* the receivers map
  completed, \* completedFileIds
  giveUp,    \* giveUpTimer: off (null), armed, or spent (fired or cleared, not null)
  rCancelled,
  rGone      \* destroy() was called

rTransfer == <<rFile, recv, completed>>
rAccept == <<dialog, accepting, rKey>>
rConnection == <<rPeer, giveUp, rCancelled, rGone>>
receiverVars == <<rState, rTransfer, rAccept, rConnection>>

ReceiverInit ==
  /\ rState = "CONNECTING" /\ rFile = [f \in Files |-> "ABSENT"]
  /\ rPeer = 0 /\ rKey = "none" /\ dialog = {} /\ accepting = <<>>
  /\ recv = [f \in Files |-> None] /\ completed = {}
  /\ giveUp = "off" /\ rCancelled = FALSE /\ rGone = FALSE

Accepted(f) == recv[f] # None

\* setFileStatus: nothing for a file without an entry
SetStatus(f, status) ==
  rFile' = IF rFile[f] = "ABSENT" THEN rFile ELSE [rFile EXCEPT ![f] = status]

Say(msgs) == ctlToSender' = Post(ctlToSender, rPeer, msgs)

-----------------------------------------------------------------------------
(* Signaling                                                               *)

\* OFFER: a new peer answers; the earlier one is not closed.  The relay refuses
\* an answer to a session that is gone (handleSdpRelay, NOT_IN_SESSION).
TakeOffer ==
  /\ ~rGone /\ toReceiver # <<>> /\ Head(toReceiver).t = "OFFER"
  /\ rPeer' = Head(toReceiver).n
  /\ IF session
     THEN /\ toReceiver' = Tail(toReceiver)
          /\ toSender' = Append(toSender, [t |-> "ANSWER", n |-> Head(toReceiver).n])
     ELSE /\ toReceiver' = Append(Tail(toReceiver), [t |-> "ERROR"])
          /\ UNCHANGED toSender
  /\ UNCHANGED <<rState, rTransfer, rAccept, giveUp, rCancelled, rGone,
                 session, linked, channelVars>>

\* PEER_LEFT and SESSION_EXPIRED only write the state.
TakeNoticeR ==
  /\ ~rGone /\ toReceiver # <<>>
  /\ \/ Head(toReceiver).t = "PEER_LEFT" /\ rState' = "INTERRUPTED"
     \/ Head(toReceiver).t = "SESSION_EXPIRED" /\ rState' = "EXPIRED"
  /\ toReceiver' = Tail(toReceiver)
  /\ UNCHANGED <<rTransfer, rAccept, rConnection, session, linked, toSender, channelVars>>

\* destroy(): the timer is cleared, this.peer is closed and the socket with it.
\* The page goes back to its form and shows no dialog.
Destroy(last) ==
  /\ rGone' = TRUE
  /\ dialog' = {}
  /\ giveUp' = IF giveUp = "armed" THEN "spent" ELSE giveUp
  /\ CutLink(last, <<>>)
  /\ ReceiverSocketGone

\* ERROR and RATE_LIMITED set an error message, on which ReceiveScanPage destroys
\* the session and goes back to its form.
TakeRefusal ==
  /\ ~rGone /\ toReceiver # <<>> /\ Head(toReceiver).t \in {"ERROR", "RATE_LIMITED"}
  /\ Destroy(<<>>)
  /\ UNCHANGED <<rState, rTransfer, accepting, rKey, rPeer, rCancelled>>
-----------------------------------------------------------------------------
(* Control channel                                                         *)

Hear(type) ==
  /\ ctlToReceiver # <<>> /\ Head(ctlToReceiver).t = type
  /\ ctlToReceiver' = Tail(ctlToReceiver)

\* SESSION_INIT: the key is imported asynchronously.
HandleSessionInit ==
  /\ Hear("SESSION_INIT")
  /\ rKey' = IF rKey = "set" THEN "set" ELSE "importing"
  /\ UNCHANGED <<rState, rTransfer, dialog, accepting, rConnection, signalVars,
                 up, opened, ctlToSender, frames, kept, ended>>

KeyImported ==
  /\ rKey = "importing"
  /\ rKey' = "set"
  /\ UNCHANGED <<rState, rTransfer, dialog, accepting, rConnection, linkVars>>

\* sendAccept: resumeFrom has the offered files that have a receiver; the
\* sender reads a missing one as 0.  `known` is history, for NoGap.
SendAccept(files, receivers) ==
  /\ rState' = "TRANSFERRING"
  /\ Say(<<[t |-> "FILE_ACCEPT",
            known |-> {f \in Files : receivers[f] # None},
            resume |-> [f \in Files |->
              IF f \in files /\ receivers[f] # None
              THEN ResumeFromChunk(receivers[f]) ELSE 0]]>>)

\* FILE_OFFER: files that all have receivers are accepted at once; otherwise the
\* store's file map becomes the offered files and the user is asked.
HandleFileOffer ==
  /\ Hear("FILE_OFFER")
  /\ LET files == Head(ctlToReceiver).files IN
     IF \A f \in files : Accepted(f)
     THEN /\ SendAccept(files, recv)
          /\ UNCHANGED <<rFile, dialog>>
     ELSE /\ rFile' = [f \in Files |-> IF f \in files THEN "QUEUED" ELSE "ABSENT"]
          /\ dialog' = files
          /\ UNCHANGED <<rState, ctlToSender>>
  /\ UNCHANGED <<recv, completed, accepting, rKey, rConnection, signalVars,
                 up, opened, frames, kept, ended>>

HandleCancelR ==
  /\ Hear("CANCEL")
  /\ rState' = "CANCELLED"
  /\ UNCHANGED <<rTransfer, rAccept, rConnection, signalVars,
                 up, opened, ctlToSender, frames, kept, ended>>
-----------------------------------------------------------------------------
(* The user                                                                *)

Reject ==
  /\ dialog # {}
  /\ dialog' = {}
  /\ Say(<<[t |-> "FILE_REJECT"]>>)
  /\ rState' = "CANCELLED"
  /\ UNCHANGED <<rTransfer, accepting, rKey, rConnection, signalVars,
                 up, opened, ctlToReceiver, frames, kept, ended>>

\* Files that an earlier answer covers.
Answered ==
  {f \in Files : Accepted(f) \/ \E i \in DOMAIN accepting : f \in accepting[i].files}

\* respondToOffer goes on to the directory picker.
Accept ==
  /\ dialog # {} /\ (OneAnswer => dialog \cap Answered = {})
  /\ dialog' = {}
  /\ accepting' = Append(accepting, [files |-> dialog, todo |-> dialog])
  /\ UNCHANGED <<rState, rTransfer, rKey, rConnection, linkVars>>

\* A sink is there: its receiver replaces the file's earlier one, and takes the
\* key as it is now.  The last one sends the accept.
SinkCreated(i) ==
  LET a == accepting[i]
      f == Min(a.todo)
      more == a.todo \ {f}
      receivers == [recv EXCEPT ![f] = NewReceiver(rKey = "set")]
  IN
  /\ recv' = receivers
  /\ IF more = {}
     THEN /\ accepting' = RemoveAt(accepting, i)
          /\ SendAccept(a.files, receivers)
     ELSE /\ accepting' = [accepting EXCEPT ![i].todo = more]
          /\ UNCHANGED <<rState, ctlToSender>>
  /\ UNCHANGED <<rFile, completed, dialog, rKey, rConnection, signalVars,
                 up, opened, ctlToReceiver, frames, kept, ended>>

\* cancel() from the dashboard: the CANCEL may or may not leave before the close.
CancelR ==
  /\ ~rGone /\ rState \notin {"COMPLETED", "CANCELLED", "FAILED", "EXPIRED"}
  /\ rState = "INTERRUPTED" \/ \E f \in Files : rFile[f] # "ABSENT"
  /\ rCancelled' = TRUE
  /\ rState' = "CANCELLED"
  /\ Destroy(Post(ctlToSender, rPeer, <<[t |-> "CANCEL"]>>))
  /\ UNCHANGED <<rTransfer, accepting, rKey, rPeer>>
\* The page is left: destroy() without a CANCEL, whatever it was doing.
LeaveR ==
  /\ ~rGone
  /\ Destroy(<<>>)
  /\ UNCHANGED <<rState, rTransfer, accepting, rKey, rPeer, rCancelled>>
-----------------------------------------------------------------------------
(* The file channel queue                                                  *)

TakeFrame(type) ==
  /\ frames # <<>> /\ Head(frames).t = type
  /\ frames' = Tail(frames)
  /\ kept' = IF kept = 0 THEN 0 ELSE kept - 1
  /\ UNCHANGED <<signalVars, up, opened, ctlToSender, ctlToReceiver, ended>>

\* CHUNK_META with its binary frame: decrypted, written, hashed.
TakeChunk ==
  /\ TakeFrame("CHUNK")
  /\ LET m == Head(frames) IN
     IF ~Accepted(m.f) THEN UNCHANGED <<recv, rFile>>
     ELSE /\ recv' = [recv EXCEPT ![m.f] = HandleChunk(@, m.c)]
          /\ IF recv' = recv THEN UNCHANGED rFile ELSE SetStatus(m.f, "TRANSFERRING")
  /\ UNCHANGED <<rState, completed, rAccept, rConnection>>

\* The write is rejected: the queue logs it and goes on with the next frame.
WriteFails ==
  /\ TakeFrame("CHUNK")
  /\ Accepted(Head(frames).f)
  /\ UNCHANGED receiverVars

\* FILE_COMPLETE: the first one for a file closes its digest and compares.
TakeFileComplete ==
  /\ TakeFrame("FILE_COMPLETE")
  /\ LET f == Head(frames).f IN
     IF ~Accepted(f) \/ f \in completed THEN UNCHANGED rTransfer
     ELSE /\ completed' = completed \cup {f}
          /\ recv' = [recv EXCEPT ![f] = DigestHex(@)]
          /\ SetStatus(f, IF WholeFile(recv[f], NumChunks, Encrypted)
                          THEN "COMPLETED" ELSE "FAILED")
  /\ UNCHANGED <<rState, rAccept, rConnection>>

\* finalize() of the sink is rejected after the digest was compared.
FinalizeFails ==
  /\ TakeFrame("FILE_COMPLETE")
  /\ LET f == Head(frames).f IN
     /\ Accepted(f) /\ f \notin completed
     /\ completed' = completed \cup {f}
     /\ recv' = [recv EXCEPT ![f] = DigestHex(@)]
     /\ SetStatus(f, "VERIFYING")
  /\ UNCHANGED <<rState, rAccept, rConnection>>

TakeTransferComplete ==
  /\ TakeFrame("TRANSFER_COMPLETE")
  /\ rState' = "COMPLETED"
  /\ UNCHANGED <<rTransfer, rAccept, rConnection>>
-----------------------------------------------------------------------------
(* Loss of the connection                                                  *)

\* disconnected or failed
LoseConnectionR ==
  /\ ~rCancelled
  /\ rState' = "INTERRUPTED"
  /\ giveUp' = IF giveUp = "off" THEN "armed" ELSE giveUp
  /\ UNCHANGED <<rTransfer, rAccept, rPeer, rCancelled, rGone>>

\* The end of connection n is seen, perhaps after a later one is open; destroy()
\* takes the handlers off this.peer only.
LossNoticedR(n) ==
  /\ n \in ended /\ ~(rGone /\ n = rPeer)
  /\ ended' = ended \ {n}
  /\ LoseConnectionR
  /\ UNCHANGED <<signalVars, up, opened, ctlToSender, ctlToReceiver, frames, kept>>

\* connected, and the channels with it
ReadyR ==
  /\ giveUp' = "off"
  /\ UNCHANGED <<rState, rTransfer, rAccept, rPeer, rCancelled, rGone>>

\* The timer sets an error message, on which the page destroys the session.
GiveUp ==
  /\ giveUp = "armed"
  /\ rState' = "FAILED"
  /\ IF rGone THEN giveUp' = "spent" /\ UNCHANGED <<rGone, dialog, linkVars>>
     ELSE Destroy(<<>>)
  /\ UNCHANGED <<rTransfer, accepting, rKey, rPeer, rCancelled>>
=============================================================================
