----------------------------- MODULE Flow_proofs -----------------------------
(***************************************************************************)
(* From the offer to the disk, for every number of files, chunks and       *)
(* pauses.                                                                 *)
(*                                                                         *)
(* The first part holds over any number of connections: a file that is     *)
(* called verified is saved whole but for what Clear Temporary Data took,  *)
(* and a concluded file leaves nothing in the database. The digest and the *)
(* sink see the same chunks until a file is concluded (SinkFollows), so    *)
(* the verdict on the one is right about the other; and a receiver that    *)
(* was digested hands no chunk on to its sink.                             *)
(*                                                                         *)
(* The rest is about a transfer over one connection (MaxConns = 1), where  *)
(* what reconnecting brings is not yet there. One offer, one answer, one   *)
(* FILE_ACCEPT and one accept loop follow each other (Turn), so that the   *)
(* file channel carries each file's chunks once and in order (Orderly)     *)
(* and, while nothing is lost, all of them (NoneMissing). From that:       *)
(* chunks are hashed in order, what the sender shows as complete was       *)
(* verified, and its page follows the table of transfer states.            *)
(***************************************************************************)
EXTENDS Storage, Delivery_proofs

-----------------------------------------------------------------------------
(* What the user has on disk                                               *)

\* The connection does not see the storage: every behaviour is one of Transfer, and what
\* is proved of Transfer holds here.
LEMMA StoredIsTransfer == StoredSpec => Spec
<1>1. StoredInit => Init
  BY DEF StoredInit
<1>2. [StoredNext]_allVars => [Next]_vars
  BY DEF StoredNext, TransferStep, ClearTemporaryData, allVars
<1> QED  BY <1>1, <1>2, PTL DEF StoredSpec, Spec

\* The three sets of chunks of each file.
SinkTypes ==
  /\ written \in [Files -> SUBSET Chunks] /\ saved \in [Files -> SUBSET Chunks]
  /\ swept \in [Files -> SUBSET Chunks]

\* What the receiver of a file that is not concluded has hashed, its sink holds or has lost
\* to Clear Temporary Data; what was verified is saved likewise.
SinkFollows ==
  /\ \A f \in Files \ completed : Held(recv[f]) \subseteq written[f] \cup swept[f]
  /\ VerifiedIsSaved

\* What a receiver has hashed are chunks of its file.
LEMMA HeldChunks ==
  ASSUME NEW r \in Receivers
  PROVE  Held(r) \subseteq Chunks
<1>1. CASE r = None
  BY <1>1, SomeReceiver
<1>2. CASE r # None
  <2>1. r.hashed \in Seq(Chunks)
    BY <1>2, SomeReceiver DEF Hashing
  <2> QED  BY <2>1, ElementOfSeq, LenProperties DEF Held, ToSet
<1> QED  BY <1>1, <1>2

\* The steps that touch the verdict on a file.
LEMMA VerdictFootprint ==
  ASSUME [Next]_vars
  PROVE  \/ UNCHANGED <<rFile, completed>>
         \/ HandleFileOffer \/ TakeChunk
         \/ TakeFileComplete /\ UNCHANGED left
         \/ FinalizeFails
<1>1. ASSUME UNCHANGED receiverVars PROVE UNCHANGED <<rFile, completed>>
  BY <1>1 DEF receiverVars, rTransfer
<1>2. CASE Continuation \/ SenderReads \/ SenderHandlers
  BY <1>1, <1>2 DEF Continuation, SenderReads, SenderHandlers, SenderStep
<1>3. CASE ReceiverHandlers
  <2>1. CASE ReceiverStep(TakeOffer) \/ ReceiverStep(TakeNoticeR) \/ ReceiverStep(TakeRefusal)
    BY <2>1 DEF ReceiverStep, TakeOffer, TakeNoticeR, TakeRefusal, rTransfer
  <2>2. CASE ReceiverStep(HandleSessionInit) \/ ReceiverStep(KeyImported)
             \/ ReceiverStep(HandleFileOffer) \/ ReceiverStep(HandleCancelR)
    BY <2>2 DEF ReceiverStep, HandleSessionInit, KeyImported, HandleCancelR, rTransfer
  <2>3. CASE ReceiverStep(GiveUp) \/ \E n \in ended : ReceiverStep(LossNoticedR(n))
    BY <2>3 DEF ReceiverStep, GiveUp, LossNoticedR, LoseConnectionR, rTransfer
  <2>4. CASE \E i \in DOMAIN accepting : ReceiverStep(SinkCreated(i))
    BY <2>4 DEF ReceiverStep, SinkCreated
  <2> QED  BY <1>3, <2>1, <2>2, <2>3, <2>4 DEF ReceiverHandlers
<1>4. CASE ReceiverUser \/ ReceiverFrames
  BY <1>4 DEF ReceiverUser, ReceiverFrames, ReceiverStep, Accept, Reject, TakeTransferComplete,
              rTransfer, worldVars
<1>5. CASE World
  <2>1. CASE ConnectionOpens \/ ConnectionBreaks \/ NegotiationStalls \/ SenderBlip
             \/ ReceiverBlip \/ ReceiverRecovers
    BY <1>1, <2>1 DEF ConnectionOpens, ConnectionBreaks, NegotiationStalls, SenderBlip,
       ReceiverBlip, ReceiverRecovers, ReadyR, LoseConnectionR, rTransfer
  <2>2. CASE SenderSocketDrops \/ SenderSocketReopens \/ ReceiverSocketDrops \/ SessionExpires
             \/ RateLimits \/ Pauses
    BY <1>1, <2>2 DEF SenderSocketDrops, SenderSocketReopens, ReceiverSocketDrops,
       SessionExpires, RateLimits, Pauses
  <2>3. CASE Faults \/ Cancels \/ Leaves
    BY <1>1, <2>3 DEF Faults, WriteFails, Cancels, CancelR, Leaves, LeaveR, rTransfer
  <2> QED  BY <1>5, <2>1, <2>2, <2>3 DEF World
<1>6. CASE UNCHANGED vars
  BY <1>1, <1>6 DEF vars
<1> QED  BY <1>2, <1>3, <1>4, <1>5, <1>6 DEF Next

\* A file is called verified by the step that concludes it, over all of its chunks, and
\* stays so only while it is not concluded again.
LEMMA VerdictStep ==
  ASSUME Types, [Next]_vars, NEW f \in Files, rFile'[f] = "COMPLETED"
  PROVE  \/ rFile[f] = "COMPLETED" /\ (f \in completed' => f \in completed)
         \/ UNCHANGED left /\ f \in completed' \ completed /\ Held(recv[f]) = Chunks
<1>1. rFile \in [Files -> {"ABSENT", "QUEUED", "TRANSFERRING", "VERIFYING", "COMPLETED",
                           "FAILED"}]
  BY DEF Types, ReceiverTypes
<1> DEFINE m == Head(frames)
<1>2. CASE UNCHANGED <<rFile, completed>>
  BY <1>2
<1>3. CASE HandleFileOffer
  BY <1>1, <1>3 DEF HandleFileOffer
<1>4. CASE TakeChunk
  BY <1>1, <1>4 DEF TakeChunk, SetStatus
<1>5. CASE TakeFileComplete /\ UNCHANGED left
  <2>1. CASE UNCHANGED rTransfer
    BY <2>1 DEF rTransfer
  <2>2. CASE ~UNCHANGED rTransfer
    <3>1. /\ m.f \notin completed /\ completed' = completed \cup {m.f}
          /\ SetStatus(m.f, IF WholeFile(recv[m.f], NumChunks, Encrypted)
                            THEN "COMPLETED" ELSE "FAILED")
      BY <1>5, <2>2 DEF TakeFileComplete
    <3>2. CASE f # m.f
      BY <1>1, <3>1, <3>2 DEF SetStatus
    <3>3. CASE f = m.f
      <4>1. WholeFile(recv[f], NumChunks, Encrypted)
        BY <1>1, <3>1, <3>3 DEF SetStatus
      <4>2. Held(recv[f]) = Chunks
        BY <4>1, WholeIsAll DEF WholeFile, Held
      <4> QED  BY <1>5, <3>1, <3>3, <4>2
    <3> QED  BY <3>2, <3>3
  <2> QED  BY <2>1, <2>2
<1>6. CASE FinalizeFails
  BY <1>1, <1>6 DEF FinalizeFails, SetStatus
<1> QED  BY <1>2, <1>3, <1>4, <1>5, <1>6, VerdictFootprint

\* Every step, of the transfer or of Clear Temporary Data, leaves the sinks well typed.
LEMMA SinkTypesStep ==
  ASSUME Types, SinkTypes, [StoredNext]_allVars
  PROVE  SinkTypes'
<1>1. CASE TransferStep
  <2>1. Types'
    BY <1>1, TypesStep DEF TransferStep
  <2>2. \A f \in Files : Held(recv'[f]) \subseteq Chunks
    BY <2>1, HeldChunks DEF Types, ReceiverTypes
  <2>3. /\ written' = [f \in Files |->
             IF f \in Finalized THEN {}
             ELSE written[f] \cup (Held(recv'[f]) \ Held(recv[f]))]
        /\ saved' = [f \in Files |-> IF f \in Finalized THEN Content(f) ELSE saved[f]]
        /\ swept' = swept
    BY <1>1 DEF TransferStep, Store
  <2> QED  BY <2>2, <2>3 DEF SinkTypes, Content
<1>2. CASE ClearTemporaryData
  BY <1>2 DEF ClearTemporaryData, SinkTypes
<1>3. CASE UNCHANGED allVars
  BY <1>3 DEF allVars, storageVars, SinkTypes
<1> QED  BY <1>1, <1>2, <1>3 DEF StoredNext

\* No step lets a sink fall behind its digest.
LEMMA SinkFollowsStep ==
  ASSUME Types, SinkTypes, SinkFollows, [StoredNext]_allVars
  PROVE  SinkFollows'
<1>0. AllChunks = Chunks
  BY DEF AllChunks, Chunks
<1>1. CASE TransferStep
  <2>1. [Next]_vars
    BY <1>1 DEF TransferStep
  <2>2. /\ written' = [f \in Files |->
             IF f \in Finalized THEN {}
             ELSE written[f] \cup (Held(recv'[f]) \ Held(recv[f]))]
        /\ saved' = [f \in Files |-> IF f \in Finalized THEN Content(f) ELSE saved[f]]
        /\ swept' = swept
    BY <1>1 DEF TransferStep, Store
  <2>3. Finalized \subseteq completed' \ completed
        /\ (UNCHANGED left => Finalized = completed' \ completed)
    BY DEF Finalized
  <2>4. completed \subseteq completed'
    <3>1. HandleFileOffer \/ TakeChunk => UNCHANGED completed
      BY DEF HandleFileOffer, TakeChunk
    <3>2. TakeFileComplete \/ FinalizeFails => completed \subseteq completed'
      BY DEF TakeFileComplete, FinalizeFails, rTransfer
    <3> QED  BY <2>1, <3>1, <3>2, VerdictFootprint
  <2>5. ASSUME NEW f \in Files \ completed'
        PROVE  Held(recv'[f]) \subseteq written'[f] \cup swept'[f]
    <3>1. Held(recv[f]) \subseteq written[f] \cup swept[f]
      BY <2>4 DEF SinkFollows
    <3>2. written'[f] = written[f] \cup (Held(recv'[f]) \ Held(recv[f])) /\ swept'[f] = swept[f]
      BY <2>2, <2>3
    <3> QED  BY <3>1, <3>2
  <2>6. ASSUME NEW f \in Files, rFile'[f] = "COMPLETED"
        PROVE  saved'[f] \cup swept'[f] = AllChunks
    <3>1. CASE rFile[f] = "COMPLETED" /\ (f \in completed' => f \in completed)
      <4>1. saved'[f] = saved[f] /\ swept'[f] = swept[f]
        BY <2>2, <2>3, <3>1
      <4> QED  BY <3>1, <4>1 DEF SinkFollows, VerifiedIsSaved
    <3>2. CASE UNCHANGED left /\ f \in completed' \ completed /\ Held(recv[f]) = Chunks
      <4>1. saved'[f] = written[f] /\ swept'[f] = swept[f]
        BY <2>2, <2>3, <3>2 DEF Content
      <4>2. Chunks \subseteq written[f] \cup swept[f]
        BY <3>2 DEF SinkFollows
      <4>3. written[f] \subseteq Chunks /\ swept[f] \subseteq Chunks
        BY DEF SinkTypes
      <4> QED  BY <1>0, <4>1, <4>2, <4>3
    <3> QED  BY <2>1, <2>6, <3>1, <3>2, VerdictStep
  <2> QED  BY <2>5, <2>6 DEF SinkFollows, VerifiedIsSaved
<1>2. CASE ClearTemporaryData
  <2>1. /\ UNCHANGED <<rFile, recv, completed, saved>>
        /\ \A f \in Files : written[f] \cup swept[f] \subseteq written'[f] \cup swept'[f]
                            /\ swept[f] \subseteq swept'[f] /\ swept'[f] \subseteq Chunks
    BY <1>2 DEF ClearTemporaryData, SinkTypes, vars, receiverVars, rTransfer
  <2>2. \A f \in Files : saved[f] \subseteq Chunks
    BY DEF SinkTypes
  <2>3. \A f \in Files \ completed' : Held(recv'[f]) \subseteq written'[f] \cup swept'[f]
    BY <2>1 DEF SinkFollows
  <2>4. VerifiedIsSaved'
    BY <1>0, <2>1, <2>2 DEF SinkFollows, VerifiedIsSaved
  <2> QED  BY <2>3, <2>4 DEF SinkFollows
<1>3. CASE UNCHANGED allVars
  BY <1>3 DEF allVars, storageVars, vars, receiverVars, rTransfer, SinkFollows, VerifiedIsSaved
<1> QED  BY <1>1, <1>2, <1>3 DEF StoredNext

\* A concluded file has left its sink, and its receiver puts nothing more there.
LEMMA NothingLeftStep ==
  ASSUME OneAnswerEach, NothingLeft, [StoredNext]_allVars
  PROVE  NothingLeft'
<1>1. CASE TransferStep
  <2>1. [Next]_vars /\ Types /\ Answering
    BY <1>1 DEF TransferStep, OneAnswerEach
  <2>2. /\ written' = [f \in Files |->
             IF f \in Finalized THEN {}
             ELSE written[f] \cup (Held(recv'[f]) \ Held(recv[f]))]
        /\ rejected' = rejected \cup ((completed' \ completed) \ Finalized)
    BY <1>1 DEF TransferStep, Store
  <2>3. completed' \subseteq Files
    BY <2>1, TypesStep DEF Types, ReceiverTypes
  <2>4. ASSUME NEW f \in completed' \ rejected'
        PROVE  written'[f] = {}
    <3>1. CASE f \in Finalized
      BY <2>2, <2>3, <3>1
    <3>2. CASE f \notin Finalized
      <4>1. f \in completed \ rejected
        BY <2>2, <3>2
      <4>2. recv[f].digested /\ f \in Files
        BY <2>1, <2>3, <4>1 DEF Answering
      <4>3. Accepted(f)
        BY <4>2 DEF Accepted, None
      <4>4. recv'[f] = recv[f]
        BY <2>1, <4>2, <4>3, ReceiversGrow
      <4>5. written'[f] = written[f] \cup (Held(recv[f]) \ Held(recv[f]))
        BY <2>2, <3>2, <4>2, <4>4
      <4>6. written[f] = {}
        BY <4>1 DEF NothingLeft
      <4> QED  BY <4>5, <4>6
    <3> QED  BY <3>1, <3>2
  <2> QED  BY <2>4 DEF NothingLeft
<1>2. CASE ClearTemporaryData
  <2>1. UNCHANGED <<completed, rejected>>
    BY <1>2 DEF ClearTemporaryData, vars, receiverVars, rTransfer
  <2>2. \A f \in Files : written'[f] = {} \/ written'[f] = written[f]
    BY <1>2 DEF ClearTemporaryData
  <2>3. completed \subseteq Files
    BY DEF OneAnswerEach, Types, ReceiverTypes
  <2> QED  BY <2>1, <2>2, <2>3 DEF NothingLeft
<1>3. CASE UNCHANGED allVars
  BY <1>3 DEF allVars, storageVars, vars, receiverVars, rTransfer, NothingLeft
<1> QED  BY <1>1, <1>2, <1>3 DEF StoredNext

\* Nothing is stored at the start.
LEMMA SinkInit == StoredInit => SinkTypes /\ SinkFollows /\ NothingLeft
<1> SUFFICES ASSUME StoredInit PROVE SinkTypes /\ SinkFollows /\ NothingLeft
  OBVIOUS
<1>1. /\ recv = [f \in Files |-> None] /\ rFile = [f \in Files |-> "ABSENT"] /\ completed = {}
      /\ written = [f \in Files |-> {}] /\ saved = [f \in Files |-> {}]
      /\ swept = [f \in Files |-> {}]
  BY DEF StoredInit, Init, ReceiverInit
<1>2. Held(None) = {}
  BY SomeReceiver DEF Receivers
<1>3. \A f \in Files \ completed : Held(recv[f]) \subseteq written[f] \cup swept[f]
  BY <1>1, <1>2
<1> QED  BY <1>1, <1>3 DEF SinkTypes, SinkFollows, VerifiedIsSaved, NothingLeft
-----------------------------------------------------------------------------
\* A file that the page calls verified is in the user's hands, whichever sink it went
\* through, but for the chunks that Clear Temporary Data took in the meantime: the digest
\* is taken of what arrives, and what arrives goes to the sink.
THEOREM VerifiedFilesAreSaved == ASSUME OneAnswer PROVE StoredSpec => []VerifiedIsSaved
<1>1. Types /\ SinkTypes /\ SinkFollows /\ [StoredNext]_allVars =>
        SinkTypes' /\ SinkFollows'
  BY SinkTypesStep, SinkFollowsStep
<1>2. OneAnswerEach => Types
  BY DEF OneAnswerEach
<1>3. SinkFollows => VerifiedIsSaved
  BY DEF SinkFollows
<1>4. Spec => []OneAnswerEach
  BY OneAnswer, OneAnswerEachHolds
<1> QED  BY <1>1, <1>2, <1>3, <1>4, StoredIsTransfer, SinkInit, PTL DEF StoredSpec

\* Nothing of a concluded file stays in the database or goes there again, whatever frames,
\* losses and offers come after it, unless its finalize() was rejected.
THEOREM ConcludedLeavesNothing == ASSUME OneAnswer PROVE StoredSpec => []NothingLeft
<1>1. OneAnswerEach /\ NothingLeft /\ [StoredNext]_allVars => NothingLeft'
  BY NothingLeftStep
<1>2. Spec => []OneAnswerEach
  BY OneAnswer, OneAnswerEachHolds
<1> QED  BY <1>1, <1>2, StoredIsTransfer, SinkInit, PTL DEF StoredSpec

-----------------------------------------------------------------------------
(* The order of a transfer over one connection                             *)

\* Messages are only taken from a queue, lost with it, or followed by a last word.
Fewer(q, next, last) ==
  \/ next \in {q, <<>>}
  \/ q # <<>> /\ next = Tail(q)
  \/ \E type \in last : next = q \o <<[t |-> type]>>

\* There is one message of a type at most.
Single(q, type) == \A i, j \in DOMAIN q : q[i].t = type /\ q[j].t = type => i = j

\* A queue that lost messages, or got a last word of another type, holds no new message of a
\* type, and still one at most if it held one.
LEMMA FewerKeeps ==
  ASSUME NEW S, NEW q \in Seq(S), NEW next, NEW last, Fewer(q, next, last),
         NEW type, type \notin last
  PROVE  /\ \A i \in DOMAIN next : next[i].t = type => \E j \in DOMAIN q : q[j] = next[i]
         /\ Single(q, type) => Single(next, type)
<1>1. Len(q) \in Nat /\ DOMAIN q = 1..Len(q)
  BY LenProperties
<1>2. CASE next = q
  BY <1>2 DEF Single
<1>3. CASE next = <<>>
  <2>1. DOMAIN next = {}
    BY <1>3
  <2> QED  BY <2>1 DEF Single
<1>4. CASE q # <<>> /\ next = Tail(q)
  <2>1. /\ DOMAIN next = 1..(Len(q) - 1) /\ Len(q) > 0
        /\ \A i \in DOMAIN next : next[i] = q[i + 1]
    BY <1>1, <1>4, HeadTailProperties, LenProperties, EmptySeq
  <2>2. \A i \in DOMAIN next : i + 1 \in DOMAIN q
    BY <1>1, <2>1
  <2>3. \A i \in DOMAIN next : next[i].t = type => \E j \in DOMAIN q : q[j] = next[i]
    BY <2>1, <2>2
  <2>4. ASSUME Single(q, type), NEW i \in DOMAIN next, NEW j \in DOMAIN next,
               next[i].t = type, next[j].t = type
        PROVE  i = j
    <3>1. i + 1 = j + 1
      BY <2>1, <2>2, <2>4 DEF Single
    <3> QED  BY <1>1, <2>1, <3>1
  <2> QED  BY <2>3, <2>4 DEF Single
<1>5. ASSUME NEW word \in last, next = q \o <<[t |-> word]>>
      PROVE  \A i \in DOMAIN next : next[i].t = type => i \in DOMAIN q /\ q[i] = next[i]
  <2> DEFINE m == [t |-> word]
  <2>1. q \in Seq(S \cup {m}) /\ <<m>> \in Seq(S \cup {m}) /\ Len(<<m>>) = 1 /\ <<m>>[1] = m
    OBVIOUS
  <2>2. m.t # type
    BY <1>5
  <2> HIDE DEF m
  <2>3. /\ DOMAIN next = 1..(Len(q) + 1) /\ next[Len(q) + 1] = m
        /\ \A i \in 1..Len(q) : next[i] = q[i]
    BY <1>1, <1>5, <2>1, ConcatProperties, LenProperties DEF m
  <2> QED  BY <1>1, <2>2, <2>3
<1>6. CASE \E word \in last : next = q \o <<[t |-> word]>>
  BY <1>5, <1>6 DEF Single
<1> QED  BY <1>2, <1>3, <1>4, <1>6 DEF Fewer

\* The steps that take the transfer from the offer to the loop, and what all other steps
\* leave of it.
Quieter ==
  /\ opened' = opened /\ dialog' \in {dialog, {}} /\ accepting' = accepting
  /\ Fewer(ctlToReceiver, ctlToReceiver', {"CANCEL"})
  /\ Fewer(ctlToSender, ctlToSender', {"CANCEL", "FILE_REJECT"})
  /\ reconnecting' = reconnecting \/ (retries > 0 /\ sPeer < MaxConns)

\* Every step is one of them or quieter.
LEMMA TurnFootprint ==
  ASSUME [Next]_vars
  PROVE  \/ ConnectionOpens \/ ReceiverStep(HandleFileOffer) \/ ReceiverStep(Accept)
         \/ (\E i \in DOMAIN accepting : ReceiverStep(SinkCreated(i)))
         \/ SenderStep(HandleAccept) \/ Quieter
<1> DEFINE SameSide == UNCHANGED <<dialog, accepting>>
           SameLine == UNCHANGED <<opened, ctlToReceiver, ctlToSender>>
           Goal == \/ ConnectionOpens \/ ReceiverStep(HandleFileOffer) \/ ReceiverStep(Accept)
                   \/ (\E i \in DOMAIN accepting : ReceiverStep(SinkCreated(i)))
                   \/ SenderStep(HandleAccept) \/ Quieter
<1>1. UNCHANGED receiverVars => SameSide
  BY DEF receiverVars, rAccept
<1>2. UNCHANGED senderVars => UNCHANGED reconnecting
  BY DEF senderVars, sReconnect
<1>3. UNCHANGED linkVars \/ UNCHANGED channelVars => SameLine
  BY DEF linkVars, channelVars
<1>4. SameSide /\ SameLine /\ UNCHANGED reconnecting => Quieter
  BY DEF Quieter, Fewer
<1>5. ASSUME NEW a, NEW b, CutLink(a, b)
      PROVE  opened' = opened /\ ctlToSender' \in {<<>>, a} /\ ctlToReceiver' \in {<<>>, b}
  BY <1>5 DEF CutLink
<1>6. ASSUME CutLink(<<>>, <<>>), SameSide, UNCHANGED reconnecting PROVE Quieter
  BY <1>5, <1>6 DEF Quieter, Fewer
<1>7. ASSUME CancelAll, UNCHANGED receiverVars PROVE Quieter
  <2>1. opened' = opened /\ ctlToSender' = <<>> /\ UNCHANGED reconnecting
        /\ ctlToReceiver' \in {<<>>, Post(ctlToReceiver, sPeer, <<[t |-> "CANCEL"]>>)}
    BY <1>5, <1>7 DEF CancelAll, sReconnect
  <2> QED  BY <1>1, <1>7, <2>1 DEF Quieter, Fewer, Post
<1>8. CASE Continuation
  <2>1. ASSUME NEW k \in DOMAIN loops, NextFile(k) \/ PumpContinues(k) \/ PumpReturns(k),
               UNCHANGED receiverVars PROVE Quieter
    BY <1>1, <1>3, <1>4, <2>1 DEF NextFile, PumpContinues, PumpReturns, sReconnect
  <2> QED  BY <1>8, <2>1 DEF Continuation, SenderStep
<1>9. CASE SenderReads
  <2>1. ASSUME NEW k \in DOMAIN loops,
               PrefixHashed(k) \/ ChunkRead(k) \/ BufferLow(k) \/ HistorySaved(k),
               UNCHANGED receiverVars PROVE Quieter
    BY <1>1, <1>3, <1>4, <2>1 DEF PrefixHashed, ChunkRead, BufferLow, HistorySaved, sReconnect
  <2> QED  BY <1>9, <2>1 DEF SenderReads, SenderStep
<1>10. CASE SenderHandlers
  <2>1. CASE SenderStep(BeginHandshake) \/ SenderStep(TakeAnswer) \/ SenderStep(TakeNotice)
    BY <1>1, <1>3, <1>4, <2>1 DEF SenderStep, BeginHandshake, TakeAnswer, TakeNotice, sReconnect
  <2>2. CASE SenderStep(ResumeCurrentFile) \/ SenderStep(LossNoticed)
    BY <1>1, <1>3, <1>4, <2>2 DEF SenderStep, ResumeCurrentFile, LossNoticed, LoseConnection,
       sReconnect
  <2>3. CASE SenderStep(HandleAccept)
    BY <2>3
  <2>4. CASE SenderStep(HandleReject)
    BY <1>1, <2>4 DEF SenderStep, HandleReject, TakeControl, Quieter, Fewer, sReconnect
  <2>5. CASE SenderStep(HandleCancel)
    BY <1>7, <2>5 DEF SenderStep, HandleCancel
  <2>6. CASE SenderStep(AttemptReconnect)
    BY <1>1, <1>3, <1>5, <2>6 DEF SenderStep, AttemptReconnect, Quieter, Fewer
  <2> QED  BY <1>10, <2>1, <2>2, <2>3, <2>4, <2>5, <2>6 DEF SenderHandlers
<1>11. CASE ReceiverHandlers
  <2>1. CASE ReceiverStep(TakeOffer) \/ ReceiverStep(TakeNoticeR)
    BY <1>2, <1>3, <1>4, <2>1 DEF ReceiverStep, TakeOffer, TakeNoticeR, rAccept
  <2>2. CASE ReceiverStep(KeyImported) \/ \E n \in ended : ReceiverStep(LossNoticedR(n))
    BY <1>2, <1>3, <1>4, <2>2 DEF ReceiverStep, KeyImported, LossNoticedR, LoseConnectionR,
       rAccept
  <2>3. CASE ReceiverStep(HandleSessionInit) \/ ReceiverStep(HandleCancelR)
    BY <1>2, <2>3 DEF ReceiverStep, HandleSessionInit, HandleCancelR, Hear, Quieter, Fewer,
       rAccept
  <2>4. CASE ReceiverStep(HandleFileOffer)
             \/ \E i \in DOMAIN accepting : ReceiverStep(SinkCreated(i))
    BY <2>4
  <2>5. CASE ReceiverStep(TakeRefusal) \/ ReceiverStep(GiveUp)
    <3>1. UNCHANGED <<accepting, reconnecting>>
      BY <1>2, <2>5 DEF ReceiverStep, TakeRefusal, GiveUp
    <3>2. CASE Destroy(<<>>)
      <4>1. CutLink(<<>>, <<>>) /\ dialog' = {}
        BY <3>2 DEF Destroy
      <4> QED  BY <1>5, <3>1, <4>1 DEF Quieter, Fewer
    <3>3. CASE UNCHANGED <<dialog, linkVars>>
      BY <1>3, <1>4, <3>1, <3>3
    <3> QED  BY <2>5, <3>2, <3>3 DEF ReceiverStep, TakeRefusal, GiveUp
  <2> QED  BY <1>11, <2>1, <2>2, <2>3, <2>4, <2>5 DEF ReceiverHandlers
<1>12. CASE ReceiverUser
  <2>1. CASE ReceiverStep(Reject)
    BY <1>2, <2>1 DEF ReceiverStep, Reject, Say, Post, Quieter, Fewer
  <2> QED  BY <1>12, <2>1 DEF ReceiverUser
<1>13. CASE ReceiverFrames
  <2>1. ASSUME NEW type, TakeFrame(type), UNCHANGED rAccept, UNCHANGED senderVars PROVE Quieter
    BY <1>2, <1>4, <2>1 DEF TakeFrame, rAccept
  <2> QED  BY <1>13, <2>1 DEF ReceiverFrames, ReceiverStep, TakeChunk, TakeFileComplete,
           TakeTransferComplete
<1>14. CASE World
  <2>1. CASE ConnectionOpens
    BY <2>1
  <2>2. CASE ConnectionBreaks
    BY <1>1, <1>2, <1>6, <2>2 DEF ConnectionBreaks
  <2>3. CASE NegotiationStalls \/ SenderBlip
    <3>1. SameSide
      BY <1>1, <2>3 DEF NegotiationStalls, SenderBlip, LoseConnectionR, rAccept
    <3> QED  BY <1>3, <1>4, <2>3, <3>1 DEF NegotiationStalls, SenderBlip, LoseConnection
  <2>4. CASE ReceiverBlip \/ ReceiverRecovers
    BY <1>1, <1>2, <1>3, <1>4, <2>4 DEF ReceiverBlip, ReceiverRecovers, LoseConnectionR, ReadyR,
       rAccept
  <2>5. CASE SenderSocketDrops \/ SenderSocketReopens
    BY <1>1, <1>3, <1>4, <2>5 DEF SenderSocketDrops, SenderSocketReopens, sReconnect
  <2>6. CASE ReceiverSocketDrops \/ SessionExpires \/ RateLimits
    BY <1>1, <1>2, <1>3, <1>4, <2>6 DEF ReceiverSocketDrops, SessionExpires, RateLimits
  <2>7. CASE Faults
    <3>1. CASE (\E k \in DOMAIN loops : LoopFails(k)) /\ UNCHANGED receiverVars
      BY <1>1, <1>3, <1>4, <3>1 DEF LoopFails, sReconnect
    <3>2. CASE (WriteFails \/ FinalizeFails) /\ UNCHANGED senderVars
      BY <1>1, <1>2, <1>4, <3>2 DEF WriteFails, FinalizeFails, TakeFrame, rAccept
    <3> QED  BY <2>7, <3>1, <3>2 DEF Faults
  <2>8. CASE Pauses
    BY <1>1, <1>3, <1>4, <2>8 DEF Pauses, PauseCurrentFile, sReconnect
  <2>9. CASE Cancels
    <3>1. CASE UserCancels /\ UNCHANGED receiverVars
      BY <1>7, <3>1 DEF UserCancels
    <3>2. CASE CancelR /\ UNCHANGED senderVars
      <4>1. /\ dialog' = {} /\ accepting' = accepting
            /\ CutLink(Post(ctlToSender, rPeer, <<[t |-> "CANCEL"]>>), <<>>)
        BY <3>2 DEF CancelR, Destroy
      <4> QED  BY <1>2, <1>5, <3>2, <4>1 DEF Quieter, Fewer, Post
    <3> QED  BY <2>9, <3>1, <3>2 DEF Cancels
  <2>10. CASE Leaves
    <3>1. CASE Leave /\ UNCHANGED receiverVars
      BY <1>1, <1>6, <3>1 DEF Leave, sReconnect
    <3>2. CASE LeaveR /\ UNCHANGED senderVars
      <4>1. dialog' = {} /\ accepting' = accepting /\ CutLink(<<>>, <<>>)
        BY <3>2 DEF LeaveR, Destroy
      <4> QED  BY <1>2, <1>5, <3>2, <4>1 DEF Quieter, Fewer
    <3> QED  BY <2>10, <3>1, <3>2 DEF Leaves
  <2> QED  BY <1>14, <2>1, <2>2, <2>3, <2>4, <2>5, <2>6, <2>7, <2>8, <2>9, <2>10 DEF World
<1>15. CASE UNCHANGED vars
  BY <1>1, <1>2, <1>3, <1>4, <1>15 DEF vars
<1> QED  BY <1>8, <1>9, <1>10, <1>11, <1>12, <1>13, <1>14, <1>15 DEF Next
-----------------------------------------------------------------------------
(* What a step does to the frames, the receivers and the loops             *)

\* The queue takes the first frame.
FrameTaken ==
  /\ frames # <<>> /\ frames' = Tail(frames) /\ UNCHANGED <<up, senderVars>>
  /\ \/ TakeChunk \/ TakeFileComplete \/ TakeTransferComplete
     \/ Faults /\ (WriteFails \/ FinalizeFails)

\* A run of handleAccept goes on.
LoopStep(k) ==
  /\ UNCHANGED <<up, receiverVars>>
  /\ \/ NextFile(k) \/ PumpContinues(k) \/ PumpReturns(k)
     \/ PrefixHashed(k) \/ ChunkRead(k) \/ BufferLow(k) \/ HistorySaved(k)
     \/ LoopFails(k) /\ Faults

\* Neither: frames are lost at most with the connection, receivers only made, and pumps
\* only paused, resumed or cancelled.
FramesStay ==
  \/ frames' = frames
  \/ up' = 0 /\ \E n \in 0..Len(frames) : frames' = SubSeq(frames, 1, n)

Still ==
  /\ FramesStay
  /\ RecvSame \/ \E f \in Files : Created(f)
  /\ UNCHANGED loops \/ PauseCurrentFile \/ ResumeCurrentFile \/ CancelAll \/ LoseConnection
  /\ rFile' = rFile \/ HandleFileOffer
  /\ rState' = rState \/ rState' # "COMPLETED"

\* A step takes a frame, moves one loop, starts a loop, or touches none of the two.
LEMMA FlowFootprint ==
  ASSUME Types, Answering, [Next]_vars
  PROVE  \/ FrameTaken \/ (\E k \in DOMAIN loops : LoopStep(k)) \/ SenderStep(HandleAccept) \/ Still
<1> DEFINE Goal == \/ FrameTaken \/ (\E k \in DOMAIN loops : LoopStep(k))
                   \/ SenderStep(HandleAccept) \/ Still
           SameHere == UNCHANGED <<recv, completed, rFile, rState>>
<1>1. UNCHANGED receiverVars => SameHere
  BY DEF receiverVars, rTransfer
<1>2. UNCHANGED senderVars => UNCHANGED loops
  BY DEF senderVars, sControl
<1>3. UNCHANGED linkVars \/ UNCHANGED channelVars => UNCHANGED <<frames, up>>
  BY DEF linkVars, channelVars
<1>4. kept \in 0..Len(frames)
  BY DEF Types, ChannelTypes
<1>5. ASSUME NEW a, NEW b, CutLink(a, b) PROVE FramesStay
  <2>1. up' = 0
    BY <1>5 DEF CutLink
  <2>2. \E n \in kept..Len(frames) : frames' = SubSeq(frames, 1, n)
    BY <1>5 DEF CutLink
  <2>3. frames \in Seq(FrameSet) /\ Len(frames) \in Nat
    BY QueueTypes DEF Types, ChannelTypes
  <2> QED  BY <1>4, <2>1, <2>2, <2>3 DEF FramesStay
<1>6. UNCHANGED frames => FramesStay
  BY DEF FramesStay
<1>7. SameHere /\ UNCHANGED loops /\ FramesStay => Still
  BY DEF Still, RecvSame
<1>8. SameHere /\ FramesStay
      /\ (PauseCurrentFile \/ ResumeCurrentFile \/ CancelAll \/ LoseConnection) => Still
  BY DEF Still, RecvSame
<1>9. CASE Continuation
  <2>1. ASSUME NEW k \in DOMAIN loops, NextFile(k) \/ PumpContinues(k) \/ PumpReturns(k),
               UNCHANGED receiverVars PROVE LoopStep(k)
    BY <1>3, <2>1 DEF LoopStep, NextFile, PumpContinues, PumpReturns
  <2> QED  BY <1>9, <2>1 DEF Continuation, SenderStep
<1>10. CASE SenderReads
  <2>1. ASSUME NEW k \in DOMAIN loops,
               PrefixHashed(k) \/ ChunkRead(k) \/ BufferLow(k) \/ HistorySaved(k),
               UNCHANGED receiverVars PROVE LoopStep(k)
    BY <1>3, <2>1 DEF LoopStep, PrefixHashed, ChunkRead, BufferLow, HistorySaved
  <2> QED  BY <1>10, <2>1 DEF SenderReads, SenderStep
<1>11. CASE SenderHandlers
  <2>1. CASE SenderStep(BeginHandshake) \/ SenderStep(TakeAnswer) \/ SenderStep(TakeNotice)
    BY <1>1, <1>3, <1>6, <1>7, <2>1 DEF SenderStep, BeginHandshake, TakeAnswer, TakeNotice,
       sControl
  <2>2. CASE SenderStep(ResumeCurrentFile) \/ SenderStep(LossNoticed)
    BY <1>1, <1>3, <1>6, <1>8, <2>2 DEF SenderStep, ResumeCurrentFile, LossNoticed, LoseConnection
  <2>3. CASE SenderStep(HandleAccept)
    BY <2>3
  <2>4. CASE SenderStep(HandleReject)
    BY <1>1, <1>6, <1>7, <2>4 DEF SenderStep, HandleReject
  <2>5. CASE SenderStep(HandleCancel)
    BY <1>1, <1>5, <1>8, <2>5 DEF SenderStep, HandleCancel, CancelAll
  <2>6. CASE SenderStep(AttemptReconnect)
    BY <1>1, <1>3, <1>5, <1>6, <1>7, <2>6 DEF SenderStep, AttemptReconnect, sControl
  <2> QED  BY <1>11, <2>1, <2>2, <2>3, <2>4, <2>5, <2>6 DEF SenderHandlers
<1>12. CASE ReceiverHandlers
  <2>1. CASE ReceiverStep(TakeOffer) \/ ReceiverStep(TakeNoticeR)
    BY <1>2, <1>3, <1>6, <2>1 DEF ReceiverStep, TakeOffer, TakeNoticeR, rTransfer, Still, RecvSame
  <2>2. CASE ReceiverStep(KeyImported) \/ (\E n \in ended : ReceiverStep(LossNoticedR(n)))
             \/ ReceiverStep(HandleSessionInit) \/ ReceiverStep(HandleCancelR)
    BY <1>2, <1>3, <1>6, <2>2 DEF ReceiverStep, KeyImported, LossNoticedR, LoseConnectionR,
       HandleSessionInit, HandleCancelR, rTransfer, Still, RecvSame
  <2>3. CASE ReceiverStep(HandleFileOffer)
    BY <1>2, <1>6, <2>3 DEF ReceiverStep, HandleFileOffer, SendAccept, Still, RecvSame
  <2>4. ASSUME NEW i \in DOMAIN accepting, ReceiverStep(SinkCreated(i)) PROVE Still
    <3>1. PICK f \in accepting[i].todo : Created(f)
      BY <2>4, SinkStep DEF ReceiverStep
    <3>2. f \in Files
      BY <3>1 DEF Created
    <3> QED  BY <1>2, <1>6, <2>4, <3>1, <3>2 DEF ReceiverStep, SinkCreated, SendAccept, Still
  <2>5. CASE ReceiverStep(TakeRefusal) \/ ReceiverStep(GiveUp)
    <3>1. UNCHANGED <<recv, completed, rFile, loops>> /\ (rState' = rState \/ rState' # "COMPLETED")
      BY <1>2, <2>5 DEF ReceiverStep, TakeRefusal, GiveUp, rTransfer
    <3>2. FramesStay
      BY <1>3, <1>5, <1>6, <2>5 DEF ReceiverStep, TakeRefusal, GiveUp, Destroy
    <3> QED  BY <3>1, <3>2 DEF Still, RecvSame
  <2> QED  BY <1>12, <2>1, <2>2, <2>3, <2>4, <2>5 DEF ReceiverHandlers
<1>13. CASE ReceiverUser
  BY <1>2, <1>3, <1>6, <1>13 DEF ReceiverUser, ReceiverStep, Reject, Accept, rTransfer, Still,
     RecvSame
<1>14. CASE ReceiverFrames
  BY <1>14 DEF ReceiverFrames, ReceiverStep, TakeChunk, TakeFileComplete, TakeTransferComplete,
     TakeFrame, FrameTaken
<1>15. CASE World
  <2>1. CASE ConnectionOpens
    <3>1. UNCHANGED <<recv, completed, rFile, rState, loops, frames>>
      BY <2>1 DEF ConnectionOpens, ChannelsReady, ReadyR, rTransfer
    <3> QED  BY <1>6, <1>7, <3>1
  <2>2. CASE ConnectionBreaks
    BY <1>1, <1>2, <1>5, <1>7, <2>2 DEF ConnectionBreaks
  <2>3. CASE NegotiationStalls \/ SenderBlip
    BY <1>1, <1>3, <1>6, <1>8, <2>3 DEF NegotiationStalls, SenderBlip, LoseConnection,
       LoseConnectionR, rTransfer, Still, RecvSame
  <2>4. CASE ReceiverBlip \/ ReceiverRecovers
    BY <1>1, <1>2, <1>3, <1>6, <2>4 DEF ReceiverBlip, ReceiverRecovers, LoseConnectionR, ReadyR,
       rTransfer, Still, RecvSame
  <2>5. CASE SenderSocketDrops \/ SenderSocketReopens
    BY <1>1, <1>3, <1>6, <1>7, <2>5 DEF SenderSocketDrops, SenderSocketReopens, sControl
  <2>6. CASE ReceiverSocketDrops \/ SessionExpires \/ RateLimits
    BY <1>1, <1>2, <1>3, <1>6, <1>7, <2>6 DEF ReceiverSocketDrops, SessionExpires, RateLimits
  <2>7. CASE Faults
    <3>1. ASSUME NEW k \in DOMAIN loops, LoopFails(k), UNCHANGED receiverVars PROVE LoopStep(k)
      BY <1>3, <2>7, <3>1 DEF LoopFails, LoopStep
    <3>2. CASE (WriteFails \/ FinalizeFails) /\ UNCHANGED senderVars
      BY <2>7, <3>2 DEF WriteFails, FinalizeFails, TakeFrame, FrameTaken
    <3> QED  BY <2>7, <3>1, <3>2 DEF Faults
  <2>8. CASE Pauses
    BY <1>1, <1>3, <1>6, <1>8, <2>8 DEF Pauses, PauseCurrentFile
  <2>9. CASE Cancels
    <3>1. CASE UserCancels /\ UNCHANGED receiverVars
      BY <1>1, <1>5, <1>8, <3>1 DEF UserCancels, CancelAll
    <3>2. CASE CancelR /\ UNCHANGED senderVars
      BY <1>2, <1>5, <3>2 DEF CancelR, Destroy, rTransfer, Still, RecvSame
    <3> QED  BY <2>9, <3>1, <3>2 DEF Cancels
  <2>10. CASE Leaves
    BY <1>1, <1>2, <1>5, <1>7, <2>10 DEF Leaves, Leave, LeaveR, Destroy, sControl, rTransfer
  <2> QED  BY <1>15, <2>1, <2>2, <2>3, <2>4, <2>5, <2>6, <2>7, <2>8, <2>9, <2>10 DEF World
<1>16. CASE UNCHANGED vars
  BY <1>1, <1>2, <1>3, <1>6, <1>7, <1>16 DEF vars
<1> QED  BY <1>9, <1>10, <1>11, <1>12, <1>13, <1>14, <1>15, <1>16 DEF Next

\* A message is on its way.
OfferOut == \E i \in DOMAIN ctlToReceiver : ctlToReceiver[i].t = "FILE_OFFER"
AcceptOut == \E i \in DOMAIN ctlToSender : ctlToSender[i].t = "FILE_ACCEPT"

\* The stages of the one exchange, each with all that come before it.
BeforeDialog == opened = 0 \/ OfferOut
BeforeAnswer == BeforeDialog \/ dialog # {}
BeforeAccept == BeforeAnswer \/ accepting # <<>>
BeforeLoop == BeforeAccept \/ AcceptOut

\* Over one connection there is one offer, one answer, one FILE_ACCEPT and one loop.
OnlyOnce ==
  /\ Single(ctlToReceiver, "FILE_OFFER") /\ Single(ctlToSender, "FILE_ACCEPT")
  /\ Len(accepting) <= 1 /\ Len(loops) <= 1
  /\ ~reconnecting

\* Each comes after the one before it is over.
InTurn ==
  /\ opened = 0 => ~OfferOut
  /\ BeforeDialog => dialog = {}
  /\ BeforeAnswer => accepting = <<>> /\ \A f \in Files : ~Accepted(f)
  /\ BeforeAccept => ~AcceptOut
  /\ BeforeLoop => loops = <<>>

\* Each is about all files.
WholeQueue ==
  /\ \A i \in DOMAIN ctlToReceiver :
       ctlToReceiver[i].t = "FILE_OFFER" => ctlToReceiver[i].files = Files
  /\ dialog \in {{}, Files}
  /\ \A i \in DOMAIN accepting :
       /\ accepting[i].files = Files
       /\ \A f \in Files \ accepting[i].todo : Accepted(f)
  /\ AcceptOut \/ loops # <<>> => \A f \in Files : Accepted(f)
  /\ dialog # {} \/ accepting # <<>> \/ AcceptOut \/ loops # <<>> =>
        \A f \in Files : rFile[f] # "ABSENT"

\* Nothing is sent before the loop, which starts each file at its first chunk.
FromTheStart ==
  /\ \A i \in DOMAIN ctlToSender :
       ctlToSender[i].t = "FILE_ACCEPT" => ctlToSender[i].resume = [f \in Files |-> 0]
  /\ \A k \in DOMAIN loops : loops[k].resume = [f \in Files |-> 0]
  /\ loops = <<>> => /\ frames = <<>> /\ completed = {}
                     /\ \A f \in Files : recv[f].hashed = <<>>

Turn == OnlyOnce /\ InTurn /\ WholeQueue /\ FromTheStart

\* Those that start no loop keep the loops, and with them where each began.
LEMMA LoopsKeep ==
  ASSUME Types, [Next]_vars,
         FrameTaken \/ (\E k \in DOMAIN loops : LoopStep(k)) \/ Still
  PROVE  /\ DOMAIN loops' = DOMAIN loops
         /\ \A k \in DOMAIN loops :
              loops'[k].resume \in {loops[k].resume, [f \in Files |-> 0]}
<1>1. loops \in Seq(Loops) /\ DOMAIN loops = 1..Len(loops)
  BY QueueTypes DEF Types, SenderTypes
<1>2. DOMAIN loops' = DOMAIN loops
  <2>1. CASE UNCHANGED loops
    BY <2>1
  <2>2. CASE \E k \in DOMAIN loops : LoopStep(k)
    BY <2>2 DEF LoopStep, NextFile, PumpContinues, PumpReturns, PrefixHashed, ChunkRead, BufferLow,
       HistorySaved, LoopFails, SetPump
  <2>3. CASE PauseCurrentFile \/ ResumeCurrentFile \/ CancelAll \/ LoseConnection
    BY <2>3 DEF PauseCurrentFile, ResumeCurrentFile, CancelAll, LoseConnection, OnActivePump
  <2> QED  BY <2>1, <2>2, <2>3 DEF FrameTaken, Still, senderVars, sControl
<1>3. ASSUME NEW k \in DOMAIN loops, ~HandleAccept
      PROVE loops'[k].resume \in {loops[k].resume, [f \in Files |-> 0]}
  <2>1. LoopGoesOn(k) \/ LoopEnds(k)
    BY <1>2, <1>3, LoopChanges DEF LoopChange, LoopStarts
  <2>2. ASSUME NEW place PROVE Finished(place).resume = [f \in Files |-> 0]
    BY DEF Finished, Loop
  <2> QED  BY <2>1, <2>2 DEF LoopGoesOn, LoopEnds
<1>4. ~HandleAccept
  <2>1. SUFFICES ASSUME HandleAccept PROVE FALSE
    OBVIOUS
  <2>2. loops' = Append(loops, Loop(Head(ctlToSender).resume, Head(ctlToSender).known))
    BY <2>1 DEF HandleAccept
  <2>3. DOMAIN loops' = 1..(Len(loops) + 1) /\ Len(loops) \in Nat
    <3>1. Loop(Head(ctlToSender).resume, Head(ctlToSender).known) \in Loops
      BY <2>1, HandleAcceptLoop
    <3> QED  BY <1>1, <2>2, <3>1, AppendProperties, LenProperties
  <2> QED  BY <1>1, <1>2, <2>3
<1> QED  BY <1>2, <1>3, <1>4

\* Once its offer is taken up, a file keeps an entry in the receiver's store.
LEMMA EntriesStay ==
  ASSUME Types, Answering, [Next]_vars, WholeQueue, NEW f \in Files, rFile[f] # "ABSENT"
  PROVE  rFile'[f] # "ABSENT"
<1>1. rFile \in [Files -> {"ABSENT", "QUEUED", "TRANSFERRING", "VERIFYING", "COMPLETED", "FAILED"}]
  BY DEF Types, ReceiverTypes
<1>2. ASSUME NEW g, NEW status, status # "ABSENT", SetStatus(g, status) PROVE rFile'[f] # "ABSENT"
  BY <1>1, <1>2 DEF SetStatus
<1>3. CASE UNCHANGED rFile
  BY <1>3
<1>4. CASE FrameTaken
  <2>1. CASE TakeChunk
    BY <1>2, <1>3, <2>1 DEF TakeChunk
  <2>2. CASE TakeFileComplete
    BY <1>2, <1>3, <2>2 DEF TakeFileComplete, rTransfer
  <2>3. CASE TakeTransferComplete \/ WriteFails
    BY <1>3, <2>3 DEF TakeTransferComplete, WriteFails, receiverVars, rTransfer
  <2>4. CASE FinalizeFails
    BY <1>2, <2>4 DEF FinalizeFails
  <2> QED  BY <1>4, <2>1, <2>2, <2>3, <2>4 DEF FrameTaken
<1>5. CASE HandleFileOffer
  <2>1. ctlToReceiver # <<>> /\ Head(ctlToReceiver).t = "FILE_OFFER"
    BY <1>5 DEF HandleFileOffer, Hear
  <2>2. 1 \in DOMAIN ctlToReceiver /\ Head(ctlToReceiver) = ctlToReceiver[1]
    BY <2>1, QueueTypes, HeadTailProperties DEF Types, ChannelTypes
  <2>3. Head(ctlToReceiver).files = Files
    BY <2>1, <2>2 DEF WholeQueue
  <2>4. UNCHANGED rFile \/ rFile' = [g \in Files |-> IF g \in Files THEN "QUEUED" ELSE "ABSENT"]
    BY <1>5, <2>3 DEF HandleFileOffer
  <2> QED  BY <1>3, <2>4
<1>6. CASE (\E k \in DOMAIN loops : LoopStep(k)) \/ SenderStep(HandleAccept)
  BY <1>3, <1>6 DEF LoopStep, SenderStep, receiverVars, rTransfer
<1>7. CASE Still
  BY <1>3, <1>5, <1>7 DEF Still
<1> QED  BY <1>4, <1>6, <1>7, FlowFootprint

\* Apart from HandleAccept, a step adds no loop, and nothing arrives before there is one.
LEMMA StartKept ==
  ASSUME Types, Answering, Turn, [Next]_vars, ~SenderStep(HandleAccept)
  PROVE  /\ Len(loops') <= 1 /\ (loops' = <<>> <=> loops = <<>>)
         /\ \A k \in DOMAIN loops' : loops'[k].resume = [f \in Files |-> 0]
         /\ loops' = <<>> => /\ frames' = <<>> /\ completed' = {}
                             /\ \A f \in Files : recv'[f].hashed = <<>>
<1>1. FrameTaken \/ (\E k \in DOMAIN loops : LoopStep(k)) \/ Still
  BY FlowFootprint
<1>2. /\ DOMAIN loops' = DOMAIN loops
      /\ \A k \in DOMAIN loops : loops'[k].resume \in {loops[k].resume, [f \in Files |-> 0]}
  BY <1>1, LoopsKeep
<1>3. loops \in Seq(Loops) /\ loops' \in Seq(Loops)
  BY TypesStep DEF Types, SenderTypes
<1>4. Len(loops') = Len(loops) /\ (loops' = <<>> <=> loops = <<>>)
  <2>1. /\ Len(loops) \in Nat /\ DOMAIN loops = 1..Len(loops)
        /\ Len(loops') \in Nat /\ DOMAIN loops' = 1..Len(loops')
    BY <1>3, QueueTypes
  <2>2. Len(loops') = Len(loops)
    BY <1>2, <2>1
  <2> QED  BY <1>3, <2>2, EmptySeq
<1>5. ASSUME loops = <<>>
      PROVE  /\ frames' = <<>> /\ completed' = {}
             /\ \A f \in Files : recv'[f].hashed = <<>>
  <2>1. /\ frames = <<>> /\ completed = {} /\ \A f \in Files : recv[f].hashed = <<>>
    BY <1>5 DEF Turn, FromTheStart
  <2>2. Still
    BY <1>1, <1>5, <2>1, EmptySeq DEF FrameTaken
  <2>3. frames' = <<>>
    <3>1. SubSeq(<<>>, 1, 0) = <<>> /\ Len(<<>>) = 0
      OBVIOUS
    <3>2. frames' = frames \/ \E n \in 0..Len(frames) : frames' = SubSeq(frames, 1, n)
      BY <2>2 DEF Still, FramesStay
    <3>3. \A n \in 0..0 : n = 0
      OBVIOUS
    <3> QED  BY <2>1, <3>1, <3>2, <3>3
  <2>4. completed' = {} /\ \A f \in Files : recv'[f].hashed = <<>>
    <3>1. CASE RecvSame
      BY <2>1, <3>1 DEF RecvSame
    <3>2. ASSUME NEW g \in Files, Created(g)
          PROVE  completed' = {} /\ \A f \in Files : recv'[f].hashed = <<>>
      <4>1. NewReceiver(rKey = "set").hashed = <<>>
        BY DEF NewReceiver
      <4>2. recv \in [Files -> Receivers]
        BY DEF Types, ReceiverTypes
      <4> QED  BY <2>1, <3>2, <4>1, <4>2 DEF Created
    <3> QED  BY <2>2, <3>1, <3>2 DEF Still
  <2> QED  BY <2>3, <2>4
<1> QED  BY <1>2, <1>4, <1>5 DEF Turn, OnlyOnce, FromTheStart

\* What holds of every step: what was accepted and entered stays so.
LEMMA FilesKept ==
  ASSUME Types, Answering, Turn, [Next]_vars
  PROVE  /\ \A f \in Files : Accepted(f) => Accepted(f)'
         /\ \A f \in Files : rFile[f] # "ABSENT" => rFile'[f] # "ABSENT"
BY ReceiversGrow, EntriesStay DEF Turn

\* Accepted(f)' only where it held, or a sink was created.
LEMMA AcceptedOnly ==
  ASSUME Types, Answering, [Next]_vars, NEW f \in Files, Accepted(f)', ~Accepted(f)
  PROVE  accepting # <<>>
<1>1. recv \in [Files -> Receivers] /\ recv'[f] # recv[f]
  BY DEF Accepted, Types, ReceiverTypes
<1>2. \A g \in Files : Concluded(g) => g # f
  BY DEF Concluded
<1>3. \A g \in Files, c \in Chunks : Extended(g, c) => g # f
  BY DEF Extended
<1>4. ~Accept
  BY <1>1 DEF Accept, rTransfer
<1>5. CASE \E i \in DOMAIN accepting : SinkCreated(i)
  BY <1>5, EmptySeq
<1>6. CASE TakeChunk \/ TakeFileComplete \/ FinalizeFails
  <2>1. Accepted(Head(frames).f)
    BY <1>1, <1>6 DEF TakeChunk, TakeFileComplete, FinalizeFails, rTransfer
  <2>2. recv' = [recv EXCEPT ![Head(frames).f] = recv'[Head(frames).f]]
    BY <1>1, <1>6 DEF TakeChunk, TakeFileComplete, FinalizeFails, rTransfer
  <2> QED  BY <1>1, <2>1, <2>2
<1> QED  BY <1>1, <1>4, <1>5, <1>6, ReceiverFootprint DEF RecvSame

\* The steps that only take messages away keep the turn.
LEMMA TurnQuieter ==
  ASSUME MaxConns = 1, Types, Answering, LinkOrder, Turn, [Next]_vars, Quieter,
         ~SenderStep(HandleAccept)
  PROVE  Turn'
<1>1. /\ ctlToReceiver \in Seq(ReceiverControl) /\ ctlToSender \in Seq(SenderControl)
      /\ sPeer \in Nat /\ retries \in Nat
  BY DEF Types, ChannelTypes, SenderTypes
<1>2. /\ \A i \in DOMAIN ctlToReceiver' : ctlToReceiver'[i].t = "FILE_OFFER" =>
            \E j \in DOMAIN ctlToReceiver : ctlToReceiver[j] = ctlToReceiver'[i]
      /\ Single(ctlToReceiver, "FILE_OFFER") => Single(ctlToReceiver', "FILE_OFFER")
  BY <1>1, FewerKeeps, "FILE_OFFER" \notin {"CANCEL"} DEF Quieter
<1>3. /\ \A i \in DOMAIN ctlToSender' : ctlToSender'[i].t = "FILE_ACCEPT" =>
            \E j \in DOMAIN ctlToSender : ctlToSender[j] = ctlToSender'[i]
      /\ Single(ctlToSender, "FILE_ACCEPT") => Single(ctlToSender', "FILE_ACCEPT")
  BY <1>1, FewerKeeps, "FILE_ACCEPT" \notin {"CANCEL", "FILE_REJECT"} DEF Quieter
<1>4. OfferOut' => OfferOut
  BY <1>2 DEF OfferOut
<1>5. AcceptOut' => AcceptOut
  BY <1>3 DEF AcceptOut
<1>6. opened' = opened /\ accepting' = accepting /\ dialog' \in {dialog, {}}
  BY DEF Quieter
<1>7. /\ BeforeDialog' => BeforeDialog
      /\ BeforeAnswer' => BeforeAnswer
      /\ BeforeAccept' => BeforeAccept
      /\ BeforeLoop' => BeforeLoop
  BY <1>4, <1>5, <1>6 DEF BeforeDialog, BeforeAnswer, BeforeAccept, BeforeLoop
<1>8. OnlyOnce'
  <2>1. ~reconnecting'
    <3>1. retries > 0 => sPeer >= MaxConns
      BY <1>1 DEF LinkOrder
    <3>2. ~(retries > 0 /\ sPeer < MaxConns)
      BY <1>1, <3>1
    <3> QED  BY <3>2 DEF Quieter, Turn, OnlyOnce
  <2> QED  BY <1>2, <1>3, <1>6, <2>1, StartKept DEF Turn, OnlyOnce
<1>9. InTurn'
  <2>1. BeforeAnswer' => \A f \in Files : ~Accepted(f)'
    BY <1>7, AcceptedOnly DEF Turn, InTurn
  <2> QED  BY <1>4, <1>5, <1>6, <1>7, <2>1, StartKept DEF Turn, InTurn, Accepted
<1>10. WholeQueue'
  <2>1. \A i \in DOMAIN accepting' :
          /\ accepting'[i].files = Files
          /\ \A f \in Files \ accepting'[i].todo : Accepted(f)'
    BY <1>6, FilesKept DEF Turn, WholeQueue
  <2>2. AcceptOut' \/ loops' # <<>> => AcceptOut \/ loops # <<>>
    BY <1>5, StartKept
  <2>3. dialog' # {} \/ accepting' # <<>> \/ AcceptOut' \/ loops' # <<>> =>
          dialog # {} \/ accepting # <<>> \/ AcceptOut \/ loops # <<>>
    BY <1>5, <1>6, StartKept
  <2>4. \A i \in DOMAIN ctlToReceiver' :
          ctlToReceiver'[i].t = "FILE_OFFER" => ctlToReceiver'[i].files = Files
    BY <1>2 DEF Turn, WholeQueue
  <2>5. dialog' \in {{}, Files}
    BY <1>6 DEF Turn, WholeQueue
  <2>6. AcceptOut' \/ loops' # <<>> => \A f \in Files : Accepted(f)'
    BY <2>2, FilesKept DEF Turn, WholeQueue
  <2>7. dialog' # {} \/ accepting' # <<>> \/ AcceptOut' \/ loops' # <<>> =>
          \A f \in Files : rFile'[f] # "ABSENT"
    BY <2>3, FilesKept DEF Turn, WholeQueue
  <2> QED  BY <2>1, <2>4, <2>5, <2>6, <2>7 DEF WholeQueue, Accepted
<1>11. FromTheStart'
  <2>1. \A i \in DOMAIN ctlToSender' :
          ctlToSender'[i].t = "FILE_ACCEPT" => ctlToSender'[i].resume = [f \in Files |-> 0]
    BY <1>3 DEF Turn, FromTheStart
  <2> QED  BY <2>1, StartKept DEF FromTheStart
<1> QED  BY <1>8, <1>9, <1>10, <1>11 DEF Turn

\* A queue that gets one more message of a type that it did not hold, and others of none.
LEMMA SingleAppend ==
  ASSUME NEW S, NEW q \in Seq(S), NEW m \in S, NEW type
  PROVE  /\ DOMAIN Append(q, m) = 1..(Len(q) + 1) /\ Len(q) \in Nat
         /\ \A i \in DOMAIN Append(q, m) :
              (i \in DOMAIN q /\ Append(q, m)[i] = q[i])
              \/ (i = Len(q) + 1 /\ Append(q, m)[i] = m)
         /\ (\A i \in DOMAIN q : q[i].t # type) => Single(Append(q, m), type)
         /\ m.t # type /\ Single(q, type) => Single(Append(q, m), type)
         /\ m.t # type /\ (\A i \in DOMAIN q : q[i].t # type) =>
              \A i \in DOMAIN Append(q, m) : Append(q, m)[i].t # type
<1>1. /\ DOMAIN Append(q, m) = 1..(Len(q) + 1) /\ Append(q, m)[Len(q) + 1] = m
      /\ \A i \in 1..Len(q) : Append(q, m)[i] = q[i]
      /\ Len(q) \in Nat /\ DOMAIN q = 1..Len(q)
  BY AppendProperties, LenProperties
<1> QED  BY <1>1 DEF Single

\* The connection opens: SESSION_INIT and FILE_OFFER are sent and nothing is under way yet.
LEMMA TurnOpens ==
  ASSUME MaxConns = 1, Types, Answering, LinkOrder, Turn, [Next]_vars, ConnectionOpens
  PROVE  Turn'
<1>1. /\ ctlToReceiver \in Seq(ReceiverControl) /\ opened \in Nat /\ sPeer \in 0..MaxConns
      /\ loops \in Seq(Loops)
  BY DEF Types, ChannelTypes, SenderTypes
<1>2. opened = 0 /\ opened' = 1
  BY <1>1 DEF ConnectionOpens, ChannelsReady
<1>3. /\ dialog = {} /\ accepting = <<>> /\ loops = <<>>
      /\ ~OfferOut /\ ~AcceptOut /\ \A f \in Files : ~Accepted(f)
  BY <1>2 DEF Turn, InTurn, BeforeDialog, BeforeAnswer, BeforeAccept, BeforeLoop
<1>4. UNCHANGED <<dialog, accepting, loops, ctlToSender, frames, completed, recv, rFile>>
  BY DEF ConnectionOpens, ChannelsReady, ReadyR, rTransfer, rAccept
<1>5. ~reconnecting'
  BY DEF ConnectionOpens, ChannelsReady
<1> DEFINE offer == [t |-> "FILE_OFFER", files |-> Files]
           init == [t |-> "SESSION_INIT"]
<1>6. offer \in ReceiverControl /\ init \in ReceiverControl
  BY DEF ReceiverControl
<1>7. ctlToReceiver' = Append(IF Encrypted THEN Append(ctlToReceiver, init) ELSE ctlToReceiver, offer)
  <2>1. ~reconnecting
    BY DEF Turn, OnlyOnce
  <2>2. ctlToReceiver' = ctlToReceiver \o (IF Encrypted THEN <<init>> ELSE <<>>) \o <<offer>>
    BY <2>1 DEF ConnectionOpens, ChannelsReady
  <2>3. ctlToReceiver \o <<>> = ctlToReceiver /\ ctlToReceiver \o <<init>> = Append(ctlToReceiver, init)
        /\ Append(ctlToReceiver, init) \in Seq(ReceiverControl)
    BY <1>1, <1>6, AppendIsConcat, ConcatEmptySeq, AppendProperties
  <2>4. \A q \in Seq(ReceiverControl) : q \o <<offer>> = Append(q, offer)
    BY <1>6, AppendIsConcat
  <2> QED  BY <1>1, <2>2, <2>3, <2>4
<1> DEFINE q == IF Encrypted THEN Append(ctlToReceiver, init) ELSE ctlToReceiver
<1>8. q \in Seq(ReceiverControl) /\ \A i \in DOMAIN q : q[i].t # "FILE_OFFER"
  <2>1. \A i \in DOMAIN ctlToReceiver : ctlToReceiver[i].t # "FILE_OFFER"
    BY <1>3 DEF OfferOut
  <2>2. init.t # "FILE_OFFER"
    OBVIOUS
  <2> HIDE DEF init
  <2> QED  BY <1>1, <1>6, <2>1, <2>2, SingleAppend, AppendProperties
<1>9. /\ Single(ctlToReceiver', "FILE_OFFER")
      /\ \A i \in DOMAIN ctlToReceiver' :
           ctlToReceiver'[i].t = "FILE_OFFER" => ctlToReceiver'[i].files = Files
  <2>1. ctlToReceiver' = Append(q, offer) /\ offer.files = Files
    BY <1>7
  <2> HIDE DEF q, offer
  <2> QED  BY <1>6, <1>8, <2>1, SingleAppend
<1>10. Single(ctlToSender, "FILE_ACCEPT") /\ ~AcceptOut'
  BY <1>3, <1>4 DEF AcceptOut, Turn, OnlyOnce
<1>11. OnlyOnce'
  BY <1>3, <1>4, <1>5, <1>9, <1>10 DEF OnlyOnce, Turn
<1>12. InTurn'
  BY <1>2, <1>3, <1>4, <1>10 DEF InTurn, Accepted
<1>13. WholeQueue' /\ FromTheStart'
  BY <1>3, <1>4, <1>9, <1>10 DEF Turn, WholeQueue, FromTheStart
<1> QED  BY <1>11, <1>12, <1>13 DEF Turn

\* The offer becomes the dialog.
LEMMA TurnOffered ==
  ASSUME Types, Answering, Turn, [Next]_vars, ReceiverStep(HandleFileOffer)
  PROVE  Turn'
<1>1. /\ ctlToReceiver \in Seq(ReceiverControl) /\ Len(ctlToReceiver) \in Nat
      /\ DOMAIN ctlToReceiver = 1..Len(ctlToReceiver)
      /\ ctlToReceiver # <<>> /\ Head(ctlToReceiver).t = "FILE_OFFER"
      /\ ctlToReceiver' = Tail(ctlToReceiver)
  BY QueueTypes DEF ReceiverStep, HandleFileOffer, Hear, Types, ChannelTypes
<1>2. /\ Head(ctlToReceiver) = ctlToReceiver[1] /\ 1 \in DOMAIN ctlToReceiver
      /\ DOMAIN ctlToReceiver' = 1..(Len(ctlToReceiver) - 1)
      /\ \A i \in DOMAIN ctlToReceiver' : ctlToReceiver'[i] = ctlToReceiver[i + 1]
                                          /\ i + 1 \in DOMAIN ctlToReceiver /\ i + 1 # 1
  BY <1>1, HeadTailProperties, LenProperties, EmptySeq
<1>3. OfferOut /\ Head(ctlToReceiver).files = Files
  BY <1>1, <1>2 DEF OfferOut, Turn, WholeQueue
<1>4. ~OfferOut'
  BY <1>1, <1>2 DEF OfferOut, Turn, OnlyOnce, Single
<1>5. /\ dialog = {} /\ accepting = <<>> /\ loops = <<>>
      /\ ~AcceptOut /\ \A f \in Files : ~Accepted(f)
  BY <1>3 DEF Turn, InTurn, BeforeDialog, BeforeAnswer, BeforeAccept, BeforeLoop
<1>6. 1 \in Files /\ opened # 0
  <2>1. 1 \in Files
    BY LinkConstants DEF Files
  <2> QED  BY <1>3, <2>1 DEF Turn, InTurn
<1>7. /\ rFile' = [f \in Files |-> "QUEUED"] /\ dialog' = Files
      /\ UNCHANGED <<ctlToSender, recv, completed, accepting, opened, frames, loops, reconnecting>>
  BY <1>3, <1>5, <1>6 DEF ReceiverStep, HandleFileOffer, senderVars, sControl, sReconnect
<1>8. ~AcceptOut'
  BY <1>5, <1>7 DEF AcceptOut
<1>9. OnlyOnce'
  BY <1>1, <1>2, <1>4, <1>7 DEF Turn, OnlyOnce, Single, OfferOut
<1>10. InTurn'
  BY <1>4, <1>5, <1>6, <1>7, <1>8 DEF InTurn, BeforeDialog, BeforeAnswer, BeforeAccept, BeforeLoop,
     Accepted
<1>11. WholeQueue'
  BY <1>4, <1>5, <1>7, <1>8 DEF WholeQueue, OfferOut
<1>12. FromTheStart'
  BY <1>7 DEF Turn, FromTheStart
<1> QED  BY <1>9, <1>10, <1>11, <1>12 DEF Turn

\* The dialog becomes the answer that waits for its sinks.
LEMMA TurnAnswered ==
  ASSUME Types, Answering, Turn, [Next]_vars, ReceiverStep(Accept)
  PROVE  Turn'
<1>1. /\ dialog = Files /\ accepting = <<>> /\ loops = <<>>
      /\ ~AcceptOut /\ \A f \in Files : ~Accepted(f)
  BY DEF ReceiverStep, Accept, Turn, InTurn, WholeQueue, BeforeAnswer, BeforeAccept, BeforeLoop
<1>2. ~BeforeDialog
  BY DEF ReceiverStep, Accept, Turn, InTurn
<1>3. /\ dialog' = {} /\ accepting' = <<[files |-> Files, todo |-> Files]>>
      /\ UNCHANGED <<ctlToSender, ctlToReceiver, recv, completed, rFile, opened, frames, loops,
                     reconnecting>>
  BY <1>1 DEF ReceiverStep, Accept, senderVars, sControl, sReconnect, linkVars, channelVars,
     rTransfer
<1>4. /\ Len(accepting') = 1 /\ DOMAIN accepting' = {1} /\ accepting' # <<>>
      /\ accepting'[1].files = Files /\ accepting'[1].todo = Files
  BY <1>3
<1>5. OfferOut' = OfferOut /\ ~AcceptOut' /\ ~OfferOut /\ opened # 0
  BY <1>1, <1>2, <1>3 DEF OfferOut, AcceptOut, BeforeDialog
<1>6. OnlyOnce'
  BY <1>3, <1>4 DEF Turn, OnlyOnce
<1>7. InTurn'
  BY <1>1, <1>3, <1>5 DEF InTurn, BeforeDialog, BeforeAnswer, BeforeAccept, BeforeLoop
<1>8. WholeQueue'
  <2>1. \A f \in Files : rFile[f] # "ABSENT"
    BY <1>1, LinkConstants DEF Turn, WholeQueue, ReceiverStep, Accept
  <2> QED  BY <1>1, <1>3, <1>4, <1>5, <2>1 DEF Turn, WholeQueue
<1>9. FromTheStart'
  BY <1>3 DEF Turn, FromTheStart
<1> QED  BY <1>6, <1>7, <1>8, <1>9 DEF Turn

\* A receiver that holds nothing resumes at the first chunk.
LEMMA ResumeFromNone ==
  ASSUME NEW r \in Hashing, r.hashed = <<>>
  PROVE  ResumeFromChunk(r) = 0
<1>1. ResumeFromChunk(r) \in Nat /\ 0..(ResumeFromChunk(r) - 1) \subseteq Held(r)
  BY ResumePoint, LinkConstants DEF Hashing
<1>2. Held(r) = {}
  BY DEF Held, ToSet
<1>3. ResumeFromChunk(r) > 0 => 0 \in 0..(ResumeFromChunk(r) - 1)
  BY <1>1
<1> QED  BY <1>1, <1>2, <1>3

\* The last sink of the answer makes it a FILE_ACCEPT.
LEMMA TurnCreates ==
  ASSUME Types, Answering, Turn, [Next]_vars,
         NEW i \in DOMAIN accepting, ReceiverStep(SinkCreated(i))
  PROVE  Turn'
<1> DEFINE a == accepting[i]
           f == Min(a.todo)
           more == a.todo \ {f}
           m == Acceptance(a.files, recv')
<1>1. /\ accepting \in Seq(Answers) /\ Len(accepting) \in Nat /\ DOMAIN accepting = 1..Len(accepting)
      /\ ctlToSender \in Seq(SenderControl) /\ recv \in [Files -> Receivers]
      /\ recv' \in [Files -> Receivers] /\ accepting' \in Seq(Answers)
      /\ a \in Answers
  BY QueueTypes, TypesStep DEF Types, ReceiverTypes, ChannelTypes
<1>2. f \in a.todo /\ a.todo \subseteq Files
  <2>1. a.todo \subseteq Files /\ a.todo # {}
    BY <1>1 DEF Answers
  <2>2. a.todo \in SUBSET Nat
    BY <2>1, LinkConstants DEF Files
  <2> QED  BY <2>1, <2>2, MinOfSet
<1>3. Len(accepting) = 1 /\ i = 1 /\ accepting # <<>>
  BY <1>1, EmptySeq DEF Turn, OnlyOnce
<1>4. /\ ~BeforeAnswer /\ ~AcceptOut /\ loops = <<>> /\ a.files = Files
      /\ \A g \in Files : recv[g].hashed = <<>> /\ rFile[g] # "ABSENT"
      /\ \A g \in Files \ a.todo : Accepted(g)
  BY <1>1, <1>3 DEF Turn, InTurn, WholeQueue, FromTheStart, BeforeAccept, BeforeLoop
<1>5. /\ recv' = [recv EXCEPT ![f] = NewReceiver(rKey = "set")]
      /\ IF more = {}
         THEN accepting' = RemoveAt(accepting, i) /\ SendAccept(a.files, recv')
         ELSE accepting' = [accepting EXCEPT ![i].todo = more] /\ UNCHANGED ctlToSender
      /\ UNCHANGED <<rFile, completed, dialog, opened, ctlToReceiver, frames, loops, reconnecting>>
  BY DEF ReceiverStep, SinkCreated, senderVars, sControl, sReconnect
<1>6. \A g \in Files : recv'[g].hashed = <<>>
  <2>1. NewReceiver(rKey = "set").hashed = <<>>
    BY DEF NewReceiver
  <2> QED  BY <1>1, <1>2, <1>4, <1>5, <2>1
<1>7. \A g \in Files \ more : Accepted(g)'
  <2>1. NewReceiver(rKey = "set") # None
    BY SomeReceiver, <1>1 DEF Receivers, Hashing
  <2> HIDE DEF f
  <2> QED  BY <1>1, <1>2, <1>4, <1>5, <2>1 DEF Accepted
<1>8. /\ OfferOut' = OfferOut /\ ~OfferOut /\ dialog = {} /\ opened # 0
      /\ ~BeforeAnswer'
  BY <1>4, <1>5 DEF OfferOut, BeforeDialog, BeforeAnswer
<1>9. CASE more # {}
  <2>1. accepting' = [accepting EXCEPT ![i].todo = more] /\ UNCHANGED ctlToSender
    BY <1>5, <1>9
  <2>2. /\ Len(accepting') = 1 /\ DOMAIN accepting' = {1} /\ accepting' # <<>>
        /\ accepting'[1].files = Files /\ accepting'[1].todo = more
    <3> HIDE DEF f
    <3>1. DOMAIN accepting' = DOMAIN accepting /\ accepting'[i] = [a EXCEPT !.todo = more]
      BY <1>1, <2>1
    <3>2. [a EXCEPT !.todo = more].files = a.files /\ [a EXCEPT !.todo = more].todo = more
      BY <1>1 DEF Answers
    <3>3. Len(accepting') = 1 /\ DOMAIN accepting' = {1}
      <4>1. DOMAIN accepting' = 1..1 /\ Len(accepting') \in Nat
            /\ DOMAIN accepting' = 1..Len(accepting')
        BY <1>1, <1>3, <3>1, LenProperties
      <4> QED  BY <4>1
    <3> QED  BY <1>3, <1>4, <3>1, <3>2, <3>3, EmptySeq
  <2> HIDE DEF more
  <2>3. ~AcceptOut'
    BY <1>4, <2>1 DEF AcceptOut
  <2>4. OnlyOnce'
    BY <1>5, <2>1, <2>2 DEF Turn, OnlyOnce
  <2>5. InTurn'
    BY <1>4, <1>5, <1>8, <2>3 DEF InTurn, BeforeDialog, BeforeAnswer, BeforeAccept, BeforeLoop
  <2>6. WholeQueue'
    <3>1. \A j \in DOMAIN accepting' :
            /\ accepting'[j].files = Files
            /\ \A g \in Files \ accepting'[j].todo : Accepted(g)'
      BY <1>7, <2>2
    <3>2. \A j \in DOMAIN ctlToReceiver' : ctlToReceiver'[j].t # "FILE_OFFER"
      BY <1>8 DEF OfferOut
    <3> QED  BY <1>4, <1>5, <1>8, <2>3, <3>1, <3>2 DEF WholeQueue, Accepted
  <2>7. FromTheStart'
    BY <1>5, <1>6, <2>1 DEF Turn, FromTheStart
  <2> QED  BY <2>4, <2>5, <2>6, <2>7 DEF Turn
<1>10. CASE more = {}
  <2>1. accepting' = RemoveAt(accepting, i) /\ SendAccept(a.files, recv')
    BY <1>5, <1>10
  <2>2. accepting' = <<>>
    <3>1. DOMAIN accepting' = 1..(Len(accepting) - 1)
      BY <1>1, <2>1, RemovedAt
    <3>2. Len(accepting') = 0
      BY <1>1, <1>3, <3>1, LenProperties
    <3> QED  BY <1>1, <3>2, EmptySeq
  <2>3. \A g \in Files : Accepted(g)'
    BY <1>7, <1>10
  <2>4. m.t = "FILE_ACCEPT" /\ m.resume = [g \in Files |-> 0] /\ m \in SenderControl
    <3>1. m.t = "FILE_ACCEPT" /\ m.known \in SUBSET Files
          /\ m.resume = [g \in Files |->
               IF g \in a.files /\ recv'[g] # None THEN ResumeFromChunk(recv'[g]) ELSE 0]
      BY DEF Acceptance
    <3>2. \A g \in Files : recv'[g] \in Hashing /\ ResumeFromChunk(recv'[g]) = 0
      BY <1>1, <1>6, <2>3, SomeReceiver, ResumeFromNone DEF Accepted
    <3>3. m.resume = [g \in Files |-> 0]
      BY <3>1, <3>2
    <3>4. [g \in Files |-> 0] \in [Files -> 0..NumChunks]
      BY LinkConstants
    <3>5. m = [t |-> "FILE_ACCEPT", known |-> m.known, resume |-> m.resume]
      BY DEF Acceptance
    <3> HIDE DEF m
    <3> QED  BY <3>1, <3>3, <3>4, <3>5 DEF SenderControl
  <2>5. ctlToSender' = Post(ctlToSender, rPeer, <<m>>)
    BY <2>1 DEF SendAccept, Say, Acceptance
  <2> HIDE DEF m
  <2>6. ctlToSender' = ctlToSender \/ ctlToSender' = Append(ctlToSender, m)
    BY <1>1, <2>4, <2>5, AppendIsConcat DEF Post
  <2>7. /\ Single(ctlToSender', "FILE_ACCEPT")
        /\ \A j \in DOMAIN ctlToSender' :
             ctlToSender'[j].t = "FILE_ACCEPT" => ctlToSender'[j].resume = [g \in Files |-> 0]
    <3>1. \A j \in DOMAIN ctlToSender : ctlToSender[j].t # "FILE_ACCEPT"
      BY <1>4 DEF AcceptOut
    <3>2. CASE ctlToSender' = ctlToSender
      BY <3>1, <3>2 DEF Single
    <3>3. CASE ctlToSender' = Append(ctlToSender, m)
      BY <1>1, <2>4, <3>1, <3>3, SingleAppend
    <3> QED  BY <2>6, <3>2, <3>3
  <2>8. OnlyOnce'
    BY <1>5, <2>2, <2>7 DEF Turn, OnlyOnce
  <2>9. InTurn'
    BY <1>4, <1>5, <1>8, <2>2 DEF InTurn, BeforeDialog, BeforeAnswer, BeforeAccept, BeforeLoop
  <2>10. WholeQueue'
    <3>1. \A j \in DOMAIN ctlToReceiver' : ctlToReceiver'[j].t # "FILE_OFFER"
      BY <1>8 DEF OfferOut
    <3>2. DOMAIN accepting' = {}
      BY <2>2
    <3> QED  BY <1>4, <1>5, <1>8, <2>3, <3>1, <3>2 DEF WholeQueue, Accepted
  <2>11. FromTheStart'
    BY <1>5, <1>6, <2>7 DEF Turn, FromTheStart
  <2> QED  BY <2>8, <2>9, <2>10, <2>11 DEF Turn
<1> QED  BY <1>9, <1>10

\* FILE_ACCEPT becomes the loop.
LEMMA TurnLoops ==
  ASSUME Types, Answering, Turn, [Next]_vars, SenderStep(HandleAccept)
  PROVE  Turn'
<1> DEFINE m == Head(ctlToSender)
           l == Loop(m.resume, m.known)
<1>1. /\ ctlToSender \in Seq(SenderControl) /\ Len(ctlToSender) \in Nat
      /\ DOMAIN ctlToSender = 1..Len(ctlToSender)
      /\ ctlToSender # <<>> /\ m.t = "FILE_ACCEPT" /\ ctlToSender' = Tail(ctlToSender)
  BY QueueTypes DEF SenderStep, HandleAccept, TakeControl, Types, ChannelTypes
<1>2. /\ m = ctlToSender[1] /\ 1 \in DOMAIN ctlToSender
      /\ DOMAIN ctlToSender' = 1..(Len(ctlToSender) - 1)
      /\ \A i \in DOMAIN ctlToSender' : ctlToSender'[i] = ctlToSender[i + 1]
                                        /\ i + 1 \in DOMAIN ctlToSender /\ i + 1 # 1
  BY <1>1, HeadTailProperties, LenProperties, EmptySeq
<1>3. AcceptOut /\ m.resume = [f \in Files |-> 0]
  BY <1>1, <1>2 DEF AcceptOut, Turn, FromTheStart
<1>4. ~AcceptOut' /\ Single(ctlToSender', "FILE_ACCEPT")
  BY <1>1, <1>2 DEF AcceptOut, Turn, OnlyOnce, Single
<1>5. ~BeforeAccept /\ loops = <<>>
      /\ \A f \in Files : Accepted(f) /\ rFile[f] # "ABSENT"
  BY <1>3 DEF Turn, InTurn, WholeQueue, BeforeLoop
<1>6. /\ loops' = <<l>>
      /\ UNCHANGED <<rFile, recv, completed, dialog, accepting, opened, ctlToReceiver, reconnecting>>
  BY <1>5 DEF SenderStep, HandleAccept, receiverVars, rTransfer, rAccept, sReconnect
<1>7. Len(loops') = 1 /\ loops' # <<>> /\ DOMAIN loops' = {1} /\ loops'[1].resume = m.resume
  <2>1. l.resume = m.resume
    BY DEF Loop
  <2> HIDE DEF l
  <2> QED  BY <1>6, <2>1
<1>8. OfferOut' = OfferOut
  BY <1>6 DEF OfferOut
<1>9. ~BeforeAccept'
  BY <1>5, <1>6, <1>8 DEF BeforeAccept, BeforeAnswer, BeforeDialog
<1>10. OnlyOnce'
  BY <1>4, <1>6, <1>7 DEF Turn, OnlyOnce
<1>11. InTurn'
  BY <1>4, <1>9 DEF InTurn, BeforeAccept, BeforeAnswer, BeforeDialog, BeforeLoop
<1>12. WholeQueue'
  BY <1>4, <1>5, <1>6 DEF Turn, WholeQueue, Accepted
<1>13. FromTheStart'
  BY <1>1, <1>2, <1>3, <1>7 DEF Turn, FromTheStart
<1> QED  BY <1>10, <1>11, <1>12, <1>13 DEF Turn

\* The invariant of a transfer over one connection.
OneRun == Types /\ Answering /\ LinkOrder /\ Turn

\* The lemmas above for every step; that only fresh files are answered, which the theorems about
\* many connections assume, holds here by itself.
LEMMA OneRunStep ==
  ASSUME MaxConns = 1, OneRun, [Next]_vars
  PROVE  OneRun'
<1>1. Types /\ Answering /\ LinkOrder /\ Turn
  BY DEF OneRun
<1>2. Types' /\ LinkOrder'
  BY <1>1, TypesStep, LinkOrderStep
<1>3. ASSUME Accept PROVE dialog \cap Answered = {}
  <2>1. accepting = <<>> /\ \A f \in Files : ~Accepted(f)
    BY <1>1, <1>3 DEF Accept, Turn, InTurn, BeforeAnswer
  <2> QED  BY <2>1, EmptySeq DEF Answered
<1>4. Answering'
  BY <1>1, <1>3, AnsweringStep
<1>5. Turn'
  BY <1>1, TurnFootprint, TurnQuieter, TurnOpens, TurnOffered, TurnAnswered, TurnCreates, TurnLoops
<1> QED  BY <1>2, <1>4, <1>5 DEF OneRun

\* A transfer over one connection takes its turns.
LEMMA OneRunHolds == ASSUME MaxConns = 1 PROVE Spec => []OneRun
<1>1. Init => Turn
  BY EmptySeq DEF Init, LinkInit, SenderInit, ReceiverInit, Turn, OnlyOnce, InTurn, WholeQueue,
     FromTheStart, Single, OfferOut, AcceptOut, BeforeDialog, BeforeAnswer, BeforeAccept,
     BeforeLoop, Accepted, None
<1>2. Init => OneRun
  BY <1>1, TypesInit, AnsweringInit, LinkOrderInit DEF OneRun
<1> QED  BY <1>2, OneRunStep, PTL, MaxConns = 1 DEF Spec
-----------------------------------------------------------------------------
(* Where a loop is                                                         *)

\* A loop's step as what it does to its place.
LoopPlace(k) ==
  LET l == loops[k]
      m == loops'[k]
  IN
  \/ /\ m.at = l.at /\ m.file = l.file /\ m.pump.chunk = l.pump.chunk
     /\ \/ m.pump.cancelled = l.pump.cancelled
        \/ CancelAll
        \/ LoseConnection /\ GivesUp
  \/ /\ ChunkRead(k) /\ m.at = "run" /\ m.file = l.file /\ m.pump.chunk = l.pump.chunk + 1
     /\ m.pump.cancelled = l.pump.cancelled
  \/ NextFile(k) /\ m.at = "run" /\ m.file = l.file + 1
     /\ m.pump.chunk = l.resume[l.file + 1] /\ ~m.pump.cancelled
  \/ NextFile(k) /\ m.at = "done" /\ ~m.pump.cancelled
  \/ PumpReturns(k) /\ m.at \in {"next", "save"} /\ m.file = l.file /\ ~m.pump.cancelled
  \/ HistorySaved(k) /\ m.at = "next" /\ m.file = l.file /\ m.pump = l.pump
  \/ LoopFails(k) /\ m.at = "dead" /\ ~m.pump.cancelled

\* Every step but a new loop leaves a loop where it is or moves it as its handler does.
LEMMA LoopPlaces ==
  ASSUME Types, [Next]_vars, ~HandleAccept, NEW k \in DOMAIN loops
  PROVE  LoopPlace(k)
<1>1. /\ loops \in Seq(Loops) /\ DOMAIN loops = 1..Len(loops) /\ Len(loops) \in Nat
      /\ \A j \in DOMAIN loops : loops[j] \in LoopRecords /\ loops[j].pump \in Pumps
  <2>1. loops \in Seq(Loops)
    BY DEF Types, SenderTypes
  <2>2. DOMAIN loops = 1..Len(loops) /\ Len(loops) \in Nat
    BY <2>1, QueueTypes
  <2>3. \A j \in DOMAIN loops : loops[j] \in LoopRecords
    BY <2>1, QueueTypes DEF Loops
  <2>4. \A l \in LoopRecords : l.pump \in Pumps
    BY DEF LoopRecords, FittingPumps
  <2> QED  BY <2>1, <2>2, <2>3, <2>4
<1>2. ASSUME loops'[k] = loops[k] PROVE LoopPlace(k)
  BY <1>2 DEF LoopPlace
<1>3. ASSUME NEW place
      PROVE  Finished(place).at = place /\ ~Finished(place).pump.cancelled
  <2>1. Finished(place).at = place /\ Finished(place).pump = Idle
    BY DEF Finished, Loop
  <2>2. Idle.cancelled = FALSE
    BY DEF Idle, NewPump
  <2> QED  BY <2>1, <2>2
<1>4. ASSUME NextFile(k) PROVE LoopPlace(k)
  <2> DEFINE f == loops[k].file + 1
             p == NewPump(loops[k].resume[f])
  <2>1. CASE loops' = [loops EXCEPT ![k] = Finished("done")]
    BY <1>3, <1>4, <2>1 DEF LoopPlace
  <2>2. CASE loops' = [loops EXCEPT ![k].at = "run", ![k].file = f, ![k].pump = p]
    <3>1. p.chunk = loops[k].resume[f] /\ p.cancelled = FALSE
      BY DEF NewPump
    <3>2. loops'[k] = [loops[k] EXCEPT !.at = "run", !.file = f, !.pump = p]
      BY <2>2
    <3> HIDE DEF p
    <3>3. loops'[k].at = "run" /\ loops'[k].file = f /\ loops'[k].pump = p
      BY <1>1, <3>2 DEF LoopRecords
    <3> QED  BY <1>4, <3>1, <3>3 DEF LoopPlace
  <2> QED  BY <1>4, <2>1, <2>2 DEF NextFile
<1>5. ASSUME NEW p, p.chunk = loops[k].pump.chunk, p.cancelled = loops[k].pump.cancelled,
             \/ loops' = [loops EXCEPT ![k].pump = p]
             \/ \E n : loops' = [loops EXCEPT ![k].pump = p, ![k].on = n]
      PROVE  LoopPlace(k)
  <2>1. \/ loops'[k] = [loops[k] EXCEPT !.pump = p]
        \/ \E n : loops'[k] = [loops[k] EXCEPT !.pump = p, !.on = n]
    BY <1>5
  <2>2. loops'[k].pump = p /\ loops'[k].at = loops[k].at /\ loops'[k].file = loops[k].file
    BY <1>1, <2>1 DEF LoopRecords
  <2> QED  BY <1>5, <2>2 DEF LoopPlace
<1>6. ASSUME NEW p \in Pumps
      PROVE  /\ \A op \in {AtTop(p, NumChunks), AtBuffer(p, TRUE), AtBuffer(p, FALSE),
                           AfterDrain(p), AfterHash(p), PausePump(p), ResumePump(p)} :
                  op.chunk = p.chunk /\ op.cancelled = p.cancelled
             /\ CancelPump(p).chunk = p.chunk
             /\ AfterRead(p).chunk = p.chunk + 1 /\ AfterRead(p).cancelled = p.cancelled
  BY DEF Pumps, AtTop, AtBuffer, AfterDrain, AfterHash, PausePump, ResumePump, CancelPump, AfterRead
<1> DEFINE p == loops[k].pump
<1>7. ASSUME PumpContinues(k) \/ PrefixHashed(k) \/ BufferLow(k) PROVE LoopPlace(k)
  <2>1. \E op \in {AtTop(p, NumChunks), AtBuffer(p, TRUE), AtBuffer(p, FALSE), AfterDrain(p),
                   AfterHash(p)} :
          \/ loops' = [loops EXCEPT ![k].pump = op]
          \/ \E n : loops' = [loops EXCEPT ![k].pump = op, ![k].on = n]
    BY <1>7 DEF PumpContinues, PrefixHashed, BufferLow, SetPump
  <2>2. p \in Pumps
    BY <1>1
  <2> HIDE DEF p
  <2>3. \A op \in {AtTop(p, NumChunks), AtBuffer(p, TRUE), AtBuffer(p, FALSE), AfterDrain(p),
                   AfterHash(p)} : op.chunk = p.chunk /\ op.cancelled = p.cancelled
    BY <1>6, <2>2
  <2> QED  BY <1>5, <2>1, <2>3 DEF p
<1>8. ASSUME PumpReturns(k) PROVE LoopPlace(k)
  <2>1. PICK place \in {"next", "save"} : loops' = [loops EXCEPT ![k].at = place, ![k].pump = Idle]
    BY <1>8 DEF PumpReturns
  <2>2. loops'[k] = [loops[k] EXCEPT !.at = place, !.pump = Idle]
    BY <2>1
  <2>3. loops'[k].at = place /\ loops'[k].pump = Idle /\ loops'[k].file = loops[k].file
    BY <1>1, <2>2 DEF LoopRecords
  <2>4. Idle.cancelled = FALSE
    BY DEF Idle, NewPump
  <2> QED  BY <1>8, <2>3, <2>4 DEF LoopPlace
<1>9. ASSUME ChunkRead(k) PROVE LoopPlace(k)
  <2>1. loops'[k] = [loops[k] EXCEPT !.pump = AfterRead(loops[k].pump)] /\ loops[k].at = "run"
    BY <1>9 DEF ChunkRead, SetPump, Running
  <2>2. /\ loops'[k].pump = AfterRead(loops[k].pump) /\ loops'[k].at = "run"
        /\ loops'[k].file = loops[k].file
    BY <1>1, <2>1 DEF LoopRecords
  <2>3. AfterRead(p).chunk = p.chunk + 1 /\ AfterRead(p).cancelled = p.cancelled
    BY <1>1, <1>6
  <2> QED  BY <1>9, <2>2, <2>3 DEF LoopPlace
<1>10. ASSUME HistorySaved(k) PROVE LoopPlace(k)
  <2>1. loops'[k] = [loops[k] EXCEPT !.at = "next"]
    BY <1>10 DEF HistorySaved
  <2>2. loops'[k].pump = loops[k].pump /\ loops'[k].at = "next" /\ loops'[k].file = loops[k].file
    BY <1>1, <2>1 DEF LoopRecords
  <2> QED  BY <1>10, <2>2 DEF LoopPlace
<1>11. ASSUME LoopFails(k) PROVE LoopPlace(k)
  BY <1>3, <1>11 DEF LoopFails, LoopPlace
<1>12. ASSUME NEW j \in DOMAIN loops, j # k,
              NextFile(j) \/ PumpContinues(j) \/ PumpReturns(j) \/ PrefixHashed(j)
                \/ ChunkRead(j) \/ BufferLow(j) \/ HistorySaved(j) \/ LoopFails(j)
       PROVE  LoopPlace(k)
  <2>1. loops'[k] = loops[k]
    BY <1>12 DEF NextFile, PumpContinues, PumpReturns, PrefixHashed, ChunkRead, BufferLow,
       HistorySaved, LoopFails, SetPump
  <2> QED  BY <1>2, <2>1
<1>13. CASE activePump # k /\ (PauseCurrentFile \/ ResumeCurrentFile \/ CancelAll \/ LoseConnection)
  <2>1. loops'[k] = loops[k]
    BY <1>13 DEF PauseCurrentFile, ResumeCurrentFile, CancelAll, LoseConnection, OnActivePump
  <2> QED  BY <1>2, <2>1
<1>14. CASE activePump = k /\ (PauseCurrentFile \/ ResumeCurrentFile \/ (LoseConnection /\ ~GivesUp))
  <2>1. \E op \in {PausePump(p), ResumePump(p)} : loops' = [loops EXCEPT ![k].pump = op]
    BY <1>1, <1>14 DEF PauseCurrentFile, ResumeCurrentFile, LoseConnection, OnActivePump
  <2>2. p \in Pumps
    BY <1>1
  <2> HIDE DEF p
  <2>3. \A op \in {PausePump(p), ResumePump(p)} : op.chunk = p.chunk /\ op.cancelled = p.cancelled
    BY <1>6, <2>2
  <2> QED  BY <1>5, <2>1, <2>3 DEF p
<1>15. CASE activePump = k /\ (CancelAll \/ (LoseConnection /\ GivesUp))
  <2>1. loops'[k] = [loops[k] EXCEPT !.pump = CancelPump(loops[k].pump)]
    BY <1>1, <1>15 DEF CancelAll, LoseConnection, OnActivePump
  <2>2. /\ loops'[k].pump = CancelPump(loops[k].pump) /\ loops'[k].at = loops[k].at
        /\ loops'[k].file = loops[k].file
    BY <1>1, <2>1 DEF LoopRecords
  <2> QED  BY <1>1, <1>6, <1>15, <2>2 DEF LoopPlace
<1> QED  BY <1>2, <1>4, <1>7, <1>8, <1>9, <1>10, <1>11, <1>12, <1>13, <1>14, <1>15, LoopFootprint
-----------------------------------------------------------------------------
(* What a step does to the queue of frames, and what the queue does        *)

Chunk(f, c) == [t |-> "CHUNK", f |-> f, c |-> c]

\* A loop puts its chunk, or the word that ends a file or the transfer, on the channel.
Sends(k, m) ==
  \/ ChunkRead(k) /\ m = Chunk(loops[k].file, loops[k].pump.chunk)
  \/ PumpReturns(k) /\ m = [t |-> "FILE_COMPLETE", f |-> loops[k].file]
  \/ NextFile(k) /\ m = [t |-> "TRANSFER_COMPLETE"]

\* A step takes a frame, leaves the queue, or appends what its loop sends.
LEMMA QueueMoves ==
  ASSUME Types, Answering, [Next]_vars
  PROVE  \/ FrameTaken
         \/ FramesStay /\ ~FrameTaken
         \/ \E k \in DOMAIN loops : \E m \in FrameSet :
              /\ LoopStep(k) /\ Sends(k, m) /\ up # 0
              /\ frames' = Append(frames, m)
<1> DEFINE Goal == \/ FrameTaken
                   \/ FramesStay /\ ~FrameTaken
                   \/ \E k \in DOMAIN loops : \E m \in FrameSet :
                        /\ LoopStep(k) /\ Sends(k, m) /\ up # 0
                        /\ frames' = Append(frames, m)
<1>1. ASSUME UNCHANGED frames PROVE Goal
  BY <1>1 DEF FramesStay
<1>2. ASSUME NEW k \in DOMAIN loops, LoopStep(k), NEW m \in FrameSet, Sends(k, m),
             frames' = Post(frames, sPeer, <<m>>)
      PROVE  Goal
  <2>1. frames \in Seq(FrameSet) /\ frames \o <<m>> = Append(frames, m)
    BY AppendIsConcat DEF Types, ChannelTypes
  <2>2. frames' = frames \/ (up # 0 /\ frames' = Append(frames, m))
    BY <1>2, <2>1 DEF Post
  <2> QED  BY <1>1, <1>2, <2>2
<1>3. ASSUME NEW k \in DOMAIN loops, LoopStep(k) PROVE Goal
  <2>1. loops[k] \in Loops
    BY QueueTypes DEF Types, SenderTypes
  <2>2. CASE ChunkRead(k)
    <3>1. loops[k].file \in Files /\ loops[k].pump \in FittingPumps /\ loops[k].pump.at = "read"
      BY <2>1, <2>2 DEF ChunkRead, Running, Loops, LoopRecords
    <3>2. loops[k].pump.chunk \in Chunks
      BY <3>1, LinkConstants DEF FittingPumps, Pumps, Chunks
    <3>3. Chunk(loops[k].file, loops[k].pump.chunk) \in FrameSet
      BY <3>1, <3>2 DEF FrameSet, Chunk
    <3> QED  BY <1>2, <1>3, <2>2, <3>3 DEF ChunkRead, PostFrames, Sends, Chunk
  <2>3. CASE PumpReturns(k)
    <3>1. loops[k].file \in Files
      BY <2>1, <2>3 DEF PumpReturns, Running, Loops
    <3>2. [t |-> "FILE_COMPLETE", f |-> loops[k].file] \in FrameSet
      BY <3>1 DEF FrameSet
    <3> QED  BY <1>1, <1>2, <1>3, <2>3, <3>2 DEF PumpReturns, PostFrames, Sends
  <2>4. CASE NextFile(k)
    <3>1. [t |-> "TRANSFER_COMPLETE"] \in FrameSet
      BY DEF FrameSet
    <3> QED  BY <1>1, <1>2, <1>3, <2>4, <3>1 DEF NextFile, PostFrames, Sends
  <2> QED  BY <1>1, <1>3, <2>2, <2>3, <2>4 DEF LoopStep, PumpContinues, PrefixHashed, BufferLow,
              HistorySaved, LoopFails, linkVars, channelVars
<1>4. CASE SenderStep(HandleAccept)
  BY <1>1, <1>4 DEF SenderStep, HandleAccept
<1> QED  BY <1>3, <1>4, FlowFootprint DEF Still

\* Positions in the queue after each of the three.
LEMMA QueueOps ==
  ASSUME NEW S, NEW q \in Seq(S)
  PROVE  /\ q # <<>> =>
              /\ 1 \in DOMAIN q /\ Head(q) = q[1] /\ q[1] \in S
              /\ \A i \in DOMAIN Tail(q) : i + 1 \in DOMAIN q /\ Tail(q)[i] = q[i + 1]
              /\ \A j \in DOMAIN q : j # 1 => j - 1 \in DOMAIN Tail(q) /\ Tail(q)[j - 1] = q[j]
         /\ \A n \in 0..Len(q) :
              \A i \in DOMAIN SubSeq(q, 1, n) :
                i \in DOMAIN q /\ i <= n /\ SubSeq(q, 1, n)[i] = q[i]
         /\ \A m \in S :
              /\ Len(q) + 1 \in DOMAIN Append(q, m) /\ Append(q, m)[Len(q) + 1] = m
              /\ \A i \in DOMAIN q : i \in DOMAIN Append(q, m) /\ Append(q, m)[i] = q[i]
              /\ \A i \in DOMAIN Append(q, m) : i \in DOMAIN q \/ i = Len(q) + 1
         /\ DOMAIN q = 1..Len(q) /\ Len(q) \in Nat
<1>1. DOMAIN q = 1..Len(q) /\ Len(q) \in Nat /\ \A i \in DOMAIN q : q[i] \in S
  BY QueueTypes
<1>2. ASSUME q # <<>>
      PROVE  /\ 1 \in DOMAIN q /\ Head(q) = q[1] /\ q[1] \in S
             /\ \A i \in DOMAIN Tail(q) : i + 1 \in DOMAIN q /\ Tail(q)[i] = q[i + 1]
             /\ \A j \in DOMAIN q : j # 1 => j - 1 \in DOMAIN Tail(q) /\ Tail(q)[j - 1] = q[j]
  <2>1. /\ Tail(q) \in Seq(S) /\ Len(Tail(q)) = Len(q) - 1 /\ Head(q) = q[1] /\ Len(q) > 0
        /\ \A i \in 1..(Len(q) - 1) : Tail(q)[i] = q[i + 1]
    BY <1>1, <1>2, HeadTailProperties, EmptySeq
  <2>2. DOMAIN Tail(q) = 1..(Len(q) - 1)
    BY <2>1, LenProperties
  <2> QED  BY <1>1, <2>1, <2>2
<1>3. ASSUME NEW n \in 0..Len(q), NEW i \in DOMAIN SubSeq(q, 1, n)
      PROVE  i \in DOMAIN q /\ i <= n /\ SubSeq(q, 1, n)[i] = q[i]
  <2>1. /\ SubSeq(q, 1, n) \in Seq(S) /\ Len(SubSeq(q, 1, n)) = n
        /\ \A j \in 1..n : SubSeq(q, 1, n)[j] = q[j]
    BY <1>1, SubSeqProperties
  <2>2. DOMAIN SubSeq(q, 1, n) = 1..n
    BY <2>1, LenProperties
  <2> QED  BY <1>1, <2>1, <2>2
<1>4. ASSUME NEW m \in S
      PROVE  /\ Len(q) + 1 \in DOMAIN Append(q, m) /\ Append(q, m)[Len(q) + 1] = m
             /\ \A i \in DOMAIN q : i \in DOMAIN Append(q, m) /\ Append(q, m)[i] = q[i]
             /\ \A i \in DOMAIN Append(q, m) : i \in DOMAIN q \/ i = Len(q) + 1
  <2>1. /\ DOMAIN Append(q, m) = 1..(Len(q) + 1) /\ Append(q, m)[Len(q) + 1] = m
        /\ \A i \in 1..Len(q) : Append(q, m)[i] = q[i]
    BY <1>1, AppendProperties, LenProperties
  <2> QED  BY <1>1, <2>1
<1> QED  BY <1>1, <1>2, <1>3, <1>4

\* What taking the first frame does to the receivers, all of which are there.
LEMMA TakenFrame ==
  ASSUME OneRun, [Next]_vars, FrameTaken
  PROVE  LET h == Head(frames) IN
         /\ h \in FrameSet /\ frames' = Tail(frames) /\ frames # <<>>
         /\ UNCHANGED <<loops, up>>
         /\ \A f \in Files : recv[f] \in Hashing /\ recv'[f] \in Hashing
         /\ \A f \in Files : ~(h.t = "CHUNK" /\ h.f = f) => recv'[f].hashed = recv[f].hashed
         /\ h.t = "CHUNK" =>
              /\ recv'[h.f].digested = recv[h.f].digested
              /\ \/ /\ recv'[h.f].hashed = recv[h.f].hashed
                    /\ Faults \/ recv[h.f].digested \/ h.c \in Held(recv[h.f])
                 \/ /\ ~recv[h.f].digested /\ h.c \notin Held(recv[h.f])
                    /\ recv'[h.f].hashed = Append(recv[h.f].hashed, h.c)
<1> DEFINE h == Head(frames)
<1>1. /\ frames \in Seq(FrameSet) /\ recv \in [Files -> Receivers] /\ recv' \in [Files -> Receivers]
      /\ frames # <<>> /\ frames' = Tail(frames) /\ UNCHANGED <<up, senderVars>>
  BY TypesStep DEF OneRun, Types, ChannelTypes, ReceiverTypes, FrameTaken
<1>2. h \in FrameSet
  BY <1>1, QueueTypes
<1>3. UNCHANGED <<loops, up>>
  BY <1>1 DEF senderVars, sControl
<1>4. \A f \in Files : recv[f] \in Hashing /\ recv'[f] \in Hashing /\ Accepted(f)
  <2>1. \A f \in Files : Accepted(f)
    BY <1>1 DEF OneRun, Turn, FromTheStart, WholeQueue
  <2> QED  BY <2>1, ReceiversGrow DEF OneRun
<1>5. CASE TakeChunk
  <2>1. h.t = "CHUNK" /\ h.f \in Files
    BY <1>2, <1>5 DEF TakeChunk, TakeFrame, FrameSet
  <2>2. recv' = [recv EXCEPT ![h.f] = HandleChunk(recv[h.f], h.c)]
    BY <1>4, <1>5, <2>1 DEF TakeChunk
  <2>3. recv'[h.f] = HandleChunk(recv[h.f], h.c) /\ \A f \in Files : f # h.f => recv'[f] = recv[f]
    BY <1>1, <2>1, <2>2
  <2>4. \/ recv'[h.f] = recv[h.f] /\ (recv[h.f].digested \/ h.c \in Held(recv[h.f]))
        \/ /\ ~recv[h.f].digested /\ h.c \notin Held(recv[h.f])
           /\ recv'[h.f] = [recv[h.f] EXCEPT !.hashed = Append(@, h.c)]
    BY <2>3 DEF HandleChunk
  <2>5. \A x : [recv[h.f] EXCEPT !.hashed = x].hashed = x
               /\ [recv[h.f] EXCEPT !.hashed = x].digested = recv[h.f].digested
    BY <1>4, <2>1 DEF Hashing
  <2> HIDE DEF h
  <2> QED  BY <1>1, <1>2, <1>3, <1>4, <2>1, <2>3, <2>4, <2>5 DEF h
<1>6. CASE TakeFileComplete \/ FinalizeFails
  <2>1. h.t = "FILE_COMPLETE" /\ h.f \in Files
    BY <1>2, <1>6 DEF TakeFileComplete, FinalizeFails, TakeFrame, FrameSet
  <2>2. recv' = recv \/ recv' = [recv EXCEPT ![h.f] = DigestHex(recv[h.f])]
    BY <1>6 DEF TakeFileComplete, FinalizeFails, rTransfer
  <2>3. DigestHex(recv[h.f]).hashed = recv[h.f].hashed
    BY <1>4, <2>1 DEF DigestHex, Hashing
  <2>4. \A f \in Files : recv'[f].hashed = recv[f].hashed
    BY <1>1, <2>1, <2>2, <2>3
  <2> HIDE DEF h
  <2> QED  BY <1>1, <1>2, <1>3, <1>4, <2>1, <2>4 DEF h
<1>7. CASE TakeTransferComplete
  <2>1. h.t = "TRANSFER_COMPLETE" /\ recv' = recv
    BY <1>7 DEF TakeTransferComplete, TakeFrame, rTransfer
  <2> QED  BY <1>1, <1>2, <1>3, <1>4, <2>1
<1>8. CASE Faults /\ WriteFails
  <2>1. h.t = "CHUNK" /\ recv' = recv
    BY <1>8 DEF WriteFails, TakeFrame, receiverVars, rTransfer
  <2>2. h.f \in Files
    BY <1>2, <2>1 DEF FrameSet
  <2> QED  BY <1>1, <1>2, <1>3, <1>4, <1>8, <2>1, <2>2
<1> QED  BY <1>5, <1>6, <1>7, <1>8 DEF FrameTaken
-----------------------------------------------------------------------------
(* Chunks in ascending order                                               *)

\* The loop is past chunk c of file f.
Sent(runs, f, c) ==
  \A k \in DOMAIN runs :
    \/ runs[k].at \in {"done", "dead"}
    \/ f < runs[k].file
    \/ f = runs[k].file /\ (runs[k].at = "run" => c < runs[k].pump.chunk)

\* The loop is past what is queued or hashed.
AllSent ==
  /\ \A i \in DOMAIN frames : frames[i].t = "CHUNK" => Sent(loops, frames[i].f, frames[i].c)
  /\ \A f \in Files : \A j \in DOMAIN recv[f].hashed : Sent(loops, f, recv[f].hashed[j])

\* The queued chunks of a file ascend, ...
FramesAscend ==
  \A i, j \in DOMAIN frames :
    i < j /\ frames[i].t = "CHUNK" /\ frames[j].t = "CHUNK" /\ frames[i].f = frames[j].f =>
      frames[i].c < frames[j].c

\* ... so do the hashed ones, ...
HashedAscend ==
  \A f \in Files : \A i, j \in DOMAIN recv[f].hashed :
    i < j => recv[f].hashed[i] < recv[f].hashed[j]

\* ... and the queued ones come after those.
FramesBeyond ==
  \A i \in DOMAIN frames : frames[i].t = "CHUNK" =>
    \A j \in DOMAIN recv[frames[i].f].hashed : recv[frames[i].f].hashed[j] < frames[i].c

Orderly == AllSent /\ FramesAscend /\ HashedAscend /\ FramesBeyond

\* A loop that reads a chunk runs no other file then, and goes one chunk on.
LEMMA ReadMoves ==
  ASSUME NEW k \in DOMAIN loops, ChunkRead(k), loops[k] \in Loops
  PROVE  /\ loops'[k].at = "run" /\ loops'[k].file = loops[k].file
         /\ loops'[k].pump.chunk = loops[k].pump.chunk + 1
<1>1. loops'[k] = [loops[k] EXCEPT !.pump = AfterRead(loops[k].pump)] /\ loops[k].at = "run"
  BY DEF ChunkRead, SetPump, Running
<1>2. loops[k] \in LoopRecords /\ loops[k].pump \in Pumps
  BY DEF Loops, LoopRecords, FittingPumps
<1>3. AfterRead(loops[k].pump).chunk = loops[k].pump.chunk + 1
  BY <1>2 DEF AfterRead, Pumps
<1> QED  BY <1>1, <1>2, <1>3 DEF LoopRecords

\* Before the loop there is no frame and nothing is hashed; only HandleAccept starts it.
LEMMA BeforeTheLoop ==
  ASSUME MaxConns = 1, OneRun, [Next]_vars, loops = <<>>
  PROVE  frames' = <<>> /\ completed' = {} /\ \A f \in Files : recv'[f].hashed = <<>>
<1>1. frames = <<>> /\ completed = {} /\ \A f \in Files : recv[f].hashed = <<>>
  BY DEF OneRun, Turn, FromTheStart
<1>2. CASE SenderStep(HandleAccept)
  BY <1>1, <1>2 DEF SenderStep, HandleAccept, receiverVars, rTransfer
<1>3. CASE ~SenderStep(HandleAccept)
  BY <1>3, StartKept DEF OneRun
<1> QED  BY <1>2, <1>3

\* What holds of every step once there is a loop.
LEMMA InTheLoop ==
  ASSUME OneRun, [Next]_vars, loops # <<>>
  PROVE  /\ ~HandleAccept /\ DOMAIN loops' = DOMAIN loops
         /\ \A k \in DOMAIN loops : LoopPlace(k) /\ loops[k] \in Loops /\ loops'[k] \in Loops
                                    /\ loops[k].resume = [f \in Files |-> 0]
         /\ \A f \in Files : recv[f] \in Hashing /\ recv'[f] \in Hashing
         /\ \A f \in Files : recv[f].digested => recv'[f] = recv[f]
         /\ ~FrameTaken => RecvSame
<1>1. Types /\ Answering /\ Turn
  BY DEF OneRun
<1>2. ~HandleAccept
  <2>1. SUFFICES ASSUME HandleAccept PROVE FALSE
    OBVIOUS
  <2>2. ctlToSender # <<>> /\ Head(ctlToSender).t = "FILE_ACCEPT" /\ ctlToSender \in Seq(SenderControl)
    BY <1>1, <2>1 DEF HandleAccept, TakeControl, Types, ChannelTypes
  <2>3. AcceptOut
    BY <2>2, QueueOps DEF AcceptOut
  <2> QED  BY <1>1, <2>3 DEF Turn, InTurn, BeforeLoop
<1>3. ~SenderStep(HandleAccept)
  BY <1>2 DEF SenderStep
<1>4. loops \in Seq(Loops) /\ loops' \in Seq(Loops)
  BY <1>1, TypesStep DEF Types, SenderTypes
<1>5. FrameTaken \/ (\E k \in DOMAIN loops : LoopStep(k)) \/ Still
  BY <1>1, <1>3, FlowFootprint
<1>6. DOMAIN loops' = DOMAIN loops
  BY <1>1, <1>5, LoopsKeep
<1>7. \A f \in Files : /\ Accepted(f) /\ recv[f] \in Hashing /\ recv'[f] \in Hashing
                       /\ recv[f].digested => recv'[f] = recv[f]
  <2>1. \A f \in Files : Accepted(f)
    BY <1>1 DEF Turn, WholeQueue
  <2> QED  BY <1>1, <2>1, ReceiversGrow
<1>8. ~FrameTaken => RecvSame
  <2>1. CASE \E k \in DOMAIN loops : LoopStep(k)
    BY <2>1 DEF LoopStep, receiverVars, rTransfer, RecvSame
  <2>2. CASE Still
    BY <1>7, <2>2 DEF Still, Created
  <2> QED  BY <1>5, <2>1, <2>2
<1>9. \A k \in DOMAIN loops : LoopPlace(k)
  BY <1>1, <1>2, LoopPlaces
<1>10. \A k \in DOMAIN loops : loops[k] \in Loops /\ loops'[k] \in Loops
  BY <1>4, <1>6, QueueTypes
<1> QED  BY <1>1, <1>2, <1>6, <1>7, <1>8, <1>9, <1>10 DEF Turn, FromTheStart

\* A loop does not go back.
LEMMA SentStays ==
  ASSUME OneRun, [Next]_vars, loops # <<>>, NEW f \in Files, NEW c \in Chunks, Sent(loops, f, c)
  PROVE  Sent(loops', f, c)
<1>1. SUFFICES ASSUME NEW k \in DOMAIN loops
      PROVE  \/ loops'[k].at \in {"done", "dead"}
             \/ f < loops'[k].file
             \/ f = loops'[k].file /\ (loops'[k].at = "run" => c < loops'[k].pump.chunk)
  BY InTheLoop DEF Sent
<1>2. /\ LoopPlace(k) /\ loops[k].file \in Nat /\ f \in Nat /\ c \in Nat
      /\ loops[k].pump.chunk \in Nat
  BY InTheLoop, LinkConstants DEF Files, Loops, LoopRecords, Chunks, FittingPumps, Pumps
<1>3. \/ loops[k].at \in {"done", "dead"}
      \/ f < loops[k].file
      \/ f = loops[k].file /\ (loops[k].at = "run" => c < loops[k].pump.chunk)
  BY DEF Sent
<1>4. /\ NextFile(k) => loops[k].at = "next"
      /\ ChunkRead(k) => loops[k].at = "run"
      /\ PumpReturns(k) => loops[k].at = "run"
      /\ HistorySaved(k) => loops[k].at = "save"
  BY DEF NextFile, ChunkRead, PumpReturns, HistorySaved, Running
<1> QED  BY <1>2, <1>3, <1>4 DEF LoopPlace

\* Elements of a hash that one chunk may have been added to.
LEMMA HashedMoves ==
  ASSUME NEW s \in Seq(Chunks), NEW c \in Chunks
  PROVE  /\ \A j \in DOMAIN s : s[j] \in Chunks /\ s[j] \in ToSet(s)
         /\ DOMAIN s = 1..Len(s) /\ Len(s) \in Nat
         /\ DOMAIN Append(s, c) = 1..(Len(s) + 1) /\ Append(s, c)[Len(s) + 1] = c
         /\ Len(Append(s, c)) = Len(s) + 1
         /\ \A j \in DOMAIN s : Append(s, c)[j] = s[j]
BY QueueTypes, AppendProperties, LenProperties DEF ToSet

\* What a taken frame leaves in each hash: what was there, and its own chunk at most.
LEMMA TakenHash ==
  ASSUME OneRun, [Next]_vars, FrameTaken, NEW f \in Files
  PROVE  \A j \in DOMAIN recv'[f].hashed :
           \/ j \in DOMAIN recv[f].hashed /\ recv'[f].hashed[j] = recv[f].hashed[j]
           \/ /\ Head(frames).t = "CHUNK" /\ Head(frames).f = f
              /\ j = Len(recv[f].hashed) + 1 /\ recv'[f].hashed[j] = Head(frames).c
              /\ Head(frames).c \notin Held(recv[f])
<1> DEFINE h == Head(frames)
<1>1. /\ h \in FrameSet /\ recv[f].hashed \in Seq(Chunks)
      /\ ~(h.t = "CHUNK" /\ h.f = f) => recv'[f].hashed = recv[f].hashed
      /\ h.t = "CHUNK" /\ h.f = f =>
           \/ recv'[f].hashed = recv[f].hashed
           \/ h.c \notin Held(recv[f]) /\ recv'[f].hashed = Append(recv[f].hashed, h.c)
  BY TakenFrame DEF Hashing
<1>2. h.t = "CHUNK" => h.c \in Chunks
  BY <1>1 DEF FrameSet
<1> HIDE DEF h
<1>3. CASE recv'[f].hashed = recv[f].hashed
  BY <1>3
<1>4. CASE /\ h.t = "CHUNK" /\ h.f = f /\ h.c \notin Held(recv[f])
           /\ recv'[f].hashed = Append(recv[f].hashed, h.c)
  BY <1>1, <1>2, <1>4, HashedMoves DEF h
<1> QED  BY <1>1, <1>3, <1>4

\* A chunk is appended once the loop is past all that are queued or hashed, so the order stays.
LEMMA OrderlyStep ==
  ASSUME MaxConns = 1, OneRun, Orderly, [Next]_vars
  PROVE  Orderly'
<1>1. CASE loops = <<>>
  <2>1. frames' = <<>> /\ \A f \in Files : recv'[f].hashed = <<>>
    BY <1>1, BeforeTheLoop
  <2>2. DOMAIN <<>> = {}
    OBVIOUS
  <2> QED  BY <2>1, <2>2 DEF Orderly, AllSent, FramesAscend, HashedAscend, FramesBeyond
<1>2. CASE loops # <<>>
  <2>1. /\ frames \in Seq(FrameSet) /\ frames' \in Seq(FrameSet)
        /\ \A f \in Files : recv[f].hashed \in Seq(Chunks) /\ recv'[f].hashed \in Seq(Chunks)
        /\ \A m \in FrameSet : m.t = "CHUNK" => m.f \in Files /\ m.c \in Chunks
        /\ Chunks \subseteq Nat
    <3>1. \A f \in Files : recv[f] \in Hashing /\ recv'[f] \in Hashing
      BY <1>2, InTheLoop
    <3>2. Types /\ Types'
      BY TypesStep DEF OneRun
    <3> QED  BY <3>1, <3>2 DEF Types, ChannelTypes, Hashing, FrameSet, Chunks
  <2>2. \A i \in DOMAIN frames : frames[i] \in FrameSet
    BY <2>1, QueueTypes
  <2>3. \A f \in Files : \A j \in DOMAIN recv[f].hashed : recv[f].hashed[j] \in Chunks
    BY <2>1, QueueTypes
  <2>4. \A f \in Files, c \in Chunks : Sent(loops, f, c) => Sent(loops', f, c)
    BY <1>2, SentStays
  <2>5. CASE FramesStay /\ ~FrameTaken
    <3>1. recv' = recv
      BY <1>2, <2>5, InTheLoop DEF RecvSame
    <3>2. \A i \in DOMAIN frames' : i \in DOMAIN frames /\ frames'[i] = frames[i]
      BY <2>1, <2>5, QueueOps DEF FramesStay
    <3>3. AllSent'
      <4>1. ASSUME NEW i \in DOMAIN frames', frames'[i].t = "CHUNK"
            PROVE  Sent(loops', frames'[i].f, frames'[i].c)
        <5>1. frames[i].f \in Files /\ frames[i].c \in Chunks /\ Sent(loops, frames[i].f, frames[i].c)
          BY <2>1, <2>2, <3>2, <4>1 DEF Orderly, AllSent
        <5> QED  BY <2>4, <3>2, <5>1
      <4>2. ASSUME NEW f \in Files, NEW j \in DOMAIN recv'[f].hashed
            PROVE  Sent(loops', f, recv'[f].hashed[j])
        BY <2>3, <2>4, <3>1 DEF Orderly, AllSent
      <4> QED  BY <4>1, <4>2 DEF AllSent
    <3> QED  BY <3>1, <3>2, <3>3 DEF Orderly, FramesAscend, HashedAscend, FramesBeyond
  <2>6. CASE FrameTaken
    <3> DEFINE h == Head(frames)
    <3>1. /\ frames # <<>> /\ h = frames[1] /\ 1 \in DOMAIN frames /\ frames' = Tail(frames)
          /\ \A i \in DOMAIN frames' :
               i + 1 \in DOMAIN frames /\ frames'[i] = frames[i + 1] /\ i \in Nat /\ 1 < i + 1
      <4>1. frames # <<>> /\ frames' = Tail(frames)
        BY <2>6 DEF FrameTaken
      <4>2. DOMAIN frames' = 1..Len(frames')
        BY <2>1, QueueTypes
      <4> QED  BY <2>1, <4>1, <4>2, QueueOps
    <3>2. h.t = "CHUNK" => h.f \in Files /\ h.c \in Chunks /\ Sent(loops, h.f, h.c)
      BY <2>1, <2>2, <3>1 DEF Orderly, AllSent
    <3>3. \A f \in Files : \A j \in DOMAIN recv'[f].hashed :
            \/ j \in DOMAIN recv[f].hashed /\ recv'[f].hashed[j] = recv[f].hashed[j]
            \/ /\ h.t = "CHUNK" /\ h.f = f
               /\ j = Len(recv[f].hashed) + 1 /\ recv'[f].hashed[j] = h.c
      BY <2>6, TakenHash
    <3> HIDE DEF h
    <3>4. AllSent'
      <4>1. ASSUME NEW i \in DOMAIN frames', frames'[i].t = "CHUNK"
            PROVE  Sent(loops', frames'[i].f, frames'[i].c)
        <5>1. /\ frames[i + 1].f \in Files /\ frames[i + 1].c \in Chunks
              /\ Sent(loops, frames[i + 1].f, frames[i + 1].c)
          BY <2>1, <2>2, <3>1, <4>1 DEF Orderly, AllSent
        <5> QED  BY <2>4, <3>1, <5>1
      <4>2. ASSUME NEW f \in Files, NEW j \in DOMAIN recv'[f].hashed
            PROVE  Sent(loops', f, recv'[f].hashed[j])
        <5>1. recv'[f].hashed[j] \in Chunks /\ Sent(loops, f, recv'[f].hashed[j])
          BY <2>3, <3>2, <3>3 DEF Orderly, AllSent
        <5> QED  BY <2>4, <5>1
      <4> QED  BY <4>1, <4>2 DEF AllSent
    <3>5. FramesAscend'
      <4>1. \A i, j \in DOMAIN frames' : i < j => i + 1 < j + 1
        BY <3>1
      <4> QED  BY <3>1, <4>1 DEF Orderly, FramesAscend
    <3>6. HashedAscend'
      <4>1. SUFFICES ASSUME NEW f \in Files, NEW i \in DOMAIN recv'[f].hashed,
                            NEW j \in DOMAIN recv'[f].hashed, i < j
                     PROVE  recv'[f].hashed[i] < recv'[f].hashed[j]
        BY DEF HashedAscend
      <4>2. /\ DOMAIN recv[f].hashed = 1..Len(recv[f].hashed) /\ Len(recv[f].hashed) \in Nat
            /\ i \in Nat /\ j \in Nat /\ 1 <= i
        BY <2>1, QueueTypes
      <4>3. CASE j \in DOMAIN recv[f].hashed
        <5>1. i \in DOMAIN recv[f].hashed
          BY <4>1, <4>2, <4>3
        <5>2. i # Len(recv[f].hashed) + 1 /\ j # Len(recv[f].hashed) + 1
          BY <4>2, <4>3, <5>1
        <5> QED  BY <3>3, <4>1, <4>3, <5>1, <5>2 DEF Orderly, HashedAscend
      <4>4. CASE j \notin DOMAIN recv[f].hashed
        <5>1. h.t = "CHUNK" /\ h.f = f /\ j = Len(recv[f].hashed) + 1 /\ recv'[f].hashed[j] = h.c
          BY <3>3, <4>4
        <5>2. i \in DOMAIN recv[f].hashed /\ recv'[f].hashed[i] = recv[f].hashed[i]
          BY <3>3, <4>1, <4>2, <5>1
        <5> QED  BY <3>1, <5>1, <5>2 DEF Orderly, FramesBeyond
      <4> QED  BY <4>3, <4>4
    <3>7. FramesBeyond'
      <4>1. SUFFICES ASSUME NEW i \in DOMAIN frames', frames'[i].t = "CHUNK",
                            NEW j \in DOMAIN recv'[frames'[i].f].hashed
                     PROVE  recv'[frames'[i].f].hashed[j] < frames'[i].c
        BY DEF FramesBeyond
      <4>2. frames'[i] = frames[i + 1] /\ i + 1 \in DOMAIN frames /\ 1 < i + 1
        BY <3>1
      <4>3. frames'[i].f \in Files
        BY <2>1, <2>2, <4>1, <4>2
      <4> DEFINE f == frames'[i].f
                 n == i + 1
      <4>4. /\ f \in Files /\ n \in DOMAIN frames /\ 1 < n /\ 1 \in DOMAIN frames
            /\ frames[n].t = "CHUNK" /\ frames[n].f = f /\ frames'[i].c = frames[n].c
            /\ j \in DOMAIN recv'[f].hashed
        BY <3>1, <4>1, <4>2, <4>3
      <4> HIDE DEF f, n
      <4>5. CASE j \in DOMAIN recv[f].hashed /\ recv'[f].hashed[j] = recv[f].hashed[j]
        <5>1. recv[f].hashed[j] < frames[n].c
          BY <4>4, <4>5 DEF Orderly, FramesBeyond
        <5> QED  BY <4>4, <4>5, <5>1 DEF f
      <4>6. CASE h.t = "CHUNK" /\ h.f = f /\ recv'[f].hashed[j] = h.c
        <5>1. frames[1].c < frames[n].c
          BY <3>1, <4>4, <4>6 DEF Orderly, FramesAscend
        <5> QED  BY <3>1, <4>4, <4>6, <5>1 DEF f
      <4> QED  BY <3>3, <4>4, <4>5, <4>6
    <3> QED  BY <3>4, <3>5, <3>6, <3>7 DEF Orderly
  <2>7. ASSUME NEW k \in DOMAIN loops, NEW m \in FrameSet, LoopStep(k), Sends(k, m),
               frames' = Append(frames, m)
        PROVE  Orderly'
    <3>1. recv' = recv
      BY <2>7 DEF LoopStep, receiverVars, rTransfer
    <3>2. /\ \A i \in DOMAIN frames' :
               \/ i \in DOMAIN frames /\ frames'[i] = frames[i]
               \/ i = Len(frames) + 1 /\ frames'[i] = m
          /\ DOMAIN frames = 1..Len(frames) /\ Len(frames) \in Nat
      BY <2>1, <2>7, QueueOps
    <3>3. ASSUME m.t = "CHUNK"
          PROVE  /\ Running(k) /\ m.f = loops[k].file /\ m.c = loops[k].pump.chunk
                 /\ m.f \in Files /\ m.c \in Chunks
                 /\ loops[k].at = "run" /\ m.f \in Nat /\ m.c \in Nat
                 /\ ChunkRead(k)
      <4>1. ChunkRead(k) /\ m = Chunk(loops[k].file, loops[k].pump.chunk)
        BY <2>7, <3>3 DEF Sends
      <4> QED  BY <2>1, <3>3, <4>1 DEF ChunkRead, Chunk, Running, Files, Chunks
    <3>4. ASSUME m.t = "CHUNK", NEW c \in Chunks, Sent(loops, m.f, c) PROVE c < m.c
      BY <3>3, <3>4 DEF Sent
    <3>5. AllSent'
      <4>1. ASSUME NEW i \in DOMAIN frames', frames'[i].t = "CHUNK"
            PROVE  Sent(loops', frames'[i].f, frames'[i].c)
        <5>1. CASE i \in DOMAIN frames /\ frames'[i] = frames[i]
          <6>1. frames[i].f \in Files /\ frames[i].c \in Chunks /\ Sent(loops, frames[i].f, frames[i].c)
            BY <2>1, <2>2, <4>1, <5>1 DEF Orderly, AllSent
          <6> QED  BY <2>4, <5>1, <6>1
        <5>2. CASE frames'[i] = m
          <6>1. DOMAIN loops' = DOMAIN loops /\ LoopPlace(k) /\ loops \in Seq(Loops)
                /\ Len(loops) <= 1
            BY <1>2, InTheLoop DEF OneRun, Types, SenderTypes, Turn, OnlyOnce
          <6>2. DOMAIN loops = 1..Len(loops) /\ Len(loops) \in Nat
            BY <6>1, QueueTypes
          <6>3. \A n \in DOMAIN loops : n = k
            BY <6>1, <6>2
          <6>4. loops'[k].file = m.f /\ loops'[k].at = "run" /\ loops'[k].pump.chunk = m.c + 1
            BY <1>2, <3>3, <4>1, <5>2, InTheLoop, ReadMoves
          <6> QED  BY <3>3, <4>1, <5>2, <6>1, <6>3, <6>4 DEF Sent
        <5> QED  BY <3>2, <5>1, <5>2
      <4>2. ASSUME NEW f \in Files, NEW j \in DOMAIN recv'[f].hashed
            PROVE  Sent(loops', f, recv'[f].hashed[j])
        BY <2>3, <2>4, <3>1 DEF Orderly, AllSent
      <4> QED  BY <4>1, <4>2 DEF AllSent
    <3>6. FramesAscend'
      <4>1. SUFFICES ASSUME NEW i \in DOMAIN frames', NEW j \in DOMAIN frames', i < j,
                            frames'[i].t = "CHUNK", frames'[j].t = "CHUNK",
                            frames'[i].f = frames'[j].f
                     PROVE  frames'[i].c < frames'[j].c
        BY DEF FramesAscend
      <4>2. i \in DOMAIN frames /\ frames'[i] = frames[i]
        <5>1. DOMAIN frames' = 1..(Len(frames) + 1)
          BY <2>1, <2>7, <3>2, AppendProperties
        <5>2. i # Len(frames) + 1
          BY <3>2, <4>1, <5>1
        <5> QED  BY <3>2, <5>2
      <4>3. CASE j \in DOMAIN frames /\ frames'[j] = frames[j]
        BY <4>1, <4>2, <4>3 DEF Orderly, FramesAscend
      <4>4. CASE frames'[j] = m
        BY <2>1, <2>2, <3>4, <4>1, <4>2, <4>4 DEF Orderly, AllSent
      <4> QED  BY <3>2, <4>3, <4>4
    <3>7. FramesBeyond'
      <4>1. SUFFICES ASSUME NEW i \in DOMAIN frames', frames'[i].t = "CHUNK",
                            NEW j \in DOMAIN recv[frames'[i].f].hashed
                     PROVE  recv[frames'[i].f].hashed[j] < frames'[i].c
        BY <3>1 DEF FramesBeyond
      <4>2. CASE i \in DOMAIN frames /\ frames'[i] = frames[i]
        BY <4>1, <4>2 DEF Orderly, FramesBeyond
      <4>3. CASE frames'[i] = m
        BY <2>3, <3>3, <3>4, <4>1, <4>3 DEF Orderly, AllSent
      <4> QED  BY <3>2, <4>2, <4>3
    <3> QED  BY <3>1, <3>5, <3>6, <3>7 DEF Orderly, HashedAscend
  <2>8. Types /\ Answering
    BY DEF OneRun
  <2> QED  BY <2>5, <2>6, <2>7, <2>8, QueueMoves
<1> QED  BY <1>1, <1>2
-----------------------------------------------------------------------------
(* Chunks without a hole                                                   *)

\* The hashed chunks of a file are the first ones, none left out.
Counted == \A f \in Files : \A j \in DOMAIN recv[f].hashed : recv[f].hashed[j] = j - 1

\* Chunk c of file f is the next to be hashed, or the one before it is in the queue, in
\* front of position n.
Follows(f, c, n) ==
  \/ c = Len(recv[f].hashed)
  \/ \E j \in DOMAIN frames : j < n /\ frames[j] = Chunk(f, c - 1)

\* The chunk of a frame, and the end of its file for FILE_COMPLETE.
Reach(m) == IF m.t = "CHUNK" THEN m.c ELSE NumChunks

\* What is queued continues what is hashed, ...
FramesFollow ==
  \A i \in DOMAIN frames : frames[i].t # "TRANSFER_COMPLETE" /\ ~recv[frames[i].f].digested =>
    Follows(frames[i].f, Reach(frames[i]), i)

\* ... and the loop continues what is queued.
LoopFollows ==
  \A k \in DOMAIN loops : Running(k) /\ up # 0 /\ ~recv[loops[k].file].digested =>
    Follows(loops[k].file, loops[k].pump.chunk, Len(frames) + 1)

NoneMissing == Undisturbed => Counted /\ FramesFollow /\ LoopFollows

\* Once there is a loop, no other connection opens.
LEMMA StaysUp ==
  ASSUME MaxConns = 1, OneRun, [Next]_vars, loops # <<>>, up' # 0
  PROVE  up' = up /\ up = sPeer
<1>1. /\ Types /\ LinkOrder /\ opened # 0
      /\ up \in Nat /\ opened \in Nat /\ sPeer \in 0..MaxConns
  BY DEF OneRun, Turn, InTurn, BeforeLoop, BeforeAccept, BeforeAnswer, BeforeDialog, Types,
     ChannelTypes, SenderTypes
<1>2. ~ChannelsReady
  BY <1>1 DEF ChannelsReady
<1>3. up' = up
  BY <1>1, <1>2, LinkFootprint DEF LinkSame, LinkCut, BeginHandshake, AttemptReconnect,
     CutLink, linkVars, channelVars
<1> QED  BY <1>1, <1>3 DEF LinkOrder

\* A file whose turn in the loop has not come has nothing hashed.
LEMMA NextIsEmpty ==
  ASSUME OneRun, Orderly, [Next]_vars, NEW k \in DOMAIN loops, NextFile(k), loops[k].file + 1 \in Files
  PROVE  recv[loops[k].file + 1].hashed = <<>>
<1> DEFINE f == loops[k].file + 1
<1>1. loops[k].at = "next" /\ loops # <<>>
  BY EmptySeq DEF NextFile
<1>2. recv[f].hashed \in Seq(Chunks) /\ loops[k].file \in Nat
  <2>1. loops[k] \in Loops /\ recv[f] \in Hashing
    BY <1>1, InTheLoop
  <2> QED  BY <2>1 DEF Hashing, Loops, LoopRecords
<1>3. SUFFICES ASSUME recv[f].hashed # <<>> PROVE FALSE
  OBVIOUS
<1>4. 1 \in DOMAIN recv[f].hashed
  BY <1>2, <1>3, QueueOps
<1>5. Sent(loops, f, recv[f].hashed[1])
  BY <1>4 DEF Orderly, AllSent
<1> QED  BY <1>1, <1>2, <1>5 DEF Sent

\* What the queue's head, if it is a chunk, does to a file whose digest is not taken.
LEMMA HeadIsNext ==
  ASSUME MaxConns = 1, OneRun, Orderly, NoneMissing, [Next]_vars, Undisturbed, ~Faults, FrameTaken,
         NEW f \in Files, ~recv[f].digested
  PROVE  LET h == Head(frames) IN
         \/ /\ h.t = "CHUNK" /\ h.f = f /\ h.c = Len(recv[f].hashed)
            /\ recv'[f].hashed = Append(recv[f].hashed, h.c)
            /\ Len(recv'[f].hashed) = h.c + 1
         \/ /\ ~(h.t = "CHUNK" /\ h.f = f)
            /\ recv'[f].hashed = recv[f].hashed
<1> DEFINE h == Head(frames)
<1>1. CASE ~(h.t = "CHUNK" /\ h.f = f)
  BY <1>1, TakenFrame
<1>2. CASE h.t = "CHUNK" /\ h.f = f
  <2>1. /\ h \in FrameSet /\ recv[f].hashed \in Seq(Chunks)
        /\ \/ h.c \in Held(recv[f])
           \/ recv'[f].hashed = Append(recv[f].hashed, h.c)
    BY <1>2, TakenFrame DEF Hashing
  <2>2. 1 \in DOMAIN frames /\ h = frames[1] /\ DOMAIN frames = 1..Len(frames)
    <3>1. frames \in Seq(FrameSet) /\ frames # <<>>
      BY TakenFrame DEF OneRun, Types, ChannelTypes
    <3> QED  BY <3>1, QueueOps
  <2> HIDE DEF h
  <2>3. h.c \in Chunks /\ \A j \in DOMAIN recv[f].hashed : recv[f].hashed[j] < h.c
    BY <1>2, <2>1, <2>2 DEF Orderly, FramesBeyond, FrameSet
  <2>4. h.c \notin Held(recv[f])
    <3>1. Held(recv[f]) = {recv[f].hashed[j] : j \in DOMAIN recv[f].hashed}
      BY DEF Held, ToSet
    <3> QED  BY <2>3, <3>1 DEF Chunks
  <2>5. h.c = Len(recv[f].hashed)
    BY <1>2, <2>2 DEF NoneMissing, FramesFollow, Follows, Reach
  <2>6. Len(Append(recv[f].hashed, h.c)) = Len(recv[f].hashed) + 1
    BY <2>1, <2>3, HashedMoves
  <2> QED  BY <1>2, <2>1, <2>4, <2>5, <2>6 DEF h
<1> QED  BY <1>1, <1>2

\* The loop's next chunk still follows when the receivers and the queue keep what they hold.
LEMMA LoopFollowsKept ==
  ASSUME MaxConns = 1, OneRun, Orderly, LoopFollows, [Next]_vars, loops # <<>>, recv' = recv,
         up' # 0 => \A j \in DOMAIN frames : j \in DOMAIN frames' /\ frames'[j] = frames[j]
  PROVE  LoopFollows'
<1>1. SUFFICES ASSUME NEW k \in DOMAIN loops, loops'[k].at = "run", up' # 0,
                      ~recv[loops'[k].file].digested
               PROVE  \/ loops'[k].pump.chunk = Len(recv[loops'[k].file].hashed)
                      \/ \E j \in DOMAIN frames' :
                            /\ j < Len(frames') + 1
                            /\ frames'[j] = Chunk(loops'[k].file, loops'[k].pump.chunk - 1)
  BY InTheLoop DEF LoopFollows, Follows, Running
<1>2. /\ LoopPlace(k) /\ loops[k] \in Loops /\ loops'[k] \in Loops
      /\ loops[k].resume = [f \in Files |-> 0]
  BY InTheLoop
<1>3. up # 0 /\ up = sPeer
  BY <1>1, StaysUp
<1>4. /\ frames \in Seq(FrameSet) /\ frames' \in Seq(FrameSet)
      /\ DOMAIN frames = 1..Len(frames) /\ Len(frames) \in Nat
      /\ DOMAIN frames' = 1..Len(frames') /\ Len(frames') \in Nat
  <2>1. frames \in Seq(FrameSet) /\ frames' \in Seq(FrameSet)
    BY TypesStep DEF OneRun, Types, ChannelTypes
  <2> QED  BY <2>1, QueueTypes
<1>5. \A j \in DOMAIN frames' : j < Len(frames') + 1
  BY <1>4
<1>6. CASE loops'[k].at = loops[k].at /\ loops'[k].file = loops[k].file
           /\ loops'[k].pump.chunk = loops[k].pump.chunk
  BY <1>1, <1>3, <1>5, <1>6 DEF LoopFollows, Follows, Running
<1>7. CASE ChunkRead(k)
  <2> DEFINE m == Chunk(loops[k].file, loops[k].pump.chunk)
  <2>1. /\ loops'[k].file = loops[k].file /\ loops'[k].pump.chunk = loops[k].pump.chunk + 1
        /\ loops[k].pump.chunk \in Nat
    BY <1>2, <1>7, ReadMoves DEF Loops, LoopRecords, FittingPumps, Pumps
  <2>2. frames' = frames \o <<m>>
    BY <1>3, <1>7 DEF ChunkRead, PostFrames, Post, Chunk
  <2>3. Len(frames) + 1 \in DOMAIN frames' /\ frames'[Len(frames) + 1] = m
    <3>1. <<m>> \in Seq({m}) /\ Len(<<m>>) = 1 /\ <<m>>[1] = m
      OBVIOUS
    <3>2. frames \in Seq(FrameSet \cup {m}) /\ <<m>> \in Seq(FrameSet \cup {m})
      BY <1>4, <3>1
    <3> HIDE DEF m
    <3> QED  BY <1>4, <2>2, <3>1, <3>2, ConcatProperties
  <2>4. loops'[k].pump.chunk - 1 = loops[k].pump.chunk
    BY <2>1
  <2> QED  BY <1>5, <2>1, <2>3, <2>4
<1>8. CASE NextFile(k) /\ loops'[k].file = loops[k].file + 1
           /\ loops'[k].pump.chunk = loops[k].resume[loops[k].file + 1]
  <2>1. loops[k].file + 1 \in Files
    BY <1>1, <1>2, <1>8 DEF Loops
  <2>2. recv[loops'[k].file].hashed = <<>>
    BY <1>8, <2>1, NextIsEmpty
  <2>3. loops'[k].pump.chunk = 0
    BY <1>2, <1>8, <2>1
  <2> QED  BY <2>2, <2>3
<1> QED  BY <1>1, <1>2, <1>6, <1>7, <1>8 DEF LoopPlace

\* A chunk is appended when the one before it was, and hashed when it is the next.
LEMMA NoneMissingStep ==
  ASSUME MaxConns = 1, OneRun, Orderly, NoneMissing, [Next]_vars
  PROVE  NoneMissing'
<1>1. SUFFICES ASSUME Undisturbed' PROVE Counted' /\ FramesFollow' /\ LoopFollows'
  BY DEF NoneMissing
<1>2. Undisturbed /\ ~Faults /\ Counted /\ FramesFollow /\ LoopFollows
  BY <1>1, UpsetsSpent DEF OneRun, NoneMissing
<1>3. CASE loops = <<>>
  <2>1. frames' = <<>> /\ \A f \in Files : recv'[f].hashed = <<>>
    BY <1>3, BeforeTheLoop
  <2>2. \A k \in DOMAIN loops' : loops'[k].at # "run"
    <3>1. CASE SenderStep(HandleAccept)
      <4> DEFINE l == Loop(Head(ctlToSender).resume, Head(ctlToSender).known)
      <4>1. loops' = Append(<<>>, l)
        BY <1>3, <3>1 DEF SenderStep, HandleAccept
      <4>2. l.at = "next"
        BY DEF Loop
      <4> HIDE DEF l
      <4> QED  BY <4>1, <4>2
    <3>2. CASE ~SenderStep(HandleAccept)
      <4>1. loops' = <<>>
        BY <1>3, <3>2, StartKept DEF OneRun
      <4> QED  BY <4>1
    <3> QED  BY <3>1, <3>2
  <2>3. DOMAIN <<>> = {}
    OBVIOUS
  <2> QED  BY <2>1, <2>2, <2>3 DEF Counted, FramesFollow, LoopFollows, Running
<1>4. CASE loops # <<>>
  <2>1. /\ frames \in Seq(FrameSet) /\ frames' \in Seq(FrameSet)
        /\ DOMAIN frames = 1..Len(frames) /\ Len(frames) \in Nat
        /\ DOMAIN frames' = 1..Len(frames') /\ Len(frames') \in Nat
    <3>1. frames \in Seq(FrameSet) /\ frames' \in Seq(FrameSet)
      BY TypesStep DEF OneRun, Types, ChannelTypes
    <3> QED  BY <3>1, QueueTypes
  <2>2. /\ \A m \in FrameSet : m.t # "TRANSFER_COMPLETE" => m.f \in Files /\ Reach(m) \in Nat
        /\ \A m \in FrameSet : m.t = "CHUNK" => m.c \in Nat /\ m.c < NumChunks
    BY LinkConstants DEF FrameSet, Reach, Chunks
  <2>3. CASE FramesStay /\ ~FrameTaken
    <3>1. recv' = recv
      BY <1>4, <2>3, InTheLoop DEF RecvSame
    <3>2. \A i \in DOMAIN frames' : i \in DOMAIN frames /\ frames'[i] = frames[i]
      <4>1. frames \in Seq(FrameSet)
        BY <2>1
      <4> QED  BY <2>3, <4>1, QueueOps DEF FramesStay
    <3>3. \A i \in DOMAIN frames' : \A j \in DOMAIN frames : j < i => j \in DOMAIN frames'
      BY <2>1
    <3>4. FramesFollow'
      BY <1>2, <3>1, <3>2, <3>3 DEF FramesFollow, Follows
    <3>5. LoopFollows'
      BY <1>2, <1>4, <2>3, <3>1, LoopFollowsKept DEF FramesStay
    <3> QED  BY <1>2, <3>1, <3>4, <3>5 DEF Counted
  <2>4. CASE FrameTaken
    <3> DEFINE h == Head(frames)
    <3>1. /\ frames # <<>> /\ h = frames[1] /\ 1 \in DOMAIN frames /\ frames' = Tail(frames)
          /\ loops' = loops /\ up' = up
      <4>1. frames \in Seq(FrameSet)
        BY <2>1
      <4>2. frames # <<>> /\ frames' = Tail(frames) /\ loops' = loops /\ up' = up
        BY <2>4, TakenFrame
      <4> QED  BY <4>1, <4>2, QueueOps
    <3>2. /\ \A i \in DOMAIN frames' :
               i + 1 \in DOMAIN frames /\ frames'[i] = frames[i + 1] /\ i \in Nat /\ 1 < i + 1
          /\ \A j \in DOMAIN frames : j # 1 => j - 1 \in DOMAIN frames' /\ frames'[j - 1] = frames[j]
      <4>1. /\ \A i \in DOMAIN Tail(frames) : i + 1 \in DOMAIN frames /\ Tail(frames)[i] = frames[i + 1]
            /\ \A j \in DOMAIN frames : j # 1 => j - 1 \in DOMAIN Tail(frames)
                                                 /\ Tail(frames)[j - 1] = frames[j]
        <5>1. frames \in Seq(FrameSet)
          BY <2>1
        <5> QED  BY <3>1, <5>1, QueueOps
      <4>2. \A i \in DOMAIN frames' : i \in Nat /\ 1 < i + 1
        BY <2>1
      <4> QED  BY <3>1, <4>1, <4>2
    <3>3. \A f \in Files : ~recv[f].digested =>
            \/ /\ h.t = "CHUNK" /\ h.f = f /\ h.c = Len(recv[f].hashed)
               /\ recv'[f].hashed = Append(recv[f].hashed, h.c)
               /\ Len(recv'[f].hashed) = h.c + 1
            \/ /\ ~(h.t = "CHUNK" /\ h.f = f)
               /\ recv'[f].hashed = recv[f].hashed
      BY <1>2, <2>4, HeadIsNext
    <3>4. h \in FrameSet
      BY <2>4, TakenFrame
    <3> HIDE DEF h
    <3>5. \A f \in Files : recv[f].digested => recv'[f] = recv[f]
      BY <1>4, InTheLoop
    \* what followed chunk h, or a chunk behind it, still does
    <3>6. ASSUME NEW f \in Files, NEW c \in Nat, NEW n \in Nat, ~recv'[f].digested,
                 Follows(f, c, n), h.t = "CHUNK" /\ h.f = f => h.c < c
          PROVE  \/ c = Len(recv'[f].hashed)
                 \/ \E j \in DOMAIN frames' : j < n - 1 /\ frames'[j] = Chunk(f, c - 1)
      <4>1. ~recv[f].digested
        BY <3>5, <3>6
      <4>2. CASE c = Len(recv[f].hashed)
        BY <3>3, <3>6, <4>1, <4>2
      <4>3. ASSUME NEW j \in DOMAIN frames, j < n, frames[j] = Chunk(f, c - 1), j # 1
            PROVE  \E i \in DOMAIN frames' : i < n - 1 /\ frames'[i] = Chunk(f, c - 1)
        <5>1. j - 1 \in DOMAIN frames' /\ frames'[j - 1] = frames[j]
          BY <3>2, <4>3
        <5>2. j - 1 < n - 1
          BY <2>1, <3>6, <4>3
        <5> QED  BY <4>3, <5>1, <5>2
      <4>4. CASE h = Chunk(f, c - 1)
        <5>1. h.t = "CHUNK" /\ h.f = f /\ h.c = c - 1
          BY <4>4 DEF Chunk
        <5> QED  BY <3>3, <3>6, <4>1, <5>1
      <4> QED  BY <3>1, <3>6, <4>2, <4>3, <4>4 DEF Follows
    <3>7. Counted'
      <4>1. SUFFICES ASSUME NEW f \in Files, NEW j \in DOMAIN recv'[f].hashed
                     PROVE  recv'[f].hashed[j] = j - 1
        BY DEF Counted
      <4>2. CASE recv'[f].hashed = recv[f].hashed
        BY <1>2, <4>1, <4>2 DEF Counted
      <4>3. CASE ~recv[f].digested /\ recv'[f].hashed # recv[f].hashed
        <5>1. h.c = Len(recv[f].hashed)
          BY <3>3, <4>3
        <5>2. \/ j \in DOMAIN recv[f].hashed /\ recv'[f].hashed[j] = recv[f].hashed[j]
              \/ j = Len(recv[f].hashed) + 1 /\ recv'[f].hashed[j] = h.c
          BY <2>4, <4>1, TakenHash DEF h
        <5>3. Len(recv[f].hashed) \in Nat
          <6>1. recv[f] \in Hashing
            BY <1>4, InTheLoop
          <6> QED  BY <6>1, LenProperties DEF Hashing
        <5> QED  BY <1>2, <5>1, <5>2, <5>3 DEF Counted
      <4> QED  BY <3>5, <4>2, <4>3
    <3>8. FramesFollow'
      <4>1. SUFFICES ASSUME NEW i \in DOMAIN frames', frames'[i].t # "TRANSFER_COMPLETE",
                            ~recv'[frames'[i].f].digested
                     PROVE  \/ Reach(frames'[i]) = Len(recv'[frames'[i].f].hashed)
                            \/ \E j \in DOMAIN frames' :
                                 /\ j < i
                                 /\ frames'[j] = Chunk(frames'[i].f, Reach(frames'[i]) - 1)
        BY DEF FramesFollow, Follows, Reach
      <4> DEFINE n == i + 1
                 f == frames[n].f
                 c == Reach(frames[n])
      <4>2. /\ n \in DOMAIN frames /\ frames'[i] = frames[n] /\ n \in Nat /\ 1 < n
            /\ frames[n].t # "TRANSFER_COMPLETE" /\ n - 1 = i
        BY <3>2, <4>1
      <4>3. f \in Files /\ c \in Nat
        <5>1. frames[n] \in FrameSet /\ frames[n].t # "TRANSFER_COMPLETE"
          BY <2>1, <4>2, QueueTypes
        <5> HIDE DEF n
        <5> QED  BY <2>2, <5>1
      <4>4. ~recv'[f].digested /\ ~recv[f].digested
        BY <3>5, <4>1, <4>2, <4>3
      <4>5. Follows(f, c, n)
        BY <1>2, <4>2, <4>4 DEF FramesFollow
      <4>6. h.t = "CHUNK" /\ h.f = f => h.c < c
        <5>1. CASE frames[n].t = "CHUNK"
          BY <3>1, <4>2, <5>1 DEF Orderly, FramesAscend, Reach
        <5>2. CASE frames[n].t # "CHUNK"
          BY <2>2, <3>4, <5>2 DEF Reach
        <5> QED  BY <5>1, <5>2
      <4>7. \/ c = Len(recv'[f].hashed)
            \/ \E j \in DOMAIN frames' : j < n - 1 /\ frames'[j] = Chunk(f, c - 1)
        <5> HIDE DEF f, c, n
        <5> QED  BY <3>6, <4>2, <4>3, <4>4, <4>5, <4>6
      <4> QED  BY <4>2, <4>7
    <3>9. LoopFollows'
      <4>1. SUFFICES ASSUME NEW k \in DOMAIN loops, loops[k].at = "run", up # 0,
                            ~recv'[loops[k].file].digested
                     PROVE  \/ loops[k].pump.chunk = Len(recv'[loops[k].file].hashed)
                            \/ \E j \in DOMAIN frames' :
                                 /\ j < Len(frames') + 1
                                 /\ frames'[j] = Chunk(loops[k].file, loops[k].pump.chunk - 1)
        BY <3>1 DEF LoopFollows, Follows, Running
      <4> DEFINE f == loops[k].file
                 c == loops[k].pump.chunk
                 n == Len(frames) + 1
      <4>2. f \in Files /\ c \in Nat /\ n \in Nat
        <5>1. loops[k] \in Loops
          BY <1>4, InTheLoop
        <5> QED  BY <2>1, <4>1, <5>1 DEF Loops, LoopRecords, FittingPumps, Pumps
      <4>3. ~recv'[f].digested /\ ~recv[f].digested
        BY <3>5, <4>1, <4>2
      <4>4. Follows(f, c, n)
        BY <1>2, <4>1, <4>3 DEF LoopFollows, Running
      <4>5. h.t = "CHUNK" /\ h.f = f => h.c < c
        <5>1. ASSUME h.t = "CHUNK", h.f = f PROVE h.c < c
          <6>1. Sent(loops, f, h.c)
            BY <3>1, <5>1 DEF Orderly, AllSent
          <6> QED  BY <4>1, <4>2, <6>1 DEF Sent, Files
        <5> QED  BY <5>1
      <4>6. \/ c = Len(recv'[f].hashed)
            \/ \E j \in DOMAIN frames' : j < n - 1 /\ frames'[j] = Chunk(f, c - 1)
        <5> HIDE DEF f, c, n
        <5> QED  BY <3>6, <4>2, <4>3, <4>4, <4>5
      <4>7. \A j \in DOMAIN frames' : j < Len(frames') + 1
        BY <2>1
      <4> QED  BY <4>6, <4>7
    <3> QED  BY <3>7, <3>8, <3>9
  <2>5. ASSUME NEW k \in DOMAIN loops, NEW m \in FrameSet, LoopStep(k), Sends(k, m), up # 0,
               frames' = Append(frames, m)
        PROVE  Counted' /\ FramesFollow' /\ LoopFollows'
    <3>1. recv' = recv
      BY <2>5 DEF LoopStep, receiverVars, rTransfer
    <3>2. /\ \A i \in DOMAIN frames' :
               \/ i \in DOMAIN frames /\ frames'[i] = frames[i]
               \/ i = Len(frames) + 1 /\ frames'[i] = m
          /\ \A j \in DOMAIN frames : j \in DOMAIN frames' /\ frames'[j] = frames[j]
      BY <2>1, <2>5, QueueOps
    <3>3. FramesFollow'
      <4>1. SUFFICES ASSUME NEW i \in DOMAIN frames', frames'[i].t # "TRANSFER_COMPLETE",
                            ~recv[frames'[i].f].digested
                     PROVE  \/ Reach(frames'[i]) = Len(recv[frames'[i].f].hashed)
                            \/ \E j \in DOMAIN frames' :
                                 /\ j < i
                                 /\ frames'[j] = Chunk(frames'[i].f, Reach(frames'[i]) - 1)
        BY <3>1 DEF FramesFollow, Follows, Reach
      <4>2. CASE i \in DOMAIN frames /\ frames'[i] = frames[i]
        BY <1>2, <3>2, <4>1, <4>2 DEF FramesFollow, Follows
      <4>3. CASE i = Len(frames) + 1 /\ frames'[i] = m
        <5>1. \/ ChunkRead(k) /\ m = Chunk(loops[k].file, loops[k].pump.chunk)
              \/ PumpReturns(k) /\ m = [t |-> "FILE_COMPLETE", f |-> loops[k].file]
          BY <2>5, <4>1, <4>3 DEF Sends
        <5>2. Running(k) /\ m.f = loops[k].file /\ Reach(m) = loops[k].pump.chunk
          <6>1. CASE ChunkRead(k) /\ m = Chunk(loops[k].file, loops[k].pump.chunk)
            BY <6>1 DEF ChunkRead, Chunk, Reach
          <6>2. CASE PumpReturns(k) /\ m = [t |-> "FILE_COMPLETE", f |-> loops[k].file]
            <7>1. loops[k].pump \in FittingPumps
              <8>1. loops[k] \in Loops
                BY <1>4, InTheLoop
              <8> QED  BY <8>1 DEF Loops, LoopRecords
            <7>2. loops[k].pump.at = "completed"
              <8>1. frames' # frames
                <9>1. frames \in Seq(FrameSet)
                  BY <2>1
                <9>2. Len(frames) + 1 \in DOMAIN frames'
                  BY <2>5, <9>1, QueueOps
                <9> QED  BY <2>1, <9>2
              <8> QED  BY <6>2, <8>1 DEF PumpReturns, Over
            <7> QED  BY <6>2, <7>1, <7>2 DEF PumpReturns, Reach, FittingPumps
          <6> QED  BY <5>1, <6>1, <6>2
        <5>3. Follows(loops[k].file, loops[k].pump.chunk, Len(frames) + 1)
          BY <1>2, <2>5, <4>1, <4>3, <5>2 DEF LoopFollows
        <5> QED  BY <3>2, <4>3, <5>2, <5>3 DEF Follows
      <4> QED  BY <3>2, <4>2, <4>3
    <3>4. LoopFollows'
      BY <1>2, <1>4, <3>1, <3>2, LoopFollowsKept
    <3> QED  BY <1>2, <3>1, <3>3, <3>4 DEF Counted
  <2>6. Types /\ Answering
    BY DEF OneRun
  <2> QED  BY <2>3, <2>4, <2>5, <2>6, QueueMoves
<1> QED  BY <1>3, <1>4

\* Over one connection the chunks go in order and, undisturbed, without a hole.
LEMMA InOrderHolds == ASSUME MaxConns = 1 PROVE Spec => [](OneRun /\ Orderly /\ NoneMissing)
<1>1. Init => Orderly /\ NoneMissing
  <2>1. Init => /\ frames = <<>> /\ loops = <<>> /\ \A f \in Files : recv[f].hashed = <<>>
    BY DEF Init, LinkInit, SenderInit, ReceiverInit, None
  <2>2. DOMAIN <<>> = {}
    OBVIOUS
  <2> QED  BY <2>1, <2>2 DEF Orderly, AllSent, FramesAscend, HashedAscend, FramesBeyond,
              NoneMissing, Counted, FramesFollow, LoopFollows
<1>2. OneRun /\ Orderly /\ NoneMissing /\ [Next]_vars => Orderly' /\ NoneMissing'
  BY OrderlyStep, NoneMissingStep, MaxConns = 1
<1> QED  BY <1>1, <1>2, OneRunHolds, MaxConns = 1, PTL DEF Spec

\* Over one connection, with losses, stalls and any number of files and chunks, the running
\* hash of a file takes its chunks in ascending order, and takes 0, 1, 2, ... as long as
\* nothing was upset.
THEOREM HashedInOrderHolds == ASSUME MaxConns = 1 PROVE Spec => []HashedInOrder
<1>1. OneRun /\ Orderly /\ NoneMissing => HashedInOrder
  <2>1. SUFFICES ASSUME OneRun, Orderly, NoneMissing, NEW f \in Files, Accepted(f),
                        NEW j \in DOMAIN recv[f].hashed
                 PROVE  IF Undisturbed THEN recv[f].hashed[j] = j - 1
                        ELSE j > 1 => recv[f].hashed[j - 1] < recv[f].hashed[j]
    BY DEF HashedInOrder
  <2>2. recv[f].hashed \in Seq(Chunks)
    BY <2>1, SomeReceiver DEF OneRun, Types, ReceiverTypes, Accepted, Hashing
  <2>3. /\ DOMAIN recv[f].hashed = 1..Len(recv[f].hashed) /\ Len(recv[f].hashed) \in Nat
    BY <2>2, QueueTypes
  <2>4. j > 1 => j - 1 \in DOMAIN recv[f].hashed /\ j - 1 < j
    BY <2>3
  <2> QED  BY <2>1, <2>4 DEF NoneMissing, Counted, Orderly, HashedAscend
<1> QED  BY <1>1, InOrderHolds, MaxConns = 1, PTL
-----------------------------------------------------------------------------
(* What a step does to the states that the sending page shows              *)

\* A loss, or what looks like one.
Loses == SenderStep(LossNoticed) \/ NegotiationStalls \/ SenderBlip

\* The steps that change what the sending page shows.
LEMMA ShownFootprint ==
  ASSUME [Next]_vars
  PROVE  \/ UNCHANGED <<sState, sFile>>
         \/ SenderStep(BeginHandshake) \/ SenderStep(TakeNotice) \/ ConnectionOpens
         \/ SenderStep(HandleAccept) \/ SenderStep(HandleReject)
         \/ SenderStep(HandleCancel) \/ Cancels
         \/ (\E k \in DOMAIN loops : SenderStep(NextFile(k)) \/ SenderStep(PumpReturns(k)))
         \/ Pauses \/ SenderStep(ResumeCurrentFile) \/ Loses
<1>1. UNCHANGED senderVars \/ UNCHANGED sControl => UNCHANGED <<sState, sFile>>
  BY DEF senderVars, sControl
<1>2. CASE Continuation \/ SenderReads
  BY <1>2 DEF Continuation, SenderReads, SenderStep, PumpContinues, PrefixHashed, ChunkRead,
     BufferLow, HistorySaved
<1>3. CASE SenderHandlers
  <2>1. ASSUME SenderStep(TakeAnswer) \/ SenderStep(AttemptReconnect)
        PROVE  UNCHANGED sControl
    BY <2>1 DEF SenderStep, TakeAnswer, AttemptReconnect
  <2> QED  BY <1>1, <1>3, <2>1 DEF SenderHandlers, Loses
<1>4. CASE ReceiverHandlers \/ ReceiverUser \/ ReceiverFrames
  BY <1>1, <1>4 DEF ReceiverHandlers, ReceiverUser, ReceiverFrames, ReceiverStep
<1>5. CASE World
  <2>1. CASE ConnectionBreaks \/ ReceiverBlip \/ ReceiverRecovers \/ ReceiverSocketDrops
             \/ SessionExpires \/ RateLimits
    BY <1>1, <2>1 DEF ConnectionBreaks, ReceiverBlip, ReceiverRecovers, ReceiverSocketDrops,
       SessionExpires, RateLimits
  <2>2. CASE SenderSocketDrops \/ SenderSocketReopens
    BY <1>1, <2>2 DEF SenderSocketDrops, SenderSocketReopens
  <2>3. CASE Faults \/ Leaves
    BY <1>1, <2>3 DEF Faults, LoopFails, Leaves, Leave
  <2> QED  BY <1>5, <2>1, <2>2, <2>3 DEF World, Loses
<1>6. CASE UNCHANGED vars
  BY <1>1, <1>6 DEF vars
<1> QED  BY <1>2, <1>3, <1>4, <1>5, <1>6 DEF Next
-----------------------------------------------------------------------------
(* COMPLETED on the receiving page                                         *)

\* No pump of a loop is cancelled while the connection is open.
PumpsGo == up # 0 => \A k \in DOMAIN loops : ~loops[k].pump.cancelled

\* A pump is cancelled by a loss, or by the end of the session, and only with its connection.
LEMMA PumpsGoStep ==
  ASSUME MaxConns = 1, "sender-blip" \notin Losses, OneRun, PumpsGo, [Next]_vars
  PROVE  PumpsGo'
<1>1. CASE loops = <<>>
  <2>1. CASE SenderStep(HandleAccept)
    <3> DEFINE l == Loop(Head(ctlToSender).resume, Head(ctlToSender).known)
    <3>1. loops' = Append(<<>>, l)
      BY <1>1, <2>1 DEF SenderStep, HandleAccept
    <3>2. l.pump.cancelled = FALSE
      BY DEF Loop, Idle, NewPump
    <3> HIDE DEF l
    <3> QED  BY <3>1, <3>2 DEF PumpsGo
  <2>2. CASE ~SenderStep(HandleAccept)
    <3>1. loops' = <<>>
      BY <1>1, <2>2, StartKept DEF OneRun
    <3> QED  BY <3>1 DEF PumpsGo
  <2> QED  BY <2>1, <2>2
<1>2. CASE loops # <<>>
  <2>1. SUFFICES ASSUME up' # 0, NEW k \in DOMAIN loops PROVE ~loops'[k].pump.cancelled
    BY <1>2, InTheLoop DEF PumpsGo
  <2>2. LoopPlace(k) /\ loops[k] \in Loops /\ loops'[k] \in Loops
    BY <1>2, InTheLoop
  <2>3. ~loops[k].pump.cancelled /\ up # 0 /\ up = sPeer
    BY <1>2, <2>1, StaysUp DEF PumpsGo
  <2>4. ~CancelAll
    BY <2>1 DEF CancelAll, CutLink
  <2>5. LoseConnection /\ GivesUp => UNCHANGED loops
    <3>1. SUFFICES ASSUME LoseConnection, GivesUp PROVE UNCHANGED loops
      OBVIOUS
    <3>2. sState' = "FAILED" /\ sState # "FAILED"
      BY <3>1 DEF LoseConnection
    <3>3. ~Loses
      <4>1. sPeer <= opened
        BY <2>3 DEF OneRun, LinkOrder, Types, SenderTypes
      <4>2. sPeer \in Nat /\ opened \in Nat
        BY DEF OneRun, Types, SenderTypes, ChannelTypes
      <4> QED  BY <2>3, <4>1, <4>2, "sender-blip" \notin Losses DEF Loses, SenderStep, LossNoticed, NegotiationStalls,
               SenderBlip, Loss
    <3>4. ~(SenderStep(HandleCancel) \/ Cancels)
      <4>1. ~UserCancels /\ ~HandleCancel
        BY <2>4 DEF UserCancels, HandleCancel
      <4>2. CASE CancelR /\ UNCHANGED senderVars
        BY <3>2, <4>2 DEF senderVars, sControl
      <4> QED  BY <4>1, <4>2 DEF Cancels, SenderStep
    <3>5. ~(\E n \in DOMAIN loops : SenderStep(NextFile(n)) \/ SenderStep(PumpReturns(n)))
      BY <3>2 DEF SenderStep, NextFile, PumpReturns
    <3>6. SenderStep(TakeNotice)
      BY <3>2, <3>3, <3>4, <3>5, ShownFootprint DEF SenderStep, BeginHandshake, ConnectionOpens,
         ChannelsReady, HandleAccept, HandleReject, Pauses, PauseCurrentFile, ResumeCurrentFile
    <3> QED  BY <3>6 DEF SenderStep, TakeNotice
  <2> QED  BY <2>2, <2>3, <2>4, <2>5 DEF LoopPlace
<1> QED  BY <1>1, <1>2

\* FILE_COMPLETE of file f is handled, or in the queue in front of position n.
FileEnd(f) == [t |-> "FILE_COMPLETE", f |-> f]
Told(done, queue, f, n) == f \in done \/ \E j \in DOMAIN queue : j < n /\ queue[j] = FileEnd(f)

\* Files that a loop is past are told, TRANSFER_COMPLETE is behind all of them, and so is
\* COMPLETED.
LoopTold ==
  up # 0 => \A k \in DOMAIN loops : loops[k].at \notin {"done", "dead"} =>
    \A f \in Files : f < loops[k].file \/ (f = loops[k].file /\ loops[k].at # "run") =>
      Told(completed, frames, f, Len(frames) + 1)
LastTold ==
  \A i \in DOMAIN frames : frames[i].t = "TRANSFER_COMPLETE" =>
    \A f \in Files : Told(completed, frames, f, i)
AllTold == rState = "COMPLETED" => completed = Files

Announced == LoopTold /\ LastTold /\ AllTold

\* A FILE_COMPLETE in the queue comes nearer until it is handled.
LEMMA ToldStays ==
  ASSUME OneRun, [Next]_vars, NEW f \in Files, NEW n \in Nat, Told(completed, frames, f, n)
  PROVE  /\ FrameTaken => Told(completed', frames', f, n - 1)
         /\ completed' = completed /\ (\A j \in DOMAIN frames : j < n =>
                                       j \in DOMAIN frames' /\ frames'[j] = frames[j])
              => Told(completed', frames', f, n)
<1>1. completed \subseteq completed'
  BY ChangesOnly DEF OneRun, ReceiverChanges, RecvSame, Created, Extended, Concluded
<1>2. ASSUME FrameTaken PROVE Told(completed', frames', f, n - 1)
  <2>1. frames \in Seq(FrameSet) /\ frames # <<>> /\ frames' = Tail(frames)
    BY <1>2, TakenFrame DEF OneRun, Types, ChannelTypes
  <2>2. /\ Head(frames) = frames[1] /\ DOMAIN frames = 1..Len(frames)
        /\ \A j \in DOMAIN frames : j # 1 => j - 1 \in DOMAIN frames' /\ frames'[j - 1] = frames[j]
    BY <2>1, QueueOps
  <2>3. CASE f \in completed
    BY <1>1, <2>3 DEF Told
  <2>4. ASSUME NEW j \in DOMAIN frames, j < n, frames[j] = FileEnd(f), j # 1
        PROVE  Told(completed', frames', f, n - 1)
    <3>1. j - 1 \in DOMAIN frames' /\ frames'[j - 1] = FileEnd(f) /\ j - 1 < n - 1
      BY <2>2, <2>4
    <3> QED  BY <3>1 DEF Told
  <2>5. CASE Head(frames) = FileEnd(f)
    <3>1. Head(frames).t = "FILE_COMPLETE" /\ Head(frames).f = f
      BY <2>5 DEF FileEnd
    <3>2. TakeFileComplete \/ FinalizeFails
      BY <1>2, <3>1 DEF FrameTaken, TakeChunk, TakeTransferComplete, WriteFails, TakeFrame
    <3>3. Accepted(f)
      BY <2>1 DEF OneRun, Turn, WholeQueue, FromTheStart
    <3>4. f \in completed'
      BY <3>1, <3>2, <3>3 DEF TakeFileComplete, FinalizeFails, rTransfer
    <3> QED  BY <3>4 DEF Told
  <2> QED  BY <2>2, <2>3, <2>4, <2>5 DEF Told
<1>3. ASSUME completed' = completed,
             \A j \in DOMAIN frames : j < n => j \in DOMAIN frames' /\ frames'[j] = frames[j]
      PROVE  Told(completed', frames', f, n)
  BY <1>3 DEF Told
<1> QED  BY <1>2, <1>3

\* The queue and its word: what an open connection puts on the channel is in the queue.
LEMMA PostedEnds ==
  ASSUME OneRun, [Next]_vars, loops # <<>>, up # 0, NEW k \in DOMAIN loops, PumpReturns(k),
         ~loops[k].pump.cancelled
  PROVE  frames' = Append(frames, FileEnd(loops[k].file))
<1>1. loops[k] \in Loops
  BY InTheLoop
<1>2. loops[k].pump \in FittingPumps /\ loops[k].file \in Files
  BY <1>1 DEF PumpReturns, Running, Loops, LoopRecords
<1>3. loops[k].pump.at = "completed"
  BY <1>2 DEF PumpReturns, Over, FittingPumps
<1>4. up = sPeer /\ frames \in Seq(FrameSet) /\ FileEnd(loops[k].file) \in FrameSet
  BY <1>2 DEF OneRun, LinkOrder, Types, ChannelTypes, FileEnd, FrameSet
<1>5. frames' = frames \o <<FileEnd(loops[k].file)>>
  BY <1>3, <1>4 DEF PumpReturns, PostFrames, Post, FileEnd
<1> QED  BY <1>4, <1>5, AppendIsConcat

\* A loop leaves a file with its FILE_COMPLETE, and the queue keeps the order.
LEMMA AnnouncedStep ==
  ASSUME MaxConns = 1, OneRun, PumpsGo, Announced, [Next]_vars
  PROVE  Announced'
<1>1. /\ frames \in Seq(FrameSet) /\ frames' \in Seq(FrameSet)
      /\ DOMAIN frames = 1..Len(frames) /\ Len(frames) \in Nat
      /\ DOMAIN frames' = 1..Len(frames') /\ Len(frames') \in Nat
  <2>1. frames \in Seq(FrameSet) /\ frames' \in Seq(FrameSet)
    BY TypesStep DEF OneRun, Types, ChannelTypes
  <2> QED  BY <2>1, QueueTypes
<1>2. AllTold'
  <2>1. SUFFICES ASSUME rState' = "COMPLETED" PROVE completed' = Files
    BY DEF AllTold
  <2>2. completed \subseteq completed' /\ completed' \subseteq Files
    <3>1. completed' \subseteq Files
      BY TypesStep DEF OneRun, Types, ReceiverTypes
    <3> QED  BY <3>1, ChangesOnly DEF OneRun, ReceiverChanges, RecvSame, Created, Extended, Concluded
  <2>3. CASE rState = "COMPLETED"
    BY <2>2, <2>3 DEF Announced, AllTold
  <2>4. CASE TakeTransferComplete
    <3>1. frames # <<>> /\ Head(frames).t = "TRANSFER_COMPLETE"
      BY <2>4 DEF TakeTransferComplete, TakeFrame
    <3>2. 1 \in DOMAIN frames /\ frames[1].t = "TRANSFER_COMPLETE"
      BY <1>1, <3>1, QueueOps
    <3>3. \A f \in Files : f \in completed
      BY <1>1, <3>2 DEF Announced, LastTold, Told
    <3> QED  BY <2>2, <3>3
  <2>5. rState' = rState \/ TakeTransferComplete
    <3>1. FrameTaken => rState' = rState \/ TakeTransferComplete
      BY DEF FrameTaken, TakeChunk, TakeFileComplete, WriteFails, FinalizeFails, receiverVars
    <3>2. (\E k \in DOMAIN loops : LoopStep(k)) \/ SenderStep(HandleAccept) => rState' = rState
      BY DEF LoopStep, SenderStep, receiverVars
    <3> QED  BY <2>1, <3>1, <3>2, FlowFootprint DEF OneRun, Still
  <2> QED  BY <2>1, <2>3, <2>4, <2>5
<1>3. CASE loops = <<>>
  <2>1. frames' = <<>>
    BY <1>3, BeforeTheLoop
  <2>2. \A k \in DOMAIN loops' : loops'[k].file = 0
    <3>1. CASE SenderStep(HandleAccept)
      <4> DEFINE l == Loop(Head(ctlToSender).resume, Head(ctlToSender).known)
      <4>1. loops' = Append(<<>>, l)
        BY <1>3, <3>1 DEF SenderStep, HandleAccept
      <4>2. l.file = 0
        BY DEF Loop
      <4> HIDE DEF l
      <4> QED  BY <4>1, <4>2
    <3>2. CASE ~SenderStep(HandleAccept)
      <4>1. loops' = <<>>
        BY <1>3, <3>2, StartKept DEF OneRun
      <4> QED  BY <4>1
    <3> QED  BY <3>1, <3>2
  <2>3. \A f \in Files : ~(f < 0) /\ f # 0
    BY DEF Files
  <2> QED  BY <1>2, <2>1, <2>2, <2>3 DEF Announced, LoopTold, LastTold
<1>4. CASE loops # <<>>
  <2>1. \A k \in DOMAIN loops : loops[k] \in Loops /\ LoopPlace(k)
    BY <1>4, InTheLoop
  <2>2. \/ FrameTaken
        \/ FramesStay /\ ~FrameTaken
        \/ \E k \in DOMAIN loops : \E m \in FrameSet :
             /\ LoopStep(k) /\ Sends(k, m) /\ up # 0
             /\ frames' = Append(frames, m)
    BY QueueMoves DEF OneRun
  <2>3. ~FrameTaken => completed' = completed
    BY <1>4, InTheLoop DEF RecvSame
  \* while the connection holds, what is told stays told
  <2>4. ASSUME up' # 0, NEW f \in Files, Told(completed, frames, f, Len(frames) + 1)
        PROVE  Told(completed', frames', f, Len(frames') + 1)
    <3>1. Len(frames) + 1 \in Nat
      BY <1>1
    <3>2. CASE FrameTaken
      <4>1. Told(completed', frames', f, Len(frames) + 1 - 1)
        <5> DEFINE n == Len(frames) + 1
        <5>1. Told(completed, frames, f, n) /\ n \in Nat
          BY <2>4, <3>1
        <5> HIDE DEF n
        <5>2. Told(completed', frames', f, n - 1)
          BY <3>2, <5>1, ToldStays
        <5> QED  BY <5>2 DEF n
      <4> QED  BY <1>1, <4>1 DEF Told
    <3>3. CASE \A j \in DOMAIN frames : j \in DOMAIN frames' /\ frames'[j] = frames[j]
      <4>1. CASE f \in completed
        <5>1. completed \subseteq completed'
          BY ChangesOnly DEF OneRun, ReceiverChanges, RecvSame, Created, Extended, Concluded
        <5> QED  BY <4>1, <5>1 DEF Told
      <4>2. CASE f \notin completed
        <5>1. PICK j \in DOMAIN frames : frames[j] = FileEnd(f)
          BY <2>4, <4>2 DEF Told
        <5>2. j \in DOMAIN frames' /\ frames'[j] = FileEnd(f)
          BY <3>3, <5>1
        <5>3. j < Len(frames') + 1
          BY <1>1, <5>2
        <5> QED  BY <5>2, <5>3 DEF Told
      <4> QED  BY <4>1, <4>2
    <3>4. CASE FramesStay
      BY <2>4, <3>3, <3>4 DEF FramesStay
    <3>5. ASSUME NEW m \in FrameSet, frames' = Append(frames, m)
          PROVE  Told(completed', frames', f, Len(frames') + 1)
      <4>1. frames \in Seq(FrameSet)
        BY <1>1
      <4> QED  BY <3>3, <3>5, <4>1, QueueOps
    <3> QED  BY <2>2, <3>2, <3>4, <3>5
  <2>5. LoopTold'
    <3>1. SUFFICES ASSUME up' # 0, NEW k \in DOMAIN loops, loops'[k].at \notin {"done", "dead"},
                          NEW f \in Files,
                          f < loops'[k].file \/ (f = loops'[k].file /\ loops'[k].at # "run")
                   PROVE  Told(completed', frames', f, Len(frames') + 1)
      BY <1>4, InTheLoop DEF LoopTold
    <3>2. up # 0 /\ ~loops[k].pump.cancelled
      BY <1>4, <3>1, StaysUp DEF PumpsGo
    <3>3. ASSUME loops[k].at \notin {"done", "dead"},
                 f < loops[k].file \/ (f = loops[k].file /\ loops[k].at # "run")
          PROVE  Told(completed', frames', f, Len(frames') + 1)
      BY <2>4, <3>1, <3>2, <3>3 DEF Announced, LoopTold
    <3>4. f \in Nat /\ loops[k].file \in Nat
      BY <2>1 DEF Files, Loops, LoopRecords
    <3>5. CASE PumpReturns(k) /\ loops'[k].file = loops[k].file
      <4>1. loops[k].at = "run" /\ loops[k].file \in Files
        BY <2>1, <3>5 DEF PumpReturns, Running, Loops
      <4>2. CASE f < loops[k].file
        BY <3>3, <4>1, <4>2
      <4>3. CASE f = loops[k].file
        <5>1. frames' = Append(frames, FileEnd(f)) /\ FileEnd(f) \in FrameSet
          BY <1>4, <3>2, <3>5, <4>3, PostedEnds DEF FileEnd, FrameSet
        <5>2. Len(frames) + 1 \in DOMAIN frames' /\ frames'[Len(frames) + 1] = FileEnd(f)
          <6>1. frames \in Seq(FrameSet)
            BY <1>1
          <6> QED  BY <5>1, <6>1, QueueOps
        <5>3. Len(frames) + 1 < Len(frames') + 1
          BY <1>1, <5>2
        <5> QED  BY <5>2, <5>3 DEF Told
      <4> QED  BY <3>1, <3>5, <4>2, <4>3
    <3>6. CASE NextFile(k) /\ loops'[k].at = "run" /\ loops'[k].file = loops[k].file + 1
      <4>1. loops[k].at = "next"
        BY <3>6 DEF NextFile
      <4> QED  BY <3>1, <3>3, <3>4, <3>6, <4>1
    <3>7. CASE loops'[k].at = loops[k].at /\ loops'[k].file = loops[k].file
      BY <3>1, <3>3, <3>7
    <3>8. CASE HistorySaved(k) /\ loops'[k].file = loops[k].file
      <4>1. loops[k].at = "save"
        BY <3>8 DEF HistorySaved
      <4> QED  BY <3>1, <3>3, <3>8, <4>1
    <3>9. CASE ChunkRead(k) /\ loops'[k].at = "run" /\ loops'[k].file = loops[k].file
      <4>1. loops[k].at = "run"
        BY <3>9 DEF ChunkRead, Running
      <4> QED  BY <3>1, <3>3, <3>9, <4>1
    <3> QED  BY <2>1, <3>1, <3>5, <3>6, <3>7, <3>8, <3>9 DEF LoopPlace
  <2>6. LastTold'
    <3>1. CASE FrameTaken
      <4>1. SUFFICES ASSUME NEW i \in DOMAIN frames', frames'[i].t = "TRANSFER_COMPLETE",
                            NEW f \in Files
                     PROVE  Told(completed', frames', f, i)
        BY DEF LastTold
      <4>2. /\ frames # <<>> /\ frames' = Tail(frames) /\ frames \in Seq(FrameSet)
        BY <1>1, <3>1, TakenFrame
      <4> DEFINE n == i + 1
      <4>3. n \in DOMAIN frames /\ frames'[i] = frames[n] /\ n \in Nat /\ n - 1 = i
        <5>1. frames \in Seq(FrameSet) /\ frames # <<>>
          BY <4>2
        <5>2. \A x \in DOMAIN Tail(frames) : x + 1 \in DOMAIN frames /\ Tail(frames)[x] = frames[x + 1]
          BY <5>1, QueueOps
        <5>3. i \in DOMAIN Tail(frames) /\ frames'[i] = Tail(frames)[i]
          BY <4>1, <4>2
        <5>4. i \in Nat
          BY <5>1, <5>3
        <5> QED  BY <5>2, <5>3, <5>4
      <4> HIDE DEF n
      <4>4. Told(completed, frames, f, n)
        BY <4>1, <4>3 DEF Announced, LastTold
      <4> QED  BY <3>1, <4>3, <4>4, ToldStays
    <3>2. ASSUME NEW i \in DOMAIN frames', NEW f \in Files, i \in DOMAIN frames,
                 frames[i].t = "TRANSFER_COMPLETE", completed' = completed,
                 \A j \in DOMAIN frames : j < i => j \in DOMAIN frames' /\ frames'[j] = frames[j]
          PROVE  Told(completed', frames', f, i)
      <4>1. Told(completed, frames, f, i) /\ i \in Nat
        BY <1>1, <3>2 DEF Announced, LastTold
      <4> QED  BY <3>2, <4>1, ToldStays
    <3>3. CASE FramesStay /\ ~FrameTaken
      <4>1. \A i \in DOMAIN frames' : i \in DOMAIN frames /\ frames'[i] = frames[i]
        <5>1. frames \in Seq(FrameSet)
          BY <1>1
        <5> QED  BY <3>3, <5>1, QueueOps DEF FramesStay
      <4>2. \A i \in DOMAIN frames' : \A j \in DOMAIN frames : j < i =>
              j \in DOMAIN frames' /\ frames'[j] = frames[j]
        BY <1>1, <4>1
      <4> QED  BY <2>3, <3>2, <3>3, <4>1, <4>2 DEF LastTold
    <3>4. ASSUME NEW k \in DOMAIN loops, NEW m \in FrameSet, LoopStep(k), Sends(k, m), up # 0,
                 frames' = Append(frames, m), ~FrameTaken
          PROVE  LastTold'
      <4>1. /\ \A i \in DOMAIN frames' :
                 \/ i \in DOMAIN frames /\ frames'[i] = frames[i]
                 \/ i = Len(frames) + 1 /\ frames'[i] = m
            /\ \A j \in DOMAIN frames : j \in DOMAIN frames' /\ frames'[j] = frames[j]
            /\ Len(frames) + 1 \in DOMAIN frames'
        <5>1. frames \in Seq(FrameSet)
          BY <1>1
        <5> QED  BY <3>4, <5>1, QueueOps
      <4>2. SUFFICES ASSUME NEW i \in DOMAIN frames', frames'[i].t = "TRANSFER_COMPLETE",
                            NEW f \in Files
                     PROVE  Told(completed', frames', f, i)
        BY DEF LastTold
      <4>3. CASE i \in DOMAIN frames /\ frames'[i] = frames[i]
        BY <2>3, <3>2, <3>4, <4>1, <4>2, <4>3
      <4>4. CASE i = Len(frames) + 1 /\ frames'[i] = m
        <5>1. NextFile(k)
          BY <3>4, <4>2, <4>4 DEF Sends, Chunk
        <5>2. frames' # frames
          BY <1>1, <4>1
        <5>3. loops[k].at = "next" /\ loops[k].file + 1 \notin Files
          BY <5>1, <5>2 DEF NextFile
        <5>4. f < loops[k].file \/ f = loops[k].file
          <6>1. loops[k].file \in 0..NumFiles
            BY <2>1 DEF Loops, LoopRecords
          <6> QED  BY <5>3, <6>1, LinkConstants DEF Files
        <5>5. Told(completed, frames, f, Len(frames) + 1)
          BY <3>4, <5>3, <5>4 DEF Announced, LoopTold
        <5>6. i \in Nat
          BY <1>1
        <5>7. Told(completed, frames, f, i)
          BY <4>4, <5>5
        <5> HIDE DEF Told
        <5> QED  BY <2>3, <3>4, <4>1, <5>6, <5>7, ToldStays
      <4> QED  BY <4>1, <4>3, <4>4
    <3> QED  BY <2>2, <3>1, <3>3, <3>4
  <2> QED  BY <1>2, <2>5, <2>6 DEF Announced
<1> QED  BY <1>3, <1>4
-----------------------------------------------------------------------------
(* A file that was concluded undisturbed, with the key it needed, is verified *)

\* A file that was concluded is verified, if nothing disturbed it.
Verified ==
  Undisturbed => \A f \in completed : recv[f].keyed = Encrypted => rFile[f] = "COMPLETED"

\* FILE_COMPLETE finds the whole file hashed.
LEMMA WholeAtTheEnd ==
  ASSUME MaxConns = 1, OneRun, NoneMissing, Undisturbed, [Next]_vars,
         frames # <<>>, Head(frames).t = "FILE_COMPLETE", NEW f \in Files, Head(frames).f = f,
         ~recv[f].digested, recv[f].keyed = Encrypted, recv[f] \in Hashing
  PROVE  WholeFile(recv[f], NumChunks, Encrypted)
<1>1. frames \in Seq(FrameSet)
  BY DEF OneRun, Types, ChannelTypes
<1>2. /\ 1 \in DOMAIN frames /\ Head(frames) = frames[1]
      /\ DOMAIN frames = 1..Len(frames) /\ Len(frames) \in Nat
  BY <1>1, QueueOps
<1>3. Follows(f, NumChunks, 1)
  BY <1>2 DEF NoneMissing, FramesFollow, Reach
<1>4. NumChunks = Len(recv[f].hashed)
  BY <1>2, <1>3 DEF Follows
<1>5. recv[f].hashed \in Seq(Chunks)
  BY DEF Hashing
<1>6. recv[f].hashed = [j \in 1..NumChunks |-> j - 1]
  <2>1. DOMAIN recv[f].hashed = 1..NumChunks
    BY <1>4, <1>5, LenProperties
  <2>2. recv[f].hashed = [j \in 1..NumChunks |-> recv[f].hashed[j]]
    BY <1>4, <1>5, <2>1
  <2>3. \A j \in 1..NumChunks : recv[f].hashed[j] = j - 1
    BY <2>1 DEF NoneMissing, Counted
  <2> QED  BY <2>2, <2>3
<1> QED  BY <1>6 DEF WholeFile

\* A file is concluded on a whole digest, or disturbed.
LEMMA VerifiedStep ==
  ASSUME MaxConns = 1, OneRun, NoneMissing, Verified, [Next]_vars
  PROVE  Verified'
<1>1. SUFFICES ASSUME Undisturbed', NEW f \in completed', recv'[f].keyed = Encrypted
               PROVE  rFile'[f] = "COMPLETED"
  BY DEF Verified
<1>2. Types /\ Answering /\ Turn /\ Undisturbed /\ ~Faults
  BY <1>1, UpsetsSpent DEF OneRun
<1>3. loops # <<>>
  BY <1>1, BeforeTheLoop
<1>4. /\ rFile \in [Files -> {"ABSENT", "QUEUED", "TRANSFERRING", "VERIFYING", "COMPLETED", "FAILED"}]
      /\ recv \in [Files -> Receivers] /\ completed \subseteq Files
  BY <1>2 DEF Types, ReceiverTypes
<1>5. /\ \A g \in Files : recv[g] \in Hashing /\ Accepted(g) /\ rFile[g] # "ABSENT"
      /\ \A g \in Files : recv[g].digested => recv'[g] = recv[g]
      /\ \A g \in Files : recv'[g].keyed = recv[g].keyed
      /\ ~FrameTaken => RecvSame
  <2>1. \A g \in Files : Accepted(g) /\ rFile[g] # "ABSENT"
    BY <1>2, <1>3 DEF Turn, WholeQueue
  <2> QED  BY <1>2, <1>3, <2>1, InTheLoop, ReceiversGrow
<1>6. \A g \in Files : \A status :
        SetStatus(g, status) => rFile'[g] = status /\ \A e \in Files \ {g} : rFile'[e] = rFile[e]
  BY <1>4, <1>5 DEF SetStatus
<1>7. CASE f \in completed
  <2>1. f \in Files /\ recv[f].digested /\ rFile[f] = "COMPLETED"
    BY <1>1, <1>2, <1>4, <1>5, <1>7 DEF Answering, Verified
  <2>2. CASE TakeChunk
    <3> DEFINE m == Head(frames)
    <3>1. m.f \in Files
      <4>1. m \in FrameSet /\ m.t = "CHUNK"
        BY <1>2, <2>2, TakeFrameTypes DEF TakeChunk, TakeFrame
      <4> QED  BY <4>1 DEF FrameSet
    <3>2. CASE m.f = f
      <4>1. HandleChunk(recv[f], m.c) = recv[f]
        BY <2>1 DEF HandleChunk
      <4>2. recv' = [recv EXCEPT ![f] = HandleChunk(recv[f], m.c)]
        BY <1>5, <2>1, <2>2, <3>2 DEF TakeChunk
      <4>3. recv' = recv
        BY <1>4, <4>1, <4>2
      <4> QED  BY <1>5, <2>1, <2>2, <3>2, <4>3 DEF TakeChunk
    <3>3. CASE m.f # f
      <4>1. rFile' = rFile \/ SetStatus(m.f, "TRANSFERRING")
        BY <2>2 DEF TakeChunk
      <4> QED  BY <1>6, <2>1, <3>1, <3>3, <4>1
    <3> QED  BY <3>2, <3>3
  <2>3. CASE TakeFileComplete
    <3> DEFINE g == Head(frames).f
    <3>1. \/ rFile' = rFile
          \/ g # f /\ \E status : SetStatus(g, status)
      BY <1>7, <2>3 DEF TakeFileComplete, rTransfer
    <3>2. g \in Files
      <4>1. Head(frames) \in FrameSet /\ Head(frames).t = "FILE_COMPLETE"
        BY <1>2, <2>3, TakeFrameTypes DEF TakeFileComplete, TakeFrame
      <4> QED  BY <4>1 DEF FrameSet
    <3> QED  BY <1>6, <2>1, <3>1, <3>2
  <2>4. CASE TakeTransferComplete
    BY <2>1, <2>4 DEF TakeTransferComplete, rTransfer
  <2>5. CASE \E k \in DOMAIN loops : LoopStep(k)
    BY <2>1, <2>5 DEF LoopStep, receiverVars, rTransfer
  <2>6. CASE SenderStep(HandleAccept)
    BY <2>1, <2>6 DEF SenderStep, receiverVars, rTransfer
  <2>7. CASE Still
    <3>1. ~HandleFileOffer
      <4>1. SUFFICES ASSUME HandleFileOffer PROVE FALSE
        OBVIOUS
      <4>2. /\ ctlToReceiver \in Seq(ReceiverControl) /\ ctlToReceiver # <<>>
            /\ Head(ctlToReceiver).t = "FILE_OFFER"
        BY <1>2, <4>1 DEF HandleFileOffer, Hear, Types, ChannelTypes
      <4>3. OfferOut
        BY <4>2, QueueOps DEF OfferOut
      <4> QED  BY <1>2, <1>3, <4>3 DEF Turn, InTurn, BeforeLoop, BeforeAccept, BeforeAnswer,
                  BeforeDialog
    <3> QED  BY <2>1, <2>7, <3>1 DEF Still
  <2> QED  BY <1>2, <2>2, <2>3, <2>4, <2>5, <2>6, <2>7, FlowFootprint DEF FrameTaken
<1>8. CASE f \notin completed
  <2>1. TakeFileComplete
    <3>1. FrameTaken
      BY <1>1, <1>5, <1>8 DEF RecvSame
    <3> QED  BY <1>1, <1>2, <1>8, <3>1 DEF FrameTaken, TakeChunk, TakeTransferComplete, rTransfer
  <2>2. /\ frames # <<>> /\ Head(frames).t = "FILE_COMPLETE" /\ Head(frames).f = f
        /\ SetStatus(f, IF WholeFile(recv[f], NumChunks, Encrypted) THEN "COMPLETED" ELSE "FAILED")
    BY <1>1, <1>8, <2>1 DEF TakeFileComplete, TakeFrame, rTransfer
  <2>3. f \in Files
    <3>1. Head(frames) \in FrameSet
      BY <1>2, <2>1, TakeFrameTypes DEF TakeFileComplete
    <3> QED  BY <2>2, <3>1 DEF FrameSet
  <2>4. recv[f].keyed = Encrypted /\ ~recv[f].digested
    BY <1>1, <1>2, <1>5, <1>8, <2>3 DEF Answering
  <2>5. WholeFile(recv[f], NumChunks, Encrypted)
    BY <1>2, <1>5, <2>2, <2>3, <2>4, WholeAtTheEnd
  <2>6. SetStatus(f, "COMPLETED")
    BY <2>2, <2>5
  <2> QED  BY <1>6, <2>3, <2>6
<1> QED  BY <1>7, <1>8

\* Over one connection that may break, with stalled negotiations, faults, cancels and pages
\* left, and any number of files and chunks, a receiving page that shows COMPLETED has
\* concluded every file, and verified each that was not upset and was accepted with the key.
THEOREM CompletedIsVerified ==
  ASSUME MaxConns = 1, "sender-blip" \notin Losses
  PROVE  Spec => []CompletedMeansVerified
<1> DEFINE Inv == OneRun /\ Orderly /\ NoneMissing
           More == PumpsGo /\ Announced /\ Verified
<1>1. Init => More
  <2>1. Init => frames = <<>> /\ loops = <<>> /\ completed = {} /\ rState = "CONNECTING"
    BY DEF Init, LinkInit, SenderInit, ReceiverInit
  <2>2. DOMAIN <<>> = {}
    OBVIOUS
  <2> QED  BY <2>1, <2>2 DEF PumpsGo, Announced, LoopTold, LastTold, AllTold, Verified
<1>2. Inv /\ More /\ [Next]_vars => More'
  BY PumpsGoStep, AnnouncedStep, VerifiedStep, MaxConns = 1, "sender-blip" \notin Losses
<1>3. More => CompletedMeansVerified
  BY DEF Announced, AllTold, Verified, CompletedMeansVerified
<1>4. Spec => []Inv
  BY InOrderHolds, MaxConns = 1
<1> HIDE DEF Inv, More
<1> QED  BY <1>1, <1>2, <1>3, <1>4, PTL DEF Spec

-----------------------------------------------------------------------------
(* The states that the sending page shows when nothing is lost             *)

\* The connection never breaks, nothing but a read, a write or a history entry may be
\* rejected.
Reliable == Losses = {} /\ ~Stalls /\ Upsets \subseteq {"fault"}

\* A queue holds messages of these types only.
Only(q, types) == \A i \in DOMAIN q : q[i].t \in types

\* Both pages stay, the connection lasts, and no message tells of a loss.
Calm ==
  /\ up = opened /\ ended = {} /\ ~blipped
  /\ session /\ sOnline /\ ~sLeft /\ ~cancelled
  /\ giveUp = "off" /\ retries = 0 /\ ~reconnecting
  /\ Only(toSender, {"PEER_JOINED", "ANSWER"}) /\ Only(toReceiver, {"OFFER"})
  /\ Only(ctlToSender, {"FILE_ACCEPT", "FILE_REJECT"})
  /\ Only(ctlToReceiver, {"SESSION_INIT", "FILE_OFFER"})

\* The steps that are left then.
CalmStep ==
  \/ SenderStep(BeginHandshake) \/ SenderStep(TakeAnswer) \/ ReceiverStep(TakeOffer)
  \/ ConnectionOpens
  \/ SenderStep(HandleAccept) \/ SenderStep(HandleReject)
  \/ SenderStep(ResumeCurrentFile) \/ Pauses
  \/ ReceiverStep(HandleSessionInit) \/ ReceiverStep(KeyImported)
  \/ ReceiverStep(HandleFileOffer) \/ ReceiverUser
  \/ (\E i \in DOMAIN accepting : ReceiverStep(SinkCreated(i)))
  \/ ReceiverFrames \/ Continuation \/ SenderReads \/ Faults
  \/ UNCHANGED vars

\* Taking and appending keep a queue to its types.
LEMMA OnlyKeeps ==
  ASSUME NEW S, NEW q \in Seq(S), NEW types, Only(q, types)
  PROVE  /\ q # <<>> => Head(q).t \in types /\ Only(Tail(q), types)
         /\ \A m \in S : m.t \in types => Only(Append(q, m), types) /\ Only(q \o <<m>>, types)
<1>1. ASSUME q # <<>> PROVE Head(q).t \in types /\ Only(Tail(q), types)
  BY <1>1, QueueOps DEF Only
<1>2. ASSUME NEW m \in S, m.t \in types
      PROVE  Only(Append(q, m), types) /\ Only(q \o <<m>>, types)
  <2>1. /\ \A i \in DOMAIN Append(q, m) : i \in DOMAIN q \/ i = Len(q) + 1
        /\ Append(q, m)[Len(q) + 1] = m /\ \A i \in DOMAIN q : Append(q, m)[i] = q[i]
    BY <1>2, QueueOps
  <2>2. Only(Append(q, m), types)
    BY <1>2, <2>1 DEF Only
  <2> QED  BY <1>2, <2>2, AppendIsConcat
<1> QED  BY <1>1, <1>2

\* In the calm only these steps are enabled.
LEMMA CalmFootprint ==
  ASSUME MaxConns = 1, Reliable, Types, Calm, [Next]_vars
  PROVE  CalmStep
<1>1. /\ toSender # <<>> => Head(toSender).t \in {"PEER_JOINED", "ANSWER"}
      /\ toReceiver # <<>> => Head(toReceiver).t = "OFFER"
      /\ ctlToSender # <<>> => Head(ctlToSender).t \in {"FILE_ACCEPT", "FILE_REJECT"}
      /\ ctlToReceiver # <<>> => Head(ctlToReceiver).t \in {"SESSION_INIT", "FILE_OFFER"}
  <2>1. /\ toSender \in Seq(SenderNotes) /\ toReceiver \in Seq(ReceiverNotes)
        /\ ctlToSender \in Seq(SenderControl) /\ ctlToReceiver \in Seq(ReceiverControl)
    BY DEF Types, SignalTypes, ChannelTypes
  <2> QED  BY <2>1, OnlyKeeps DEF Calm
<1>2. \A kind \in {"break", "sender-blip", "receiver-blip"} : ~Loss(kind) /\ kind \notin Losses
  BY DEF Loss, Reliable
<1>3. \A kind \in {"sender-drops", "receiver-drops", "expires", "refuses", "cancel", "leaves"} :
        ~Upset(kind)
  BY DEF Upset, Reliable
<1>4. ~SenderStep(LossNoticed) /\ ~SenderStep(AttemptReconnect)
  BY DEF SenderStep, LossNoticed, AttemptReconnect, Calm
<1>5. ~SenderStep(TakeNotice) /\ ~SenderStep(HandleCancel)
  BY <1>1 DEF SenderStep, TakeNotice, HandleCancel
<1>6. ~ReceiverStep(TakeNoticeR) /\ ~ReceiverStep(TakeRefusal) /\ ~ReceiverStep(HandleCancelR)
  BY <1>1 DEF ReceiverStep, TakeNoticeR, TakeRefusal, HandleCancelR, Hear
<1>7. ~ReceiverStep(GiveUp) /\ ~\E n \in ended : ReceiverStep(LossNoticedR(n))
  BY DEF ReceiverStep, GiveUp, Calm
<1>8. World => ConnectionOpens \/ Faults \/ Pauses
  BY <1>2, <1>3 DEF World, ConnectionBreaks, NegotiationStalls, SenderBlip, ReceiverBlip,
     ReceiverRecovers, SenderSocketDrops, SenderSocketReopens, ReceiverSocketDrops,
     SessionExpires, RateLimits, Cancels, Leaves, Calm, Reliable
<1>9. SenderHandlers => \/ SenderStep(BeginHandshake) \/ SenderStep(TakeAnswer)
                        \/ SenderStep(HandleAccept) \/ SenderStep(HandleReject)
                        \/ SenderStep(ResumeCurrentFile)
  BY <1>4, <1>5 DEF SenderHandlers
<1>10. ReceiverHandlers => \/ ReceiverStep(TakeOffer)
                           \/ ReceiverStep(HandleSessionInit) \/ ReceiverStep(KeyImported)
                           \/ ReceiverStep(HandleFileOffer)
                           \/ (\E i \in DOMAIN accepting : ReceiverStep(SinkCreated(i)))
  BY <1>6, <1>7 DEF ReceiverHandlers
<1> QED  BY <1>8, <1>9, <1>10 DEF Next, CalmStep

\* And they keep it.
LEMMA CalmKept ==
  ASSUME MaxConns = 1, Reliable, Types, Calm, [Next]_vars
  PROVE  Calm'
<1> DEFINE Line == UNCHANGED <<up, opened, ended, session>>
           Ends == UNCHANGED <<sOnline, sLeft, cancelled, giveUp, retries, reconnecting, blipped>>
           Queues == /\ Only(toSender', {"PEER_JOINED", "ANSWER"}) /\ Only(toReceiver', {"OFFER"})
                     /\ Only(ctlToSender', {"FILE_ACCEPT", "FILE_REJECT"})
                     /\ Only(ctlToReceiver', {"SESSION_INIT", "FILE_OFFER"})
<1>1. Line /\ Ends /\ Queues => Calm'
  BY DEF Calm
<1>2. /\ toSender \in Seq(SenderNotes) /\ toReceiver \in Seq(ReceiverNotes)
      /\ ctlToSender \in Seq(SenderControl) /\ ctlToReceiver \in Seq(ReceiverControl)
      /\ toSender' \in Seq(SenderNotes) /\ toReceiver' \in Seq(ReceiverNotes)
      /\ ctlToSender' \in Seq(SenderControl) /\ ctlToReceiver' \in Seq(ReceiverControl)
      /\ sPeer \in 0..1 /\ sPeer' \in 0..1 /\ opened \in 0..1
  BY TypesStep DEF Types, SignalTypes, ChannelTypes, SenderTypes
<1>3. /\ Only(toSender, {"PEER_JOINED", "ANSWER"}) /\ Only(toReceiver, {"OFFER"})
      /\ Only(ctlToSender, {"FILE_ACCEPT", "FILE_REJECT"})
      /\ Only(ctlToReceiver, {"SESSION_INIT", "FILE_OFFER"})
  BY DEF Calm
<1>4. UNCHANGED <<signalVars, ctlToSender, ctlToReceiver>> => Queues
  BY <1>3 DEF signalVars
<1>5. UNCHANGED senderVars =>
        UNCHANGED <<sOnline, sLeft, cancelled, retries, reconnecting, sPeer>>
  BY DEF senderVars, sConnection, sReconnect
<1>6. UNCHANGED receiverVars => UNCHANGED giveUp
  BY DEF receiverVars, rConnection
<1>7. UNCHANGED linkVars => Line /\ Queues
  BY <1>4 DEF linkVars, signalVars, channelVars
<1>8. UNCHANGED worldVars => UNCHANGED blipped
  BY DEF worldVars
\* queues that a message is taken from or put on
<1>9. toSender # <<>> => Only(Tail(toSender), {"PEER_JOINED", "ANSWER"})
  BY <1>2, <1>3, OnlyKeeps
<1>10. toReceiver # <<>> => Only(Tail(toReceiver), {"OFFER"})
  BY <1>2, <1>3, OnlyKeeps
<1>11. ctlToSender # <<>> => Only(Tail(ctlToSender), {"FILE_ACCEPT", "FILE_REJECT"})
  BY <1>2, <1>3, OnlyKeeps
<1>12. ctlToReceiver # <<>> => Only(Tail(ctlToReceiver), {"SESSION_INIT", "FILE_OFFER"})
  BY <1>2, <1>3, OnlyKeeps
<1>13. CASE SenderStep(BeginHandshake)
  <2>1. Relay([t |-> "OFFER", n |-> sPeer + 1]) /\ sPeer' = sPeer + 1
    BY <1>13 DEF SenderStep, BeginHandshake
  <2>2. sPeer + 1 = 1
    BY <1>2, <2>1
  <2>3. [t |-> "OFFER", n |-> sPeer + 1] \in ReceiverNotes
    BY <2>2, MaxConns = 1 DEF ReceiverNotes
  <2>4. Only(Append(toReceiver, [t |-> "OFFER", n |-> sPeer + 1]), {"OFFER"})
    <3> DEFINE m == [t |-> "OFFER", n |-> sPeer + 1]
    <3>1. m \in ReceiverNotes /\ m.t \in {"OFFER"}
      BY <2>3
    <3> HIDE DEF m
    <3>2. Only(Append(toReceiver, m), {"OFFER"})
      BY <1>2, <1>3, <3>1, OnlyKeeps
    <3> QED  BY <3>2 DEF m
  <2>5. Only(toReceiver', {"OFFER"})
    BY <1>3, <2>1, <2>4 DEF Relay
  <2> QED  BY <1>1, <1>3, <1>6, <1>8, <1>9, <1>13, <2>5 DEF SenderStep, BeginHandshake,
              sReconnect, channelVars
<1>14. CASE SenderStep(TakeAnswer)
  BY <1>1, <1>3, <1>6, <1>8, <1>9, <1>14 DEF SenderStep, TakeAnswer, sReconnect, channelVars
<1>15. CASE ReceiverStep(TakeOffer)
  <2> DEFINE m == [t |-> "ANSWER", n |-> Head(toReceiver).n]
  <2>1. /\ toReceiver # <<>> /\ toReceiver' = Tail(toReceiver) /\ toSender' = Append(toSender, m)
        /\ Head(toReceiver).t = "OFFER"
    BY <1>15 DEF ReceiverStep, TakeOffer, Calm
  <2>2. m \in SenderNotes /\ m.t \in {"PEER_JOINED", "ANSWER"}
    <3>1. Head(toReceiver) \in ReceiverNotes
      BY <1>2, <2>1, QueueTypes
    <3> QED  BY <2>1, <3>1 DEF ReceiverNotes, SenderNotes
  <2> HIDE DEF m
  <2>3. Only(toSender', {"PEER_JOINED", "ANSWER"}) /\ Only(toReceiver', {"OFFER"})
    BY <1>2, <1>3, <1>10, <2>1, <2>2, OnlyKeeps
  <2> QED  BY <1>1, <1>3, <1>5, <1>8, <1>15, <2>3 DEF ReceiverStep, TakeOffer, channelVars
<1>16. CASE ConnectionOpens
  <2> DEFINE o == [t |-> "FILE_OFFER", files |-> Files]
             i == [t |-> "SESSION_INIT"]
             types == {"SESSION_INIT", "FILE_OFFER"}
  <2>1. /\ up' = sPeer /\ opened' = sPeer /\ reconnecting' = FALSE /\ giveUp' = "off"
        /\ ctlToReceiver' \in {ctlToReceiver \o <<i>> \o <<o>>, ctlToReceiver \o <<>> \o <<o>>}
    BY <1>16 DEF ConnectionOpens, ChannelsReady, ReadyR, Calm
  <2>2. o \in ReceiverControl /\ o.t \in types /\ i \in ReceiverControl /\ i.t \in types
    BY DEF ReceiverControl
  <2> HIDE DEF o, i, types
  <2>3. ctlToReceiver \o <<>> = ctlToReceiver
    BY <1>2
  <2>4. Only(ctlToReceiver \o <<i>>, types) /\ ctlToReceiver \o <<i>> \in Seq(ReceiverControl)
    <3>1. <<i>> \in Seq(ReceiverControl)
      BY <2>2
    <3> QED  BY <1>2, <1>3, <2>2, <3>1, OnlyKeeps, ConcatProperties DEF types
  <2>5. Only(ctlToReceiver \o <<i>> \o <<o>>, types)
    BY <2>2, <2>4, OnlyKeeps
  <2>6. Only(ctlToReceiver \o <<o>>, types)
    BY <1>2, <1>3, <2>2, OnlyKeeps DEF types
  <2>7. Only(ctlToReceiver', {"SESSION_INIT", "FILE_OFFER"})
    BY <2>1, <2>3, <2>5, <2>6 DEF types
  <2> QED  BY <1>3, <1>8, <1>16, <2>1, <2>7 DEF Calm, ConnectionOpens, ChannelsReady,
              sConnection, signalVars
<1>17. CASE SenderStep(HandleAccept) \/ SenderStep(HandleReject)
  BY <1>1, <1>3, <1>6, <1>8, <1>11, <1>17 DEF SenderStep, HandleAccept, HandleReject, TakeControl,
     sReconnect, sConnection, signalVars
<1>18. CASE SenderStep(ResumeCurrentFile) \/ Pauses
  BY <1>1, <1>6, <1>7, <1>8, <1>18 DEF SenderStep, ResumeCurrentFile, Pauses, PauseCurrentFile,
     Spend, sReconnect, sConnection
<1>19. CASE ReceiverStep(HandleSessionInit) \/ ReceiverStep(KeyImported)
  BY <1>1, <1>3, <1>5, <1>7, <1>8, <1>12, <1>19 DEF ReceiverStep, HandleSessionInit, KeyImported,
     Hear, rConnection, signalVars
\* what the receiving page answers
<1>20. ASSUME NEW ms, Say(<<ms>>), ms \in SenderControl, ms.t \in {"FILE_ACCEPT", "FILE_REJECT"}
       PROVE  Only(ctlToSender', {"FILE_ACCEPT", "FILE_REJECT"})
  <2>1. Only(ctlToSender \o <<ms>>, {"FILE_ACCEPT", "FILE_REJECT"})
    BY <1>2, <1>3, <1>20, OnlyKeeps
  <2> QED  BY <1>3, <1>20, <2>1 DEF Say, Post
<1>21. ASSUME NEW files, NEW receivers, SendAccept(files, receivers)
       PROVE  Only(ctlToSender', {"FILE_ACCEPT", "FILE_REJECT"})
  <2> DEFINE ms == [t |-> "FILE_ACCEPT",
                    known |-> {f \in Files : receivers[f] # None},
                    resume |-> [f \in Files |->
                      IF f \in files /\ receivers[f] # None
                      THEN ResumeFromChunk(receivers[f]) ELSE 0]]
  <2>1. Say(<<ms>>) /\ ms.t = "FILE_ACCEPT"
    BY <1>21 DEF SendAccept
  <2> HIDE DEF ms
  <2>2. CASE ctlToSender' = ctlToSender
    BY <1>3, <2>2
  <2>3. CASE ctlToSender' = ctlToSender \o <<ms>>
    <3>1. ctlToSender' = Append(ctlToSender, ms)
      BY <1>2, <2>3, AppendIsConcat
    <3>2. ms \in SenderControl
      <4>1. ctlToSender'[Len(ctlToSender) + 1] = ms /\ Len(ctlToSender) + 1 \in DOMAIN ctlToSender'
        BY <1>2, <3>1, AppendProperties, LenProperties
      <4> QED  BY <1>2, <4>1, QueueTypes
    <3> QED  BY <1>20, <2>1, <3>2
  <2> QED  BY <2>1, <2>2, <2>3 DEF Say, Post
<1>22. CASE ReceiverStep(HandleFileOffer)
  <2>1. Only(ctlToSender', {"FILE_ACCEPT", "FILE_REJECT"})
    BY <1>3, <1>21, <1>22 DEF ReceiverStep, HandleFileOffer
  <2> QED  BY <1>1, <1>3, <1>5, <1>8, <1>12, <1>22, <2>1 DEF ReceiverStep, HandleFileOffer, Hear,
              rConnection, signalVars
<1>23. CASE ReceiverUser
  <2>1. CASE ReceiverStep(Accept)
    BY <1>1, <1>5, <1>7, <1>8, <2>1 DEF ReceiverStep, Accept, rConnection
  <2>2. CASE ReceiverStep(Reject)
    <3>1. [t |-> "FILE_REJECT"] \in SenderControl
      BY DEF SenderControl
    <3>2. Only(ctlToSender', {"FILE_ACCEPT", "FILE_REJECT"})
      BY <1>20, <2>2, <3>1 DEF ReceiverStep, Reject
    <3> QED  BY <1>1, <1>3, <1>5, <1>8, <2>2, <3>2 DEF ReceiverStep, Reject, rConnection, signalVars
  <2> QED  BY <1>23, <2>1, <2>2 DEF ReceiverUser
<1>24. CASE \E i \in DOMAIN accepting : ReceiverStep(SinkCreated(i))
  <2>1. PICK i \in DOMAIN accepting : ReceiverStep(SinkCreated(i))
    BY <1>24
  <2>2. Only(ctlToSender', {"FILE_ACCEPT", "FILE_REJECT"})
    BY <1>3, <1>21, <2>1 DEF ReceiverStep, SinkCreated
  <2> QED  BY <1>1, <1>3, <1>5, <1>8, <2>1, <2>2 DEF ReceiverStep, SinkCreated, rConnection,
              signalVars
<1>25. CASE ReceiverFrames
  BY <1>1, <1>4, <1>5, <1>8, <1>25 DEF ReceiverFrames, ReceiverStep, TakeChunk, TakeFileComplete,
     TakeTransferComplete, TakeFrame, rConnection, signalVars
<1>26. CASE Continuation \/ SenderReads
  <2>1. PICK k \in DOMAIN loops :
          \/ SenderStep(NextFile(k)) \/ SenderStep(PumpContinues(k)) \/ SenderStep(PumpReturns(k))
          \/ SenderStep(PrefixHashed(k)) \/ SenderStep(ChunkRead(k)) \/ SenderStep(BufferLow(k))
          \/ SenderStep(HistorySaved(k))
    BY <1>26 DEF Continuation, SenderReads
  <2>2. CASE SenderStep(NextFile(k)) \/ SenderStep(PumpReturns(k)) \/ SenderStep(ChunkRead(k))
    BY <1>1, <1>4, <1>6, <1>8, <2>2 DEF SenderStep, NextFile, PumpReturns, ChunkRead, sReconnect,
       sConnection, signalVars
  <2>3. CASE SenderStep(PumpContinues(k)) \/ SenderStep(PrefixHashed(k)) \/ SenderStep(BufferLow(k))
             \/ SenderStep(HistorySaved(k))
    BY <1>1, <1>6, <1>7, <1>8, <2>3 DEF SenderStep, PumpContinues, PrefixHashed, BufferLow,
       HistorySaved, sReconnect, sConnection
  <2> QED  BY <2>1, <2>2, <2>3
<1>27. CASE Faults
  <2>1. blipped' = blipped
    BY <1>27 DEF Faults, Upset, Spend
  <2>2. CASE (\E k \in DOMAIN loops : LoopFails(k)) /\ UNCHANGED receiverVars
    BY <1>1, <1>6, <1>7, <2>1, <2>2 DEF LoopFails, sReconnect, sConnection
  <2>3. CASE (WriteFails \/ FinalizeFails) /\ UNCHANGED senderVars
    BY <1>1, <1>4, <1>5, <2>1, <2>3 DEF WriteFails, FinalizeFails, TakeFrame, receiverVars,
       rConnection, signalVars
  <2> QED  BY <1>27, <2>2, <2>3 DEF Faults
<1>28. CASE UNCHANGED vars
  BY <1>1, <1>5, <1>6, <1>7, <1>8, <1>28 DEF vars
<1> HIDE DEF Line, Ends, Queues
<1> QED  BY <1>13, <1>14, <1>15, <1>16, <1>17, <1>18, <1>19, <1>22, <1>23, <1>24, <1>25, <1>26,
            <1>27, <1>28, CalmFootprint DEF CalmStep

\* A FILE_REJECT is on its way.
RejectOut == \E i \in DOMAIN ctlToSender : ctlToSender[i].t = "FILE_REJECT"

\* The offer was rejected: nothing is left that could start a loop.
AllRejected == ~BeforeLoop /\ loops = <<>>

\* What the sending page shows follows from how far the transfer is.
Shown ==
  /\ sPeer = 0 => sState = "WAITING_FOR_PEER"
  /\ sPeer > opened => sState = "CONNECTING"
  /\ RejectOut => AllRejected
  /\ opened > 0 /\ loops = <<>> =>
       sState = "AWAITING_ACCEPTANCE" \/ (sState = "CANCELLED" /\ AllRejected)
  /\ loops = <<>> => \A f \in Files : sFile[f] = "QUEUED"
  /\ loops # <<>> => sState \in {"TRANSFERRING", "PAUSED", "COMPLETED"}

\* A step that the table has, or the one that it has not.
TableStep ==
  \/ sState' = sState \/ CanTransition(sState, sState')
  \/ sState = "PAUSED" /\ sState' = "COMPLETED"

\* The head and the tail of a queue are of the queue.
LEMMA HeadIsThere ==
  ASSUME NEW S, NEW q \in Seq(S), q # <<>>
  PROVE  /\ \E i \in DOMAIN q : q[i] = Head(q)
         /\ \A i \in DOMAIN Tail(q) : \E j \in DOMAIN q : q[j] = Tail(q)[i]
<1>1. 1 \in DOMAIN q /\ q[1] = Head(q)
  BY QueueOps
<1>2. \A i \in DOMAIN Tail(q) : i + 1 \in DOMAIN q /\ q[i + 1] = Tail(q)[i]
  BY QueueOps
<1> QED  BY <1>1, <1>2

\* Once an offer is rejected, nothing but FILE_REJECT is answered, and no loop starts.
LEMMA RejectedStays ==
  ASSUME MaxConns = 1, OneRun, AllRejected, [Next]_vars
  PROVE  AllRejected'
<1>1. /\ ctlToReceiver \in Seq(ReceiverControl) /\ ctlToSender \in Seq(SenderControl)
      /\ opened \in 0..1 /\ sPeer \in 0..1 /\ opened <= sPeer
      /\ Types /\ Answering /\ Turn
  BY DEF OneRun, Types, ChannelTypes, SenderTypes, LinkOrder
<1>2. /\ opened # 0 /\ ~OfferOut /\ dialog = {} /\ accepting = <<>> /\ ~AcceptOut /\ loops = <<>>
  BY DEF AllRejected, BeforeLoop, BeforeAccept, BeforeAnswer, BeforeDialog
<1>3. ~ConnectionOpens
  BY <1>1, <1>2 DEF ConnectionOpens, ChannelsReady
<1>4. ~ReceiverStep(HandleFileOffer)
  BY <1>1, <1>2, HeadIsThere DEF ReceiverStep, HandleFileOffer, Hear, OfferOut
<1>5. ~ReceiverStep(Accept) /\ ~\E i \in DOMAIN accepting : ReceiverStep(SinkCreated(i))
  BY <1>2, EmptySeq DEF ReceiverStep, Accept
<1>6. ~SenderStep(HandleAccept)
  BY <1>1, <1>2, HeadIsThere DEF SenderStep, HandleAccept, TakeControl, AcceptOut
<1>7. Quieter
  BY <1>3, <1>4, <1>5, <1>6, TurnFootprint
<1>8. /\ \A i \in DOMAIN ctlToReceiver' : ctlToReceiver'[i].t = "FILE_OFFER" =>
           \E j \in DOMAIN ctlToReceiver : ctlToReceiver[j] = ctlToReceiver'[i]
      /\ \A i \in DOMAIN ctlToSender' : ctlToSender'[i].t = "FILE_ACCEPT" =>
           \E j \in DOMAIN ctlToSender : ctlToSender[j] = ctlToSender'[i]
  <2>1. /\ Fewer(ctlToReceiver, ctlToReceiver', {"CANCEL"})
        /\ Fewer(ctlToSender, ctlToSender', {"CANCEL", "FILE_REJECT"})
    BY <1>7 DEF Quieter
  <2>2. \A i \in DOMAIN ctlToReceiver' : ctlToReceiver'[i].t = "FILE_OFFER" =>
          \E j \in DOMAIN ctlToReceiver : ctlToReceiver[j] = ctlToReceiver'[i]
    BY <1>1, <2>1, FewerKeeps, "FILE_OFFER" \notin {"CANCEL"}
  <2>3. \A i \in DOMAIN ctlToSender' : ctlToSender'[i].t = "FILE_ACCEPT" =>
          \E j \in DOMAIN ctlToSender : ctlToSender[j] = ctlToSender'[i]
    <3> DEFINE last == {"CANCEL", "FILE_REJECT"}
    <3>1. ctlToSender \in Seq(SenderControl) /\ "FILE_ACCEPT" \notin last
      BY <1>1
    <3>2. Fewer(ctlToSender, ctlToSender', last)
      BY <2>1
    <3> HIDE DEF last
    <3> QED  BY <3>1, <3>2, FewerKeeps
  <2> QED  BY <2>2, <2>3
<1>9. ~OfferOut' /\ ~AcceptOut'
  BY <1>2, <1>8 DEF OfferOut, AcceptOut
<1>10. opened' = opened /\ dialog' = {} /\ accepting' = <<>>
  BY <1>2, <1>7 DEF Quieter
<1>11. loops' = <<>>
  BY <1>1, <1>2, <1>6, StartKept
<1> QED  BY <1>2, <1>9, <1>10, <1>11 DEF AllRejected, BeforeLoop, BeforeAccept, BeforeAnswer,
            BeforeDialog

\* What the page shows stays in line with the transfer, and moves along the table.
LEMMA ShownStep ==
  ASSUME MaxConns = 1, Reliable, OneRun, Calm, Shown, [Next]_vars
  PROVE  Shown' /\ TableStep
<1>1. /\ Types /\ Answering /\ Turn /\ opened \in 0..1 /\ sPeer \in 0..1 /\ opened <= sPeer
      /\ ctlToReceiver \in Seq(ReceiverControl) /\ ctlToSender \in Seq(SenderControl)
      /\ sFile \in [Files -> {"QUEUED", "TRANSFERRING", "PAUSED", "CANCELLED", "COMPLETED"}]
      /\ loops \in Seq(Loops)
      /\ sPeer' \in 0..1 /\ opened' \in 0..1
  BY TypesStep DEF OneRun, Types, ChannelTypes, SenderTypes, LinkOrder
<1> DEFINE Place == UNCHANGED <<opened, sPeer>>
           Face == UNCHANGED <<sState, sFile>>
           NoNewReject == RejectOut' => RejectOut
           SameRuns == loops' = <<>> <=> loops = <<>>
<1>2. Face => TableStep
  BY DEF TableStep
<1>3. Place /\ Face /\ SameRuns /\ NoNewReject => Shown'
  BY RejectedStays DEF Shown
<1>4. UNCHANGED sControl \/ UNCHANGED senderVars => Face
  BY DEF sControl, senderVars
<1>5. ~SenderStep(HandleAccept) => SameRuns
  BY <1>1, StartKept
<1>6. UNCHANGED ctlToSender \/ (ctlToSender # <<>> /\ ctlToSender' = Tail(ctlToSender)) => NoNewReject
  <2>1. ctlToSender \in Seq(SenderControl)
    BY <1>1
  <2>2. ctlToSender # <<>> => \A i \in DOMAIN Tail(ctlToSender) :
          \E j \in DOMAIN ctlToSender : ctlToSender[j] = Tail(ctlToSender)[i]
    BY <2>1, HeadIsThere
  <2> QED  BY <2>2 DEF RejectOut
<1>7. AcceptOut => loops = <<>> /\ ~RejectOut
  BY <1>1 DEF Shown, AllRejected, BeforeLoop, Turn, InTurn
<1>8. UNCHANGED linkVars \/ UNCHANGED channelVars => UNCHANGED <<opened, ctlToSender>>
  BY DEF linkVars, channelVars
<1>9. UNCHANGED senderVars => UNCHANGED sPeer
  BY DEF senderVars, sConnection
<1>10. CASE SenderStep(BeginHandshake)
  <2>1. sPeer = 0 /\ sPeer' = 1 /\ opened = 0 /\ opened' = 0 /\ sState' = "CONNECTING"
        /\ UNCHANGED <<loops, sFile, ctlToSender>>
    BY <1>1, <1>10, MaxConns = 1 DEF SenderStep, BeginHandshake, channelVars
  <2>2. loops = <<>> /\ ~RejectOut
    BY <1>1, <2>1 DEF Turn, InTurn, BeforeLoop, BeforeAccept, BeforeAnswer, BeforeDialog, Shown,
       AllRejected
  <2>3. ~RejectOut'
    BY <2>1, <2>2 DEF RejectOut
  <2>4. Shown'
    BY <2>1, <2>2, <2>3 DEF Shown
  <2>5. sState = "WAITING_FOR_PEER"
    BY <2>1 DEF Shown
  <2> QED  BY <2>1, <2>4, <2>5 DEF TableStep, CanTransition, Transitions
<1>11. CASE SenderStep(TakeAnswer)
  <2>1. Place /\ Face /\ ~SenderStep(HandleAccept) /\ UNCHANGED <<ctlToSender, loops>>
    BY <1>1, <1>4, <1>8, <1>11 DEF SenderStep, TakeAnswer, HandleAccept, TakeControl, sControl
  <2> QED  BY <1>2, <1>3, <1>6, <2>1
<1>12. CASE ReceiverStep(TakeOffer)
  <2>1. Place /\ Face /\ UNCHANGED <<ctlToSender, loops>>
    BY <1>4, <1>8, <1>9, <1>12 DEF ReceiverStep, TakeOffer, senderVars, sControl
  <2> QED  BY <1>2, <1>3, <1>6, <2>1
<1>13. CASE ConnectionOpens
  <2>1. /\ opened = 0 /\ sPeer = 1 /\ opened' = 1 /\ sPeer' = 1
        /\ sState' = "AWAITING_ACCEPTANCE" /\ UNCHANGED <<loops, sFile, ctlToSender>>
    BY <1>1, <1>13 DEF ConnectionOpens, ChannelsReady, Calm, sConnection
  <2>2. loops = <<>> /\ ~RejectOut
    BY <1>1, <2>1 DEF Turn, InTurn, BeforeLoop, BeforeAccept, BeforeAnswer, BeforeDialog, Shown,
       AllRejected
  <2>3. ~RejectOut'
    BY <2>1, <2>2 DEF RejectOut
  <2>4. Shown'
    BY <2>1, <2>2, <2>3 DEF Shown
  <2>5. sState = "CONNECTING"
    BY <2>1 DEF Shown
  <2> QED  BY <2>1, <2>4, <2>5 DEF TableStep, CanTransition, Transitions
<1>14. CASE SenderStep(HandleAccept)
  <2>1. /\ ctlToSender # <<>> /\ Head(ctlToSender).t = "FILE_ACCEPT"
        /\ ctlToSender' = Tail(ctlToSender) /\ sState' = "TRANSFERRING"
        /\ Place /\ UNCHANGED sFile
    BY <1>14 DEF SenderStep, HandleAccept, TakeControl, sConnection
  <2>2. AcceptOut
    BY <1>1, <2>1, HeadIsThere DEF AcceptOut
  <2>3. opened # 0 /\ loops = <<>> /\ ~RejectOut /\ sState = "AWAITING_ACCEPTANCE"
    <3>1. ~BeforeAccept
      BY <1>1, <2>2 DEF Turn, InTurn
    <3> QED  BY <1>1, <1>7, <2>2, <3>1 DEF Shown, AllRejected, BeforeLoop, BeforeAccept,
                BeforeAnswer, BeforeDialog
  <2>4. loops' # <<>>
    <3>1. loops' = Append(loops, Loop(Head(ctlToSender).resume, Head(ctlToSender).known))
      BY <1>14 DEF SenderStep, HandleAccept
    <3>2. \A x : Append(<<>>, x) # <<>>
      OBVIOUS
    <3> QED  BY <2>3, <3>1, <3>2
  <2>5. ~RejectOut'
    BY <1>6, <2>1, <2>3
  <2>6. Shown'
    BY <1>1, <2>1, <2>3, <2>4, <2>5 DEF Shown
  <2> QED  BY <2>1, <2>3, <2>6 DEF TableStep, CanTransition, Transitions
<1>15. CASE SenderStep(HandleReject)
  <2>1. /\ ctlToSender # <<>> /\ Head(ctlToSender).t = "FILE_REJECT"
        /\ ctlToSender' = Tail(ctlToSender) /\ sState' = "CANCELLED"
        /\ Place /\ UNCHANGED <<loops, sFile>>
    BY <1>15 DEF SenderStep, HandleReject, TakeControl, sConnection
  <2>2. RejectOut
    BY <1>1, <2>1, HeadIsThere DEF RejectOut
  <2>3. AllRejected /\ AllRejected' /\ opened # 0 /\ loops = <<>>
    BY <2>2, RejectedStays DEF Shown, AllRejected, BeforeLoop, BeforeAccept, BeforeAnswer,
       BeforeDialog
  <2>4. sState \in {"AWAITING_ACCEPTANCE", "CANCELLED"}
    BY <1>1, <2>3 DEF Shown
  <2>5. Shown'
    BY <1>1, <2>1, <2>3 DEF Shown
  <2> QED  BY <2>1, <2>4, <2>5 DEF TableStep, CanTransition, Transitions
<1>16. CASE SenderStep(ResumeCurrentFile) \/ Pauses
  <2>1. /\ Place /\ UNCHANGED ctlToSender /\ ~SenderStep(HandleAccept)
        /\ \E f \in Files : sFile[f] # "QUEUED"
        /\ sState \in {"TRANSFERRING", "PAUSED", "AWAITING_ACCEPTANCE", "CONNECTING"}
        /\ sState' \in {"TRANSFERRING", "PAUSED"}
    <3>1. ~SenderStep(HandleAccept)
      <4>1. UNCHANGED ctlToSender
        BY <1>8, <1>16 DEF SenderStep, ResumeCurrentFile, Pauses, PauseCurrentFile
      <4>2. ctlToSender # <<>> => Tail(ctlToSender) # ctlToSender
        BY <1>1, QueueTypes
      <4> QED  BY <4>1, <4>2 DEF SenderStep, HandleAccept, TakeControl
    <3> QED  BY <1>8, <1>16, <3>1 DEF SenderStep, ResumeCurrentFile, Pauses, PauseCurrentFile,
                sConnection
  <2>2. loops # <<>> /\ loops' # <<>> /\ sState \in {"TRANSFERRING", "PAUSED"}
    BY <1>5, <2>1 DEF Shown
  <2>3. ~RejectOut /\ ~RejectOut'
    BY <1>6, <2>1, <2>2 DEF Shown, AllRejected
  <2>4. sPeer # 0 /\ ~(sPeer > opened)
    BY <1>1, <2>2 DEF Turn, InTurn, BeforeLoop, BeforeAccept, BeforeAnswer, BeforeDialog
  <2>5. Shown'
    BY <2>1, <2>2, <2>3, <2>4 DEF Shown
  <2> QED  BY <2>1, <2>2, <2>5 DEF TableStep, CanTransition, Transitions
<1>17. CASE ReceiverStep(HandleSessionInit) \/ ReceiverStep(KeyImported)
  <2>1. UNCHANGED senderVars /\ UNCHANGED <<opened, ctlToSender>>
    BY <1>8, <1>17 DEF ReceiverStep, HandleSessionInit, KeyImported
  <2> QED  BY <1>2, <1>3, <1>4, <1>6, <1>9, <2>1 DEF senderVars, sControl
\* what the receiving page answers
<1>18. ASSUME NEW files, NEW receivers, SendAccept(files, receivers) PROVE NoNewReject
  <2> DEFINE m == [t |-> "FILE_ACCEPT",
                   known |-> {f \in Files : receivers[f] # None},
                   resume |-> [f \in Files |->
                     IF f \in files /\ receivers[f] # None
                     THEN ResumeFromChunk(receivers[f]) ELSE 0]]
  <2>1. ctlToSender' \in {ctlToSender, ctlToSender \o <<m>>} /\ m.t = "FILE_ACCEPT"
    BY <1>18 DEF SendAccept, Say, Post
  <2> HIDE DEF m
  <2>2. ASSUME ctlToSender' = ctlToSender \o <<m>> PROVE NoNewReject
    <3> DEFINE S == SenderControl \cup {m}
    <3>1. ctlToSender \in Seq(S) /\ m \in S
      BY <1>1
    <3>2. ctlToSender' = Append(ctlToSender, m)
      BY <1>1, <2>2
    <3> HIDE DEF S
    <3>3. /\ \A i \in DOMAIN ctlToSender' : i \in DOMAIN ctlToSender \/ i = Len(ctlToSender) + 1
          /\ ctlToSender'[Len(ctlToSender) + 1] = m
          /\ \A i \in DOMAIN ctlToSender : ctlToSender'[i] = ctlToSender[i]
      BY <3>1, <3>2, QueueOps
    <3>4. "FILE_REJECT" # "FILE_ACCEPT"
      OBVIOUS
    <3> QED  BY <2>1, <3>3, <3>4 DEF RejectOut
  <2> QED  BY <1>6, <2>1, <2>2
<1>19. CASE ReceiverStep(HandleFileOffer)
  <2>1. UNCHANGED senderVars /\ UNCHANGED opened
    BY <1>19 DEF ReceiverStep, HandleFileOffer
  <2>2. NoNewReject
    BY <1>6, <1>18, <1>19 DEF ReceiverStep, HandleFileOffer
  <2> QED  BY <1>2, <1>3, <1>4, <1>9, <2>1, <2>2 DEF senderVars, sControl
<1>20. CASE \E i \in DOMAIN accepting : ReceiverStep(SinkCreated(i))
  <2>1. UNCHANGED senderVars /\ UNCHANGED opened
    BY <1>20 DEF ReceiverStep, SinkCreated
  <2>2. NoNewReject
    BY <1>6, <1>18, <1>20 DEF ReceiverStep, SinkCreated
  <2> QED  BY <1>2, <1>3, <1>4, <1>9, <2>1, <2>2 DEF senderVars, sControl
<1>21. CASE ReceiverUser
  <2>1. UNCHANGED senderVars
    BY <1>21 DEF ReceiverUser, ReceiverStep
  <2>2. CASE ReceiverStep(Accept)
    <3>1. UNCHANGED <<opened, ctlToSender>>
      BY <1>8, <2>2 DEF ReceiverStep, Accept
    <3> QED  BY <1>2, <1>3, <1>4, <1>6, <1>9, <2>1, <3>1 DEF senderVars, sControl
  <2>3. CASE ReceiverStep(Reject)
    <3>1. /\ dialog # {} /\ dialog' = {} /\ UNCHANGED <<accepting, opened, ctlToReceiver>>
      BY <2>3 DEF ReceiverStep, Reject
    <3>2. opened # 0 /\ ~OfferOut /\ accepting = <<>> /\ ~AcceptOut /\ loops = <<>>
      BY <1>1, <3>1 DEF Turn, InTurn, BeforeLoop, BeforeAccept, BeforeAnswer, BeforeDialog
    <3>3. ~AcceptOut'
      <4>1. Fewer(ctlToSender, ctlToSender', {"FILE_REJECT"})
        BY <2>3 DEF ReceiverStep, Reject, Say, Post, Fewer
      <4>2. ctlToSender \in Seq(SenderControl)
        BY <1>1
      <4>3. \A i \in DOMAIN ctlToSender' : ctlToSender'[i].t = "FILE_ACCEPT" =>
              \E j \in DOMAIN ctlToSender : ctlToSender[j] = ctlToSender'[i]
        BY <4>1, <4>2, FewerKeeps, "FILE_ACCEPT" \notin {"FILE_REJECT"}
      <4> QED  BY <3>2, <4>3 DEF AcceptOut
    <3>4. loops' = <<>>
      BY <2>1, <3>2 DEF senderVars, sControl
    <3>5. AllRejected'
      BY <3>1, <3>2, <3>3, <3>4 DEF AllRejected, BeforeLoop, BeforeAccept, BeforeAnswer,
         BeforeDialog, OfferOut
    <3>6. Place /\ Face
      BY <1>4, <1>9, <2>1, <3>1
    <3>7. Shown'
      BY <3>2, <3>4, <3>5, <3>6 DEF Shown
    <3> QED  BY <1>2, <3>6, <3>7
  <2> QED  BY <1>21, <2>2, <2>3 DEF ReceiverUser
<1>22. CASE ReceiverFrames
  <2>1. UNCHANGED senderVars /\ UNCHANGED <<opened, ctlToSender>>
    BY <1>22 DEF ReceiverFrames, ReceiverStep, TakeChunk, TakeFileComplete, TakeTransferComplete,
       TakeFrame
  <2> QED  BY <1>2, <1>3, <1>4, <1>6, <1>9, <2>1 DEF senderVars, sControl
\* the loop goes on
<1>23. ASSUME NEW k \in DOMAIN loops, UNCHANGED <<opened, ctlToSender, sPeer>>,
              \/ UNCHANGED sState
              \/ sState' = "COMPLETED"
       PROVE  Shown' /\ TableStep
  <2>1. loops # <<>>
    BY <1>23, EmptySeq
  <2>2. ~SenderStep(HandleAccept) /\ loops' # <<>>
    <3>1. ctlToSender # <<>> => Tail(ctlToSender) # ctlToSender
      BY <1>1, QueueTypes
    <3>2. ~SenderStep(HandleAccept)
      BY <1>23, <3>1 DEF SenderStep, HandleAccept, TakeControl
    <3> QED  BY <1>5, <2>1, <3>2
  <2>3. ~RejectOut /\ ~RejectOut'
    BY <1>6, <1>23, <2>1 DEF Shown, AllRejected
  <2>4. sPeer # 0 /\ ~(sPeer > opened)
    BY <1>1, <2>1 DEF Turn, InTurn, BeforeLoop, BeforeAccept, BeforeAnswer, BeforeDialog
  <2>5. sState \in {"TRANSFERRING", "PAUSED", "COMPLETED"}
    BY <2>1 DEF Shown
  <2>6. Shown'
    BY <1>23, <2>2, <2>3, <2>4, <2>5 DEF Shown
  <2> QED  BY <1>23, <2>5, <2>6 DEF TableStep, CanTransition, Transitions
<1>24. CASE Continuation \/ SenderReads
  <2>1. PICK k \in DOMAIN loops :
          \/ SenderStep(NextFile(k)) \/ SenderStep(PumpContinues(k)) \/ SenderStep(PumpReturns(k))
          \/ SenderStep(PrefixHashed(k)) \/ SenderStep(ChunkRead(k)) \/ SenderStep(BufferLow(k))
          \/ SenderStep(HistorySaved(k))
    BY <1>24 DEF Continuation, SenderReads
  <2>2. /\ UNCHANGED <<opened, ctlToSender, sPeer>>
        /\ sState' = sState \/ sState' = "COMPLETED"
    <3>1. CASE SenderStep(NextFile(k)) \/ SenderStep(PumpReturns(k)) \/ SenderStep(ChunkRead(k))
      BY <3>1 DEF SenderStep, NextFile, PumpReturns, ChunkRead, sConnection
    <3>2. CASE SenderStep(PumpContinues(k)) \/ SenderStep(PrefixHashed(k))
               \/ SenderStep(BufferLow(k)) \/ SenderStep(HistorySaved(k))
      BY <1>8, <3>2 DEF SenderStep, PumpContinues, PrefixHashed, BufferLow, HistorySaved, sConnection
    <3> QED  BY <2>1, <3>1, <3>2
  <2> QED  BY <1>23, <2>2
<1>25. CASE Faults
  <2>1. CASE (\E k \in DOMAIN loops : LoopFails(k)) /\ UNCHANGED receiverVars
    BY <1>8, <1>23, <2>1 DEF LoopFails, sConnection
  <2>2. CASE (WriteFails \/ FinalizeFails) /\ UNCHANGED senderVars
    <3>1. UNCHANGED <<opened, ctlToSender, loops>>
      BY <2>2 DEF WriteFails, FinalizeFails, TakeFrame, senderVars, sControl
    <3> QED  BY <1>2, <1>3, <1>4, <1>6, <1>9, <2>2, <3>1
  <2> QED  BY <1>25, <2>1, <2>2 DEF Faults
<1>26. CASE UNCHANGED vars
  <2>1. UNCHANGED senderVars /\ UNCHANGED <<opened, ctlToSender>>
    BY <1>8, <1>26 DEF vars
  <2> QED  BY <1>2, <1>3, <1>4, <1>6, <1>9, <2>1 DEF senderVars, sControl
<1> HIDE DEF Place, Face, NoNewReject, SameRuns
<1> QED  BY <1>1, <1>10, <1>11, <1>12, <1>13, <1>14, <1>15, <1>16, <1>17, <1>19, <1>20, <1>21,
            <1>22, <1>24, <1>25, <1>26, CalmFootprint DEF CalmStep

\* Over one connection that lasts, while no user cancels or leaves and the server refuses
\* nothing, the sending page goes through its states as the table of stateMachine.ts has it,
\* but for a pause on the last chunk, whatever reads, writes and history entries are rejected.
THEOREM TableIsFollowed ==
  ASSUME MaxConns = 1, Reliable
  PROVE  Spec => FollowsTable
<1>1. Init => Calm /\ Shown
  <2>1. DOMAIN <<>> = {} /\ DOMAIN <<[t |-> "PEER_JOINED"]>> = {1}
    OBVIOUS
  <2>2. Init => Calm
    BY <2>1 DEF Init, LinkInit, SenderInit, ReceiverInit, Calm, Only
  <2>3. Init => Shown
    BY <2>1 DEF Init, LinkInit, SenderInit, Shown, RejectOut
  <2> QED  BY <2>2, <2>3
<1>2. OneRun /\ Calm /\ Shown /\ [Next]_vars => Calm' /\ Shown'
  BY CalmKept, ShownStep, MaxConns = 1, Reliable DEF OneRun
<1>3. OneRun /\ Calm /\ Shown /\ [Next]_vars =>
        [CanTransition(sState, sState') \/ (sState = "PAUSED" /\ sState' = "COMPLETED")]_sState
  BY ShownStep, MaxConns = 1, Reliable DEF TableStep
<1>4. Spec => []OneRun
  BY OneRunHolds, MaxConns = 1
<1> QED  BY <1>1, <1>2, <1>3, <1>4, PTL DEF Spec, FollowsTable
=============================================================================
