--------------------------- MODULE Transfer_proofs ---------------------------
(***************************************************************************)
(* For every number of files, chunks, connections and upsets: every        *)
(* variable of Transfer keeps its type, and what cancelAll ended stays     *)
(* ended.                                                                  *)
(*                                                                         *)
(* Types is the inductive invariant under TypeOK.  It says more than       *)
(* TypeOK where a step needs it: what each message carries, that a pump    *)
(* which still reads has a chunk to read, that a loop which runs one has a *)
(* file, and that a run of respondToOffer has a sink to create.            *)
(***************************************************************************)
EXTENDS Transfer, SequenceTheorems, WellFoundedInduction, TLAPS

Chunks == 0..(NumChunks - 1)

SenderNotes ==
  [t : {"PEER_JOINED", "PEER_LEFT", "SESSION_EXPIRED", "RATE_LIMITED"}]
    \cup [t : {"ANSWER"}, n : 1..MaxConns]
ReceiverNotes ==
  [t : {"PEER_LEFT", "SESSION_EXPIRED", "RATE_LIMITED", "ERROR"}]
    \cup [t : {"OFFER"}, n : 1..MaxConns]
SenderControl ==
  [t : {"FILE_REJECT", "CANCEL"}]
    \cup [t : {"FILE_ACCEPT"}, known : SUBSET Files, resume : [Files -> 0..NumChunks]]
ReceiverControl ==
  [t : {"SESSION_INIT", "CANCEL"}] \cup [t : {"FILE_OFFER"}, files : SUBSET Files]
FrameSet ==
  [t : {"CHUNK"}, f : Files, c : Chunks]
    \cup [t : {"FILE_COMPLETE"}, f : Files] \cup [t : {"TRANSFER_COMPLETE"}]

\* A pump's index is at most one past the file, a pump that will still read has one
\* inside it, and run() ends behind the last chunk or because it was cancelled.
FittingPumps ==
  {p \in Pumps : /\ p.chunk <= NumChunks
                 /\ p.at \in {"paused", "resumed", "full", "read"} => p.chunk < NumChunks
                 /\ p.at = "completed" => p.chunk = NumChunks
                 /\ p.at = "cancelled" => p.cancelled}

\* A loop that runs a pump, or saves a file's entry, has a file.
LoopRecords ==
  [at : {"next", "run", "save", "done", "dead"}, file : 0..NumFiles,
   resume : [Files -> 0..NumChunks], pump : FittingPumps,
   on : 0..MaxConns, via : 0..MaxConns, known : SUBSET Files]
Loops == {l \in LoopRecords : l.at \in {"run", "save"} => l.file \in Files}

\* A run of respondToOffer has a file to create a sink for.
Answers == [files : SUBSET Files, todo : (SUBSET Files) \ {{}}]

Receivers ==
  {None} \cup [keyed : BOOLEAN, hashed : Seq(Chunks), digested : BOOLEAN]

SignalTypes ==
  /\ session \in BOOLEAN /\ linked \in BOOLEAN
  /\ toSender \in Seq(SenderNotes) /\ toReceiver \in Seq(ReceiverNotes)

ChannelTypes ==
  /\ up \in 0..MaxConns /\ opened \in 0..MaxConns
  /\ ctlToSender \in Seq(SenderControl) /\ ctlToReceiver \in Seq(ReceiverControl)
  /\ frames \in Seq(FrameSet) /\ kept \in 0..Len(frames) /\ ended \subseteq 1..MaxConns

SenderTypes ==
  /\ sState \in {"WAITING_FOR_PEER", "CONNECTING", "AWAITING_ACCEPTANCE",
                 "TRANSFERRING", "PAUSED", "INTERRUPTED"} \cup Closed
  /\ sFile \in [Files -> {"QUEUED", "TRANSFERRING", "PAUSED", "CANCELLED", "COMPLETED"}]
  /\ sPeer \in 0..MaxConns /\ sDesc \in 0..MaxConns
  /\ sOnline \in BOOLEAN /\ sLeft \in BOOLEAN
  /\ reconnecting \in BOOLEAN /\ cancelled \in BOOLEAN
  /\ attempts \in 0..MaxAttempts /\ retries \in Nat
  /\ activeFile \in Files
  /\ loops \in Seq(Loops) /\ activePump \in 0..Len(loops)

ReceiverTypes ==
  /\ rState \in {"CONNECTING", "TRANSFERRING", "INTERRUPTED"} \cup Closed
  /\ rFile \in [Files -> {"ABSENT", "QUEUED", "TRANSFERRING", "VERIFYING", "COMPLETED",
                          "FAILED"}]
  /\ rPeer \in 0..MaxConns /\ rKey \in {"none", "importing", "set"}
  /\ dialog \subseteq Files
  /\ accepting \in Seq(Answers)
  /\ recv \in [Files -> Receivers] /\ completed \subseteq Files
  /\ giveUp \in {"off", "armed", "spent"} /\ rCancelled \in BOOLEAN /\ rGone \in BOOLEAN

WorldTypes ==
  /\ left \in [losses : 0..MaxLosses, upsets : 0..MaxUpsets, pauses : 0..MaxPauses]
  /\ blipped \in BOOLEAN

Types == SignalTypes /\ ChannelTypes /\ SenderTypes /\ ReceiverTypes /\ WorldTypes
-----------------------------------------------------------------------------
(* Lemmas about the operators                                              *)

LEMMA QueueTypes ==
  ASSUME NEW S, NEW q \in Seq(S)
  PROVE  /\ Len(q) \in Nat /\ DOMAIN q = 1..Len(q)
         /\ \A x \in S : Append(q, x) \in Seq(S)
         /\ q # <<>> => /\ Head(q) \in S /\ Tail(q) \in Seq(S)
                        /\ Len(Tail(q)) = Len(q) - 1 /\ Len(q) > 0
         /\ \A i \in DOMAIN q : q[i] \in S
BY LenProperties, HeadTailProperties, ElementOfSeq, AppendProperties, EmptySeq

LEMMA PostType ==
  ASSUME NEW S, NEW q \in Seq(S), NEW msgs \in Seq(S), NEW peer
  PROVE  Post(q, peer, msgs) \in Seq(S)
BY ConcatProperties DEF Post

LEMMA CutType ==
  ASSUME ChannelTypes, NEW a \in Seq(SenderControl), NEW b \in Seq(ReceiverControl),
         CutLink(a, b)
  PROVE  ChannelTypes'
<1>1. PICK k \in kept..Len(frames) : frames' = SubSeq(frames, 1, k) /\ kept' = k
  BY DEF CutLink
<1>2. k \in 0..Len(frames) /\ Len(frames) \in Nat
  BY <1>1, LenProperties DEF ChannelTypes
<1>3. frames' \in Seq(FrameSet) /\ Len(frames') = k
  BY <1>1, <1>2, SubSeqProperties DEF ChannelTypes
<1>4. ctlToSender' \in Seq(SenderControl) /\ ctlToReceiver' \in Seq(ReceiverControl)
  BY EmptySeq DEF CutLink
<1>5. up' = 0 /\ opened' = opened /\ ended' = IF up = 0 THEN ended ELSE ended \cup {up}
  BY DEF CutLink
<1> QED  BY <1>1, <1>2, <1>3, <1>4, <1>5, SenderConstants DEF ChannelTypes

LEMMA SocketGoneTypes ==
  ASSUME SignalTypes
  PROVE  /\ SenderSocketGone => SignalTypes'
         /\ ReceiverSocketGone => SignalTypes'
<1>1. [t |-> "PEER_LEFT"] \in SenderNotes /\ [t |-> "PEER_LEFT"] \in ReceiverNotes
  BY DEF SenderNotes, ReceiverNotes
<1>2. CASE SenderSocketGone
  BY <1>1, <1>2, QueueTypes, EmptySeq DEF SignalTypes, SenderSocketGone
<1>3. CASE ReceiverSocketGone
  BY <1>1, <1>3, QueueTypes, EmptySeq DEF SignalTypes, ReceiverSocketGone
<1> QED  BY <1>2, <1>3

\* A set of naturals that is not empty has a least element.
LEMMA MinOfSet ==
  ASSUME NEW S \in SUBSET Nat, S # {}
  PROVE  Min(S) \in S /\ \A n \in S : Min(S) <= n
<1>1. PICK m \in S : \A n \in S : ~(<<n, m>> \in OpToRel(<, Nat))
  BY WFMin, NatLessThanWellFounded
<1>2. \A n \in S : m <= n
  <2>1. SUFFICES ASSUME NEW n \in S, n < m PROVE FALSE
    OBVIOUS
  <2>2. <<n, m>> \in Nat \X Nat /\ <<n, m>>[1] = n /\ <<n, m>>[2] = m
    OBVIOUS
  <2>3. <<n, m>> \in OpToRel(<, Nat)
    BY <2>1, <2>2 DEF OpToRel
  <2> QED  BY <1>1, <2>3
<1> QED  BY <1>2 DEF Min

\* One with an upper bound has a greatest.
LEMMA MaxOfSet ==
  ASSUME NEW N \in Nat, NEW S \in SUBSET (0..N), S # {}
  PROVE  Max(S) \in S /\ \A n \in S : n <= Max(S)
<1> DEFINE T == {N - n : n \in S}
<1>1. T \in SUBSET Nat /\ T # {}
  <2>1. \A n \in S : N - n \in Nat
    OBVIOUS
  <2> QED  BY <2>1
<1>2. Min(T) \in T /\ \A n \in T : Min(T) <= n
  BY <1>1, MinOfSet
<1>3. PICK m \in S : Min(T) = N - m
  BY <1>2
<1>4. \A n \in S : n <= m
  <2>1. \A n \in S : N - m <= N - n
    BY <1>2, <1>3
  <2>2. m \in 0..N /\ \A n \in S : n \in 0..N
    OBVIOUS
  <2> QED  BY <2>1, <2>2
<1> QED  BY <1>4 DEF Max
-----------------------------------------------------------------------------
(* Types: the sending page                                                 *)

SenderSide == SignalTypes /\ ChannelTypes /\ SenderTypes

LEMMA PumpTypes ==
  ASSUME NEW p \in FittingPumps
  PROVE  /\ PausePump(p) \in FittingPumps /\ ResumePump(p) \in FittingPumps
         /\ CancelPump(p) \in FittingPumps
         /\ p.at = "hash" => AfterHash(p) \in FittingPumps
         /\ p.at = "top" => AtTop(p, NumChunks) \in FittingPumps
         /\ p.at = "resumed" => \A full \in BOOLEAN : AtBuffer(p, full) \in FittingPumps
         /\ p.at = "full" => AfterDrain(p) \in FittingPumps
         /\ p.at = "read" => AfterRead(p) \in FittingPumps
<1>1. PausePump(p) \in FittingPumps /\ ResumePump(p) \in FittingPumps
  BY LinkConstants DEF FittingPumps, Pumps, PumpPlaces, PausePump, ResumePump
<1>2. CancelPump(p) \in FittingPumps
  BY <1>1 DEF FittingPumps, Pumps, PumpPlaces, CancelPump
<1>3. p.at = "hash" => AfterHash(p) \in FittingPumps
  BY LinkConstants DEF FittingPumps, Pumps, PumpPlaces, AfterHash
<1>4. p.at = "top" => AtTop(p, NumChunks) \in FittingPumps
  BY LinkConstants DEF FittingPumps, Pumps, PumpPlaces, AtTop
<1>5. p.at = "resumed" => \A full \in BOOLEAN : AtBuffer(p, full) \in FittingPumps
  BY LinkConstants DEF FittingPumps, Pumps, PumpPlaces, AtBuffer
<1>6. p.at = "full" => AfterDrain(p) \in FittingPumps
  BY LinkConstants DEF FittingPumps, Pumps, PumpPlaces, AfterDrain
<1>7. p.at = "read" => AfterRead(p) \in FittingPumps
  <2>1. p \in Pumps /\ p.chunk \in Nat /\ p.paused \in BOOLEAN /\ p.cancelled \in BOOLEAN
    BY DEF FittingPumps, Pumps
  <2>2. p.at = "read" => p.chunk + 1 \in Nat /\ p.chunk + 1 <= NumChunks
    BY <2>1, LinkConstants DEF FittingPumps
  <2>3. /\ AfterRead(p).at = "top" /\ AfterRead(p).chunk = p.chunk + 1
        /\ p.chunk + 1 \in Nat => AfterRead(p) \in Pumps
    BY <2>1 DEF AfterRead, Pumps, PumpPlaces
  <2>4. ASSUME p.at = "read" PROVE AfterRead(p) \in FittingPumps
    BY <2>2, <2>3, <2>4 DEF FittingPumps
  <2> QED  BY <2>4
<1> QED  BY <1>1, <1>2, <1>3, <1>4, <1>5, <1>6, <1>7

LEMMA NewPumpTypes ==
  ASSUME NEW from \in 0..NumChunks
  PROVE  NewPump(from) \in FittingPumps
BY LinkConstants DEF FittingPumps, Pumps, PumpPlaces, NewPump

\* A loop whose record changes within its type leaves the others alone.
LEMMA LoopUpdate ==
  ASSUME loops \in Seq(Loops), activePump \in 0..Len(loops),
         NEW k \in DOMAIN loops, NEW l \in Loops,
         loops' = [loops EXCEPT ![k] = l]
  PROVE  loops' \in Seq(Loops) /\ Len(loops') = Len(loops)
BY ExceptSeq DEF Loops

LEMMA ActivePumpTypes ==
  ASSUME loops \in Seq(Loops), activePump \in 0..Len(loops)
  PROVE  /\ OnActivePump(PausePump) \in Seq(Loops)
         /\ OnActivePump(ResumePump) \in Seq(Loops)
         /\ OnActivePump(CancelPump) \in Seq(Loops)
         /\ Len(OnActivePump(PausePump)) = Len(loops)
         /\ Len(OnActivePump(ResumePump)) = Len(loops)
         /\ Len(OnActivePump(CancelPump)) = Len(loops)
<1>1. CASE activePump = 0
  BY <1>1 DEF OnActivePump
<1>2. CASE activePump # 0
  <2> DEFINE l == loops[activePump]
             With(p) == [l EXCEPT !.pump = p]
  <2>1. activePump \in DOMAIN loops
    BY <1>2, LenProperties
  <2>2. l \in Loops
    BY <2>1, ElementOfSeq, LenProperties
  <2>3. \A p \in FittingPumps : With(p) \in Loops
    BY <2>2 DEF Loops, LoopRecords
  <2>4. l.pump \in FittingPumps
    BY <2>2 DEF Loops, LoopRecords
  <2>5. \A p \in FittingPumps :
          /\ [loops EXCEPT ![activePump].pump = p] \in Seq(Loops)
          /\ Len([loops EXCEPT ![activePump].pump = p]) = Len(loops)
    BY <2>1, <2>3, ExceptSeq
  <2> QED  BY <1>2, <2>4, <2>5, PumpTypes DEF OnActivePump
<1> QED  BY <1>1, <1>2

LEMMA SignalingTypes ==
  ASSUME Types
  PROVE  /\ BeginHandshake => SenderSide'
         /\ TakeAnswer => SenderSide'
         /\ TakeNotice => SenderSide'
<1> USE DEF Types, SenderSide
<1>1. ASSUME toSender # <<>>
      PROVE  Head(toSender) \in SenderNotes /\ Tail(toSender) \in Seq(SenderNotes)
  BY <1>1, QueueTypes DEF SignalTypes
<1>2. ASSUME BeginHandshake PROVE SenderSide'
  <2>1. sPeer + 1 \in 1..MaxConns
    BY <1>2, SenderConstants DEF BeginHandshake, SenderTypes
  <2>2. [t |-> "OFFER", n |-> sPeer + 1] \in ReceiverNotes
    BY <2>1 DEF ReceiverNotes
  <2>3. SignalTypes'
    BY <1>1, <1>2, <2>2, QueueTypes DEF BeginHandshake, Relay, SignalTypes
  <2>4. SenderTypes'
    BY <1>2, <2>1, SenderConstants DEF BeginHandshake, SenderTypes, sReconnect
  <2>5. ChannelTypes'
    BY <1>2 DEF BeginHandshake, ChannelTypes, channelVars
  <2> QED  BY <2>3, <2>4, <2>5
<1>3. ASSUME TakeAnswer PROVE SenderSide'
  <2>1. Head(toSender).n \in 0..MaxConns
    BY <1>1, <1>3, SenderConstants DEF TakeAnswer, SenderNotes
  <2>2. SignalTypes'
    BY <1>1, <1>3 DEF TakeAnswer, SignalTypes
  <2>3. SenderTypes'
    BY <1>3, <2>1 DEF TakeAnswer, SenderTypes, sReconnect, sControl
  <2>4. ChannelTypes'
    BY <1>3 DEF TakeAnswer, ChannelTypes, channelVars
  <2> QED  BY <2>2, <2>3, <2>4
<1>4. ASSUME TakeNotice PROVE SenderSide'
  <2>1. SignalTypes'
    BY <1>1, <1>4 DEF TakeNotice, SignalTypes
  <2>2. SenderTypes'
    BY <1>4 DEF TakeNotice, SenderTypes, sReconnect, sConnection, Closed
  <2>3. ChannelTypes'
    BY <1>4 DEF TakeNotice, ChannelTypes, channelVars
  <2> QED  BY <2>1, <2>2, <2>3
<1> QED  BY <1>2, <1>3, <1>4

LEMMA HandleAcceptLoop ==
  ASSUME Types, HandleAccept
  PROVE  Loop(Head(ctlToSender).resume, Head(ctlToSender).known) \in Loops
<1>1. Head(ctlToSender) \in SenderControl /\ Head(ctlToSender).t = "FILE_ACCEPT"
  BY QueueTypes DEF HandleAccept, TakeControl, Types, ChannelTypes
<1>2. /\ Head(ctlToSender).resume \in [Files -> 0..NumChunks]
      /\ Head(ctlToSender).known \in SUBSET Files
  BY <1>1 DEF SenderControl
<1>3. Idle \in FittingPumps
  BY NewPumpTypes, LinkConstants DEF Idle
<1>4. up \in 0..MaxConns /\ 0 \in 0..MaxConns /\ 0 \in 0..NumFiles
  BY LinkConstants, SenderConstants DEF Types, ChannelTypes
<1> QED  BY <1>2, <1>3, <1>4 DEF Loop, Loops, LoopRecords

LEMMA ControlTypes ==
  ASSUME Types
  PROVE  /\ ChannelsReady => SenderSide'
         /\ HandleAccept => SenderSide'
         /\ HandleReject => SenderSide'
         /\ CancelAll => SenderSide'
<1> USE DEF Types, SenderSide
<1>1. ASSUME ctlToSender # <<>>
      PROVE  Head(ctlToSender) \in SenderControl /\ Tail(ctlToSender) \in Seq(SenderControl)
  BY <1>1, QueueTypes DEF ChannelTypes
<1>2. ASSUME ChannelsReady PROVE SenderSide'
  <2>1. /\ <<[t |-> "FILE_OFFER", files |-> Files]>> \in Seq(ReceiverControl)
        /\ <<[t |-> "SESSION_INIT"]>> \in Seq(ReceiverControl)
        /\ [t |-> "FILE_OFFER", files |-> {activeFile}] \in ReceiverControl
    BY DEF ReceiverControl, SenderTypes
  <2>2. ctlToReceiver' \in Seq(ReceiverControl)
    <3>1. \A a \in Seq(ReceiverControl), b \in Seq(ReceiverControl) :
            a \o b \in Seq(ReceiverControl)
      BY ConcatProperties
    <3>2. <<>> \in Seq(ReceiverControl)
      BY EmptySeq
    <3>3. CASE reconnecting
      <4>1. ctlToReceiver' = Append(ctlToReceiver, [t |-> "FILE_OFFER", files |-> {activeFile}])
        BY <1>2, <3>3 DEF ChannelsReady
      <4> QED  BY <2>1, <4>1, QueueTypes DEF ChannelTypes
    <3>4. CASE ~reconnecting
      <4> DEFINE init == IF Encrypted THEN <<[t |-> "SESSION_INIT"]>> ELSE <<>>
                 offer == <<[t |-> "FILE_OFFER", files |-> Files]>>
      <4>1. ctlToReceiver' = ctlToReceiver \o init \o offer
        BY <1>2, <3>4 DEF ChannelsReady
      <4>2. init \in Seq(ReceiverControl) /\ offer \in Seq(ReceiverControl)
        BY <2>1, <3>2
      <4>3. ctlToReceiver \o init \in Seq(ReceiverControl)
        BY <3>1, <4>2 DEF ChannelTypes
      <4> QED  BY <3>1, <4>1, <4>2, <4>3, Zenon
    <3> QED  BY <3>3, <3>4
  <2>3. ChannelTypes'
    BY <1>2, <2>2 DEF ChannelsReady, ChannelTypes, SenderTypes
  <2>4. SenderTypes'
    <3>1. attempts' = 0 \/ attempts' = attempts
      BY <1>2 DEF ChannelsReady
    <3>3. sState' \in {"TRANSFERRING", "AWAITING_ACCEPTANCE"}
      BY <1>2 DEF ChannelsReady
    <3>4. attempts' \in 0..MaxAttempts
      BY <3>1, SenderConstants DEF SenderTypes
    <3>2. reconnecting' = FALSE
          /\ UNCHANGED <<sFile, activeFile, activePump, loops, retries, sPeer, sDesc,
                         sOnline, sLeft, cancelled>>
      BY <1>2 DEF ChannelsReady, sConnection
    <3> QED  BY <3>2, <3>3, <3>4 DEF SenderTypes
  <2>5. SignalTypes'
    BY <1>2 DEF ChannelsReady, SignalTypes, signalVars
  <2> QED  BY <2>3, <2>4, <2>5
<1>3. ASSUME HandleAccept PROVE SenderSide'
  <2>3. Loop(Head(ctlToSender).resume, Head(ctlToSender).known) \in Loops
    BY <1>3, HandleAcceptLoop
  <2>4. loops' \in Seq(Loops) /\ Len(loops') = Len(loops) + 1 /\ Len(loops) \in Nat
    BY <1>3, <2>3, AppendProperties, LenProperties DEF HandleAccept, SenderTypes
  <2>5. SenderTypes'
    BY <1>3, <2>4 DEF HandleAccept, SenderTypes, sReconnect, sConnection
  <2>6. ChannelTypes' /\ SignalTypes'
    BY <1>1, <1>3 DEF HandleAccept, TakeControl, ChannelTypes, SignalTypes, signalVars
  <2> QED  BY <2>5, <2>6
<1>4. ASSUME HandleReject PROVE SenderSide'
  <2>1. SenderTypes'
    BY <1>4 DEF HandleReject, SenderTypes, sReconnect, sConnection, Closed
  <2>2. ChannelTypes' /\ SignalTypes'
    BY <1>1, <1>4 DEF HandleReject, TakeControl, ChannelTypes, SignalTypes, signalVars
  <2> QED  BY <2>1, <2>2
<1>5. ASSUME CancelAll PROVE SenderSide'
  <2>1. /\ Post(ctlToReceiver, sPeer, <<[t |-> "CANCEL"]>>) \in Seq(ReceiverControl)
        /\ <<>> \in Seq(SenderControl)
    <3>1. <<[t |-> "CANCEL"]>> \in Seq(ReceiverControl)
      BY DEF ReceiverControl
    <3> QED  BY <3>1, PostType, EmptySeq DEF ChannelTypes
  <2>2. ChannelTypes'
    BY <1>5, <2>1, CutType DEF CancelAll
  <2>3. SignalTypes'
    BY <1>5, SocketGoneTypes DEF CancelAll
  <2>4. SenderTypes'
    BY <1>5, ActivePumpTypes DEF CancelAll, SenderTypes, sReconnect, Closed
  <2> QED  BY <2>2, <2>3, <2>4
<1> QED  BY <1>2, <1>3, <1>4, <1>5

\* One loop moves within its type.
LEMMA LoopMoves ==
  ASSUME Types, NEW k \in DOMAIN loops,
         loops' = [j \in DOMAIN loops |-> IF j = k THEN loops'[k] ELSE loops[j]]
  PROVE  /\ loops[k] \in Loops /\ loops[k].pump \in FittingPumps
         /\ loops'[k] \in Loops =>
              loops' \in Seq(Loops) /\ activePump \in 0..Len(loops') /\ Len(loops') = Len(loops)
<1>1. loops \in Seq(Loops) /\ DOMAIN loops = 1..Len(loops) /\ Len(loops) \in Nat
      /\ \A j \in DOMAIN loops : loops[j] \in Loops
  BY QueueTypes DEF Types, SenderTypes
<1>2. loops[k].pump \in FittingPumps
  BY <1>1 DEF Loops, LoopRecords
<1>3. loops' = [loops EXCEPT ![k] = loops'[k]]
  BY <1>1
<1>4. ASSUME loops'[k] \in Loops PROVE loops' \in Seq(Loops) /\ Len(loops') = Len(loops)
  BY <1>1, <1>3, <1>4, ExceptSeq
<1> QED  BY <1>1, <1>2, <1>4 DEF Types, SenderTypes

LEMMA PostFramesTypes ==
  ASSUME Types, UNCHANGED <<up, opened, ctlToSender, ctlToReceiver, kept, ended>>,
         UNCHANGED frames \/ \E m \in FrameSet : PostFrames(<<m>>)
  PROVE  ChannelTypes'
<1>1. CASE UNCHANGED frames
  BY <1>1 DEF Types, ChannelTypes
<1>2. CASE \E m \in FrameSet : PostFrames(<<m>>)
  <2>1. PICK m \in FrameSet : frames' = Post(frames, sPeer, <<m>>)
    BY <1>2 DEF PostFrames
  <2>2. frames \in Seq(FrameSet) /\ Len(frames) \in Nat /\ kept \in 0..Len(frames)
    BY QueueTypes DEF Types, ChannelTypes
  <2>3. frames' = frames \/ frames' = frames \o <<m>>
    BY <2>1 DEF Post
  <2>4. frames' \in Seq(FrameSet) /\ Len(frames') \in Nat /\ Len(frames) <= Len(frames')
    BY <2>2, <2>3, ConcatProperties
  <2> QED  BY <2>2, <2>4 DEF Types, ChannelTypes
<1> QED  BY <1>1, <1>2

\* The record a loop is left with when it is over.
LEMMA FinishedTypes ==
  ASSUME Types, NEW place \in {"done", "dead"}
  PROVE  Finished(place) \in Loops
<1>1. Idle \in FittingPumps
  BY NewPumpTypes, LinkConstants DEF Idle
<1>2. up \in 0..MaxConns /\ 0 \in 0..MaxConns /\ 0 \in 0..NumFiles /\ 0 \in 0..NumChunks
  BY LinkConstants, SenderConstants DEF Types, ChannelTypes
<1>3. Loop([f \in Files |-> 0], {}) \in LoopRecords
  BY <1>1, <1>2 DEF Loop, LoopRecords
<1>4. Finished(place) \in LoopRecords /\ Finished(place).at = place
  BY <1>2, <1>3 DEF Finished, LoopRecords
<1> QED  BY <1>4 DEF Loops

LEMMA NextFileTypes ==
  ASSUME Types, NEW k \in DOMAIN loops, NextFile(k)
  PROVE  SenderSide'
<1> DEFINE f == loops[k].file + 1
<1>1. loops[k] \in Loops /\ k \in 1..Len(loops) /\ Len(loops) \in Nat
  BY QueueTypes DEF Types, SenderTypes
<1>2. CASE f \in Files /\ ~cancelled
  <2>1. loops' = [loops EXCEPT ![k].at = "run", ![k].file = f,
                               ![k].pump = NewPump(loops[k].resume[f])]
    BY <1>2 DEF NextFile
  <2>2. NewPump(loops[k].resume[f]) \in FittingPumps
    BY <1>1, <1>2, NewPumpTypes DEF Loops, LoopRecords
  <2>3. loops'[k] \in Loops
    <3>1. loops'[k] = [loops[k] EXCEPT !.at = "run", !.file = f,
                                       !.pump = NewPump(loops[k].resume[f])]
      BY <2>1
    <3>2. f \in 0..NumFiles
      BY <1>1, <1>2 DEF Files
    <3>3. loops'[k] \in LoopRecords
      BY <1>1, <2>2, <3>1, <3>2 DEF Loops, LoopRecords
    <3> QED  BY <1>1, <1>2, <3>1, <3>3 DEF Loops, LoopRecords
  <2>4. loops' = [j \in DOMAIN loops |-> IF j = k THEN loops'[k] ELSE loops[j]]
    BY <2>1
  <2>5. loops' \in Seq(Loops) /\ Len(loops') = Len(loops)
    BY <2>3, <2>4, LoopMoves
  <2>6. activePump' = k /\ activeFile' = f /\ sFile' = [sFile EXCEPT ![f] = "TRANSFERRING"]
        /\ UNCHANGED <<sState, frames>>
    BY <1>2 DEF NextFile
  <2>7. SenderTypes'
    BY <1>1, <1>2, <2>5, <2>6 DEF NextFile, Types, SenderTypes, sReconnect, sConnection
  <2>8. ChannelTypes' /\ SignalTypes'
    BY <2>6 DEF NextFile, Types, ChannelTypes, SignalTypes, signalVars
  <2> QED  BY <2>7, <2>8 DEF SenderSide
<1>3. ASSUME loops' = [loops EXCEPT ![k] = Finished("done")]
      PROVE  loops' \in Seq(Loops) /\ activePump \in 0..Len(loops')
  <2>1. loops'[k] = Finished("done")
        /\ loops' = [j \in DOMAIN loops |-> IF j = k THEN loops'[k] ELSE loops[j]]
    BY <1>3
  <2> QED  BY <2>1, FinishedTypes, LoopMoves
<1>4. CASE f \in Files /\ cancelled
  <2>1. loops' = [loops EXCEPT ![k] = Finished("done")] /\ activeFile' = f
        /\ UNCHANGED <<sState, sFile, activePump, frames>>
    BY <1>4 DEF NextFile
  <2>2. SenderTypes'
    BY <1>3, <1>4, <2>1 DEF NextFile, Types, SenderTypes, sReconnect, sConnection
  <2>3. ChannelTypes' /\ SignalTypes'
    BY <2>1 DEF NextFile, Types, ChannelTypes, SignalTypes, signalVars
  <2> QED  BY <2>2, <2>3 DEF SenderSide
<1>5. CASE f \notin Files
  <2>1. loops' = [loops EXCEPT ![k] = Finished("done")]
        /\ UNCHANGED <<sFile, activeFile, activePump>>
        /\ \/ PostFrames(<<[t |-> "TRANSFER_COMPLETE"]>>) /\ sState' = "COMPLETED"
           \/ UNCHANGED <<sState, frames>>
    BY <1>5 DEF NextFile
  <2>2. SenderTypes'
    BY <1>3, <2>1 DEF NextFile, Types, SenderTypes, sReconnect, sConnection, Closed
  <2>3. ChannelTypes'
    <3>1. [t |-> "TRANSFER_COMPLETE"] \in FrameSet
      BY DEF FrameSet
    <3> QED  BY <2>1, <3>1, PostFramesTypes DEF NextFile
  <2>4. SignalTypes'
    BY DEF NextFile, Types, SignalTypes, signalVars
  <2> QED  BY <2>2, <2>3, <2>4 DEF SenderSide
<1> QED  BY <1>2, <1>4, <1>5

\* A step of a pump that does nothing else.
LEMMA PumpStepTypes ==
  ASSUME Types, NEW k \in DOMAIN loops, NEW p \in FittingPumps,
         \/ loops' = [loops EXCEPT ![k].pump = p]
         \/ \E n \in 0..MaxConns : loops' = [loops EXCEPT ![k].pump = p, ![k].on = n],
         UNCHANGED <<sState, sFile, activeFile, activePump, sReconnect, sConnection, cancelled>>
  PROVE  SenderTypes'
<1>1. loops[k] \in Loops
  BY QueueTypes DEF Types, SenderTypes
<1>2. loops' = [j \in DOMAIN loops |-> IF j = k THEN loops'[k] ELSE loops[j]]
  OBVIOUS
<1>3. \/ loops'[k] = [loops[k] EXCEPT !.pump = p]
      \/ \E n \in 0..MaxConns : loops'[k] = [loops[k] EXCEPT !.pump = p, !.on = n]
  OBVIOUS
<1>4. loops'[k] \in Loops
  BY <1>1, <1>3 DEF Loops, LoopRecords
<1>5. loops' \in Seq(Loops) /\ activePump \in 0..Len(loops')
  BY <1>2, <1>4, LoopMoves
<1> QED  BY <1>5 DEF Types, SenderTypes, sReconnect, sConnection

LEMMA PumpTypesKept ==
  ASSUME Types, NEW k \in DOMAIN loops
  PROVE  /\ PumpContinues(k) => SenderSide'
         /\ PrefixHashed(k) => SenderSide'
         /\ BufferLow(k) => SenderSide'
         /\ ChunkRead(k) => SenderSide'
<1> DEFINE p == loops[k].pump
<1>1. loops[k] \in Loops /\ p \in FittingPumps /\ loops \in Seq(Loops)
  <2>1. loops \in Seq(Loops)
    BY DEF Types, SenderTypes
  <2>2. loops[k] \in Loops
    BY <2>1, QueueTypes
  <2> QED  BY <2>1, <2>2 DEF Loops, LoopRecords
<1>2. TRUE \in BOOLEAN /\ FALSE \in BOOLEAN /\ up \in 0..MaxConns /\ 0 \in 0..MaxConns
  BY SenderConstants DEF Types, ChannelTypes
<1>3. ASSUME UNCHANGED linkVars PROVE SignalTypes' /\ ChannelTypes'
  BY <1>3 DEF Types, SignalTypes, ChannelTypes, linkVars, signalVars, channelVars
<1>4. ASSUME PumpContinues(k) PROVE SenderSide'
  <2>1. \/ p.at = "top" /\ loops' = [loops EXCEPT ![k].pump = AtTop(p, NumChunks)]
        \/ p.at = "resumed" /\ loops' = [loops EXCEPT ![k].pump = AtBuffer(p, FALSE)]
        \/ p.at = "resumed" /\ loops' = [loops EXCEPT ![k].pump = AtBuffer(p, TRUE), ![k].on = up]
    BY <1>4 DEF PumpContinues, SetPump
  <2>2. SenderTypes'
    BY <1>1, <1>2, <1>4, <2>1, PumpTypes, PumpStepTypes DEF PumpContinues
  <2> QED  BY <1>3, <1>4, <2>2 DEF PumpContinues, SenderSide
<1>5. ASSUME PrefixHashed(k) PROVE SenderSide'
  <2>1. SenderTypes'
    BY <1>1, <1>5, PumpTypes, PumpStepTypes DEF PrefixHashed, SetPump
  <2> QED  BY <1>3, <1>5, <2>1 DEF PrefixHashed, SenderSide
<1>6. ASSUME BufferLow(k) PROVE SenderSide'
  <2>1. loops' = [loops EXCEPT ![k].pump = AfterDrain(p), ![k].on = 0]
    BY <1>6 DEF BufferLow
  <2>2. SenderTypes'
    BY <1>1, <1>2, <1>6, <2>1, PumpTypes, PumpStepTypes DEF BufferLow
  <2> QED  BY <1>3, <1>6, <2>2 DEF BufferLow, SenderSide
<1>7. ASSUME ChunkRead(k) PROVE SenderSide'
  <2>1. SenderTypes'
    BY <1>1, <1>7, PumpTypes, PumpStepTypes DEF ChunkRead, SetPump
  <2>2. [t |-> "CHUNK", f |-> loops[k].file, c |-> p.chunk] \in FrameSet
    <3>1. loops[k].file \in Files /\ p \in FittingPumps /\ p.at = "read"
      BY <1>1, <1>7 DEF ChunkRead, Running, Loops, LoopRecords
    <3>2. p.chunk \in Chunks
      BY <3>1, LinkConstants DEF FittingPumps, Pumps, Chunks
    <3> QED  BY <3>1, <3>2 DEF FrameSet
  <2>3. ChannelTypes'
    BY <1>7, <2>2, PostFramesTypes DEF ChunkRead
  <2>4. SignalTypes'
    BY <1>7 DEF ChunkRead, Types, SignalTypes, signalVars
  <2> QED  BY <2>1, <2>3, <2>4 DEF SenderSide
<1> QED  BY <1>4, <1>5, <1>6, <1>7

LEMMA LoopTypesKept ==
  ASSUME Types, NEW k \in DOMAIN loops
  PROVE  /\ PumpReturns(k) => SenderSide'
         /\ HistorySaved(k) => SenderSide'
         /\ LoopFails(k) => SenderSide'
<1>1. loops[k] \in Loops /\ Idle \in FittingPumps
  BY QueueTypes, NewPumpTypes, LinkConstants DEF Types, SenderTypes, Idle
<1>2. ASSUME UNCHANGED linkVars PROVE SignalTypes' /\ ChannelTypes'
  BY <1>2 DEF Types, SignalTypes, ChannelTypes, linkVars, signalVars, channelVars
<1>3. ASSUME PumpReturns(k) PROVE SenderSide'
  <2> DEFINE f == loops[k].file
  <2>1. PICK place \in {"next", "save"}, status \in {"CANCELLED", "COMPLETED"} :
          /\ loops' = [loops EXCEPT ![k].at = place, ![k].pump = Idle]
          /\ sFile' = [sFile EXCEPT ![f] = status]
    BY <1>3 DEF PumpReturns
  <2>2. loops'[k] = [loops[k] EXCEPT !.at = place, !.pump = Idle]
        /\ loops' = [j \in DOMAIN loops |-> IF j = k THEN loops'[k] ELSE loops[j]]
    BY <2>1
  <2>3. f \in Files
    BY <1>1, <1>3 DEF PumpReturns, Running, Loops
  <2>4. loops'[k] \in Loops
    BY <1>1, <2>2, <2>3 DEF Loops, LoopRecords
  <2>5. loops' \in Seq(Loops) /\ activePump' = 0 /\ Len(loops') \in Nat
    BY <1>3, <2>2, <2>4, LoopMoves, LenProperties DEF PumpReturns
  <2>6. SenderTypes'
    BY <1>3, <2>1, <2>3, <2>5 DEF PumpReturns, Types, SenderTypes, sReconnect, sConnection
  <2>7. [t |-> "FILE_COMPLETE", f |-> f] \in FrameSet
    BY <2>3 DEF FrameSet
  <2>8. ChannelTypes'
    BY <1>3, <2>7, PostFramesTypes DEF PumpReturns
  <2>9. SignalTypes'
    BY <1>3 DEF PumpReturns, Types, SignalTypes, signalVars
  <2> QED  BY <2>6, <2>8, <2>9 DEF SenderSide
<1>4. ASSUME HistorySaved(k) PROVE SenderSide'
  <2>1. loops'[k] = [loops[k] EXCEPT !.at = "next"]
        /\ loops' = [j \in DOMAIN loops |-> IF j = k THEN loops'[k] ELSE loops[j]]
    BY <1>4 DEF HistorySaved
  <2>2. loops'[k] \in Loops
    BY <1>1, <2>1 DEF Loops, LoopRecords
  <2>3. loops' \in Seq(Loops) /\ activePump \in 0..Len(loops')
    BY <2>1, <2>2, LoopMoves
  <2>4. SenderTypes'
    BY <1>4, <2>3 DEF HistorySaved, Types, SenderTypes, sReconnect, sConnection
  <2> QED  BY <1>2, <1>4, <2>4 DEF HistorySaved, SenderSide
<1>5. ASSUME LoopFails(k) PROVE SenderSide'
  <2>1. loops'[k] = Finished("dead")
        /\ loops' = [j \in DOMAIN loops |-> IF j = k THEN loops'[k] ELSE loops[j]]
    BY <1>5 DEF LoopFails
  <2>2. loops' \in Seq(Loops) /\ activePump \in 0..Len(loops')
    BY <2>1, FinishedTypes, LoopMoves
  <2>3. SenderTypes'
    BY <1>5, <2>2 DEF LoopFails, Types, SenderTypes, sReconnect, sConnection
  <2> QED  BY <1>2, <1>5, <2>3 DEF LoopFails, SenderSide
<1> QED  BY <1>3, <1>4, <1>5

LEMMA ButtonTypes ==
  ASSUME Types
  PROVE  /\ PauseCurrentFile => SenderSide'
         /\ ResumeCurrentFile => SenderSide'
         /\ Leave => SenderSide'
<1>1. ASSUME PauseCurrentFile PROVE SenderSide'
  <2>1. loops' \in Seq(Loops) /\ Len(loops') = Len(loops)
    BY <1>1, ActivePumpTypes DEF PauseCurrentFile, Types, SenderTypes
  <2>2. SenderTypes'
    BY <1>1, <2>1 DEF PauseCurrentFile, Types, SenderTypes, sReconnect, sConnection
  <2> QED  BY <1>1, <2>2 DEF PauseCurrentFile, Types, SenderSide, SignalTypes, ChannelTypes,
                             linkVars, signalVars, channelVars
<1>2. ASSUME ResumeCurrentFile PROVE SenderSide'
  <2>1. loops' \in Seq(Loops) /\ Len(loops') = Len(loops)
    BY <1>2, ActivePumpTypes DEF ResumeCurrentFile, Types, SenderTypes
  <2>2. SenderTypes'
    BY <1>2, <2>1 DEF ResumeCurrentFile, Types, SenderTypes, sReconnect, sConnection
  <2> QED  BY <1>2, <2>2 DEF ResumeCurrentFile, Types, SenderSide, SignalTypes, ChannelTypes,
                             linkVars, signalVars, channelVars
<1>3. ASSUME Leave PROVE SenderSide'
  <2>1. ChannelTypes'
    BY <1>3, CutType, EmptySeq DEF Leave, Types
  <2>2. SignalTypes'
    BY <1>3, SocketGoneTypes DEF Leave, Types
  <2>3. SenderTypes'
    BY <1>3 DEF Leave, Types, SenderTypes, sReconnect, sControl
  <2> QED  BY <2>1, <2>2, <2>3 DEF SenderSide
<1> QED  BY <1>1, <1>2, <1>3

LEMMA LossTypes ==
  ASSUME Types
  PROVE  /\ LoseConnection => SenderSide'
         /\ AttemptReconnect => SenderSide'
<1>1. ASSUME LoseConnection PROVE SenderSide'
  <2>1. loops' \in Seq(Loops) /\ Len(loops') = Len(loops)
    BY <1>1, ActivePumpTypes DEF LoseConnection, Types, SenderTypes
  <2>2. attempts' \in 0..MaxAttempts /\ retries' \in Nat /\ sState' \in {"FAILED", "INTERRUPTED"}
    BY <1>1, SenderConstants DEF LoseConnection, GivesUp, Types, SenderTypes
  <2>3. SenderTypes'
    BY <1>1, <2>1, <2>2 DEF LoseConnection, Types, SenderTypes, sConnection, Closed
  <2> QED  BY <1>1, <2>3 DEF LoseConnection, Types, SenderSide, SignalTypes, ChannelTypes,
                             linkVars, signalVars, channelVars
<1>2. ASSUME AttemptReconnect PROVE SenderSide'
  <2>1. retries' \in Nat
    BY <1>2 DEF AttemptReconnect, Types, SenderTypes
  <2>2. CASE cancelled \/ ~sOnline
    <3>1. UNCHANGED <<reconnecting, sPeer, sDesc, linkVars>>
      BY <1>2, <2>2 DEF AttemptReconnect
    <3>2. SenderTypes'
      BY <1>2, <2>1, <3>1 DEF AttemptReconnect, Types, SenderTypes, sControl
    <3> QED  BY <3>1, <3>2 DEF Types, SenderSide, SignalTypes, ChannelTypes,
                               linkVars, signalVars, channelVars
  <2>3. CASE ~(cancelled \/ ~sOnline)
    <3>1. /\ sPeer < MaxConns /\ reconnecting' = TRUE /\ sPeer' = sPeer + 1 /\ sDesc' = 0
          /\ CutLink(<<>>, <<>>) /\ Relay([t |-> "OFFER", n |-> sPeer + 1])
          /\ UNCHANGED <<toSender, session, linked>>
      BY <1>2, <2>3 DEF AttemptReconnect
    <3>2. sPeer + 1 \in 1..MaxConns /\ 0 \in 0..MaxConns
      BY <3>1, SenderConstants DEF Types, SenderTypes
    <3>3. [t |-> "OFFER", n |-> sPeer + 1] \in ReceiverNotes
      BY <3>2 DEF ReceiverNotes
    <3>4. SignalTypes'
      BY <3>1, <3>3, QueueTypes DEF Relay, Types, SignalTypes
    <3>5. ChannelTypes'
      BY <3>1, CutType, EmptySeq DEF Types
    <3>6. SenderTypes'
      BY <1>2, <2>1, <3>1, <3>2 DEF AttemptReconnect, Types, SenderTypes, sControl
    <3> QED  BY <3>4, <3>5, <3>6 DEF SenderSide
  <2> QED  BY <2>2, <2>3
<1> QED  BY <1>1, <1>2
-----------------------------------------------------------------------------
(* Types: the receiving page                                               *)

ReceiverSide == SignalTypes /\ ChannelTypes /\ ReceiverTypes

\* The resume point is the length of the longest prefix that is there.
LEMMA ResumePoint ==
  ASSUME NEW r \in [keyed : BOOLEAN, hashed : Seq(Chunks), digested : BOOLEAN]
  PROVE  /\ ResumeFromChunk(r) \in 0..NumChunks
         /\ 0..(ResumeFromChunk(r) - 1) \subseteq Held(r)
<1> DEFINE S == {n \in 0..Len(r.hashed) : 0..(n - 1) \subseteq Held(r)}
           m == Max(S)
<1>1. Len(r.hashed) \in Nat /\ Held(r) \subseteq Chunks
  BY LenProperties, ElementOfSeq DEF Held, ToSet
<1>2. 0 \in S
  BY <1>1
<1>3. m \in S
  BY <1>1, <1>2, MaxOfSet
<1>4. m \in Nat /\ 0..(m - 1) \subseteq Held(r)
  <2>1. \A n \in S : n \in Nat /\ 0..(n - 1) \subseteq Held(r)
    BY <1>1
  <2> HIDE DEF S
  <2> QED  BY <1>3, <2>1
<1>5. m <= NumChunks
  <2>1. ASSUME m > 0 PROVE m - 1 \in Chunks
    <3> HIDE DEF m
    <3>1. m - 1 \in 0..(m - 1)
      BY <1>4, <2>1
    <3> QED  BY <1>1, <1>4, <3>1
  <2> HIDE DEF m
  <2> QED  BY <1>4, <2>1, LinkConstants DEF Chunks
<1>6. ResumeFromChunk(r) = m
  BY DEF ResumeFromChunk
<1> HIDE DEF m
<1> QED  BY <1>4, <1>5, <1>6, LinkConstants

LEMMA SendAcceptTypes ==
  ASSUME Types, NEW files \in SUBSET Files, NEW receivers \in [Files -> Receivers],
         SendAccept(files, receivers)
  PROVE  rState' = "TRANSFERRING" /\ ctlToSender' \in Seq(SenderControl)
<1> DEFINE known == {f \in Files : receivers[f] # None}
           resume == [f \in Files |-> IF f \in files /\ receivers[f] # None
                                      THEN ResumeFromChunk(receivers[f]) ELSE 0]
<1>1. resume \in [Files -> 0..NumChunks]
  BY ResumePoint, LinkConstants DEF Receivers
<1>2. [t |-> "FILE_ACCEPT", known |-> known, resume |-> resume] \in SenderControl
  BY <1>1 DEF SenderControl
<1>3. ctlToSender' = Post(ctlToSender, rPeer,
                          <<[t |-> "FILE_ACCEPT", known |-> known, resume |-> resume]>>)
  BY DEF SendAccept, Say
<1>4. rState' = "TRANSFERRING"
  BY DEF SendAccept
<1>5. <<[t |-> "FILE_ACCEPT", known |-> known, resume |-> resume]>> \in Seq(SenderControl)
  BY <1>2
<1> HIDE DEF known, resume
<1> QED  BY <1>3, <1>4, <1>5, PostType DEF Types, ChannelTypes

LEMMA StatusTypes ==
  ASSUME Types, NEW f \in Files,
         NEW status \in {"TRANSFERRING", "VERIFYING", "COMPLETED", "FAILED"},
         SetStatus(f, status)
  PROVE  rFile' \in [Files -> {"ABSENT", "QUEUED", "TRANSFERRING", "VERIFYING", "COMPLETED",
                               "FAILED"}]
BY DEF SetStatus, Types, ReceiverTypes

LEMMA DestroyTypes ==
  ASSUME Types, NEW last \in Seq(SenderControl), Destroy(last)
  PROVE  /\ SignalTypes' /\ ChannelTypes'
         /\ rGone' = TRUE /\ dialog' = {} /\ giveUp' \in {"off", "armed", "spent"}
<1>1. ChannelTypes'
  BY CutType, EmptySeq DEF Destroy, Types
<1>2. SignalTypes'
  BY SocketGoneTypes DEF Destroy, Types
<1> QED  BY <1>1, <1>2 DEF Destroy, Types, ReceiverTypes

LEMMA NoticeTypes ==
  ASSUME Types
  PROVE  /\ TakeOffer => ReceiverSide'
         /\ TakeNoticeR => ReceiverSide'
         /\ TakeRefusal => ReceiverSide'
<1>1. ASSUME toReceiver # <<>>
      PROVE  Head(toReceiver) \in ReceiverNotes /\ Tail(toReceiver) \in Seq(ReceiverNotes)
  BY <1>1, QueueTypes DEF Types, SignalTypes
<1>2. ASSUME TakeOffer PROVE ReceiverSide'
  <2>1. Head(toReceiver).n \in 1..MaxConns
    BY <1>1, <1>2 DEF TakeOffer, ReceiverNotes
  <2>2. /\ [t |-> "ANSWER", n |-> Head(toReceiver).n] \in SenderNotes
        /\ [t |-> "ERROR"] \in ReceiverNotes
    BY <2>1 DEF SenderNotes, ReceiverNotes
  <2>3. SignalTypes'
    <3>1. /\ Append(toSender, [t |-> "ANSWER", n |-> Head(toReceiver).n]) \in Seq(SenderNotes)
          /\ Append(Tail(toReceiver), [t |-> "ERROR"]) \in Seq(ReceiverNotes)
      BY <1>1, <1>2, <2>2, QueueTypes DEF TakeOffer, Types, SignalTypes
    <3> QED  BY <1>1, <1>2, <3>1 DEF TakeOffer, Types, SignalTypes
  <2>4. ReceiverTypes'
    BY <1>2, <2>1, SenderConstants DEF TakeOffer, Types, ReceiverTypes, rTransfer, rAccept
  <2>5. ChannelTypes'
    BY <1>2 DEF TakeOffer, Types, ChannelTypes, channelVars
  <2> QED  BY <2>3, <2>4, <2>5 DEF ReceiverSide
<1>3. ASSUME TakeNoticeR PROVE ReceiverSide'
  <2>1. SignalTypes'
    BY <1>1, <1>3 DEF TakeNoticeR, Types, SignalTypes
  <2>2. ReceiverTypes'
    BY <1>3 DEF TakeNoticeR, Types, ReceiverTypes, rTransfer, rAccept, rConnection, Closed
  <2>3. ChannelTypes'
    BY <1>3 DEF TakeNoticeR, Types, ChannelTypes, channelVars
  <2> QED  BY <2>1, <2>2, <2>3 DEF ReceiverSide
<1>4. ASSUME TakeRefusal PROVE ReceiverSide'
  <2>1. SignalTypes' /\ ChannelTypes' /\ rGone' = TRUE /\ dialog' = {}
        /\ giveUp' \in {"off", "armed", "spent"}
    BY <1>4, DestroyTypes, EmptySeq DEF TakeRefusal
  <2>2. ReceiverTypes'
    BY <1>4, <2>1 DEF TakeRefusal, Types, ReceiverTypes, rTransfer
  <2> QED  BY <2>1, <2>2 DEF ReceiverSide
<1> QED  BY <1>2, <1>3, <1>4

LEMMA OfferTypes ==
  ASSUME Types
  PROVE  /\ HandleSessionInit => ReceiverSide'
         /\ KeyImported => ReceiverSide'
         /\ HandleFileOffer => ReceiverSide'
         /\ HandleCancelR => ReceiverSide'
<1>1. ASSUME ctlToReceiver # <<>>
      PROVE  /\ Head(ctlToReceiver) \in ReceiverControl
             /\ Tail(ctlToReceiver) \in Seq(ReceiverControl)
  BY <1>1, QueueTypes DEF Types, ChannelTypes
<1>2. ASSUME HandleSessionInit PROVE ReceiverSide'
  <2>1. ReceiverTypes'
    BY <1>2 DEF HandleSessionInit, Types, ReceiverTypes, rTransfer, rConnection
  <2>2. SignalTypes' /\ ChannelTypes'
    BY <1>1, <1>2 DEF HandleSessionInit, Hear, Types, SignalTypes, ChannelTypes, signalVars
  <2> QED  BY <2>1, <2>2 DEF ReceiverSide
<1>3. ASSUME KeyImported PROVE ReceiverSide'
  BY <1>3 DEF KeyImported, Types, ReceiverTypes, rTransfer, rConnection, ReceiverSide,
              SignalTypes, ChannelTypes, linkVars, signalVars, channelVars
<1>4. ASSUME HandleFileOffer PROVE ReceiverSide'
  <2> DEFINE files == Head(ctlToReceiver).files
  <2>1. files \in SUBSET Files
    BY <1>1, <1>4 DEF HandleFileOffer, Hear, ReceiverControl
  <2>2. \/ SendAccept(files, recv) /\ UNCHANGED <<rFile, dialog>>
        \/ /\ rFile' = [f \in Files |-> IF f \in files THEN "QUEUED" ELSE "ABSENT"]
           /\ dialog' = files
           /\ UNCHANGED <<rState, ctlToSender>>
    BY <1>4 DEF HandleFileOffer
  <2>3. rState' \in {"TRANSFERRING", rState} /\ ctlToSender' \in Seq(SenderControl)
    BY <2>1, <2>2, SendAcceptTypes DEF Types, ReceiverTypes, ChannelTypes
  <2>4. rFile' \in [Files -> {"ABSENT", "QUEUED", "TRANSFERRING", "VERIFYING", "COMPLETED",
                              "FAILED"}]
        /\ dialog' \subseteq Files
    BY <2>1, <2>2 DEF Types, ReceiverTypes
  <2>5. ReceiverTypes'
    BY <1>4, <2>3, <2>4 DEF HandleFileOffer, Types, ReceiverTypes, rConnection
  <2>6. SignalTypes' /\ ChannelTypes'
    BY <1>1, <1>4, <2>3 DEF HandleFileOffer, Hear, Types, SignalTypes, ChannelTypes, signalVars
  <2> QED  BY <2>5, <2>6 DEF ReceiverSide
<1>5. ASSUME HandleCancelR PROVE ReceiverSide'
  <2>1. ReceiverTypes'
    BY <1>5 DEF HandleCancelR, Types, ReceiverTypes, rTransfer, rAccept, rConnection, Closed
  <2>2. SignalTypes' /\ ChannelTypes'
    BY <1>1, <1>5 DEF HandleCancelR, Hear, Types, SignalTypes, ChannelTypes, signalVars
  <2> QED  BY <2>1, <2>2 DEF ReceiverSide
<1> QED  BY <1>2, <1>3, <1>4, <1>5

LEMMA AnswerTypes ==
  ASSUME Types
  PROVE  /\ Reject => ReceiverSide'
         /\ Accept => ReceiverSide'
         /\ \A i \in DOMAIN accepting : SinkCreated(i) => ReceiverSide'
<1>1. accepting \in Seq(Answers)
  BY DEF Types, ReceiverTypes
<1>2. ASSUME Reject PROVE ReceiverSide'
  <2>1. <<[t |-> "FILE_REJECT"]>> \in Seq(SenderControl)
    BY DEF SenderControl
  <2>2. ctlToSender' \in Seq(SenderControl)
    BY <1>2, <2>1, PostType DEF Reject, Say, Types, ChannelTypes
  <2>3. ReceiverTypes'
    BY <1>2 DEF Reject, Types, ReceiverTypes, rTransfer, rConnection, Closed
  <2>4. SignalTypes' /\ ChannelTypes'
    BY <1>2, <2>2 DEF Reject, Types, SignalTypes, ChannelTypes, signalVars
  <2> QED  BY <2>3, <2>4 DEF ReceiverSide
<1>3. ASSUME Accept PROVE ReceiverSide'
  <2>1. [files |-> dialog, todo |-> dialog] \in Answers
    BY <1>3 DEF Accept, Answers, Types, ReceiverTypes
  <2>2. accepting' \in Seq(Answers)
    BY <1>1, <1>3, <2>1, QueueTypes DEF Accept
  <2>3. ReceiverTypes'
    BY <1>3, <2>2 DEF Accept, Types, ReceiverTypes, rTransfer, rConnection
  <2> QED  BY <1>3, <2>3 DEF Accept, ReceiverSide, Types, SignalTypes, ChannelTypes,
                             linkVars, signalVars, channelVars
<1>4. ASSUME NEW i \in DOMAIN accepting, SinkCreated(i) PROVE ReceiverSide'
  <2> DEFINE a == accepting[i]
             f == Min(a.todo)
             more == a.todo \ {f}
             receivers == [recv EXCEPT ![f] = NewReceiver(rKey = "set")]
  <2>1. a \in Answers /\ i \in 1..Len(accepting) /\ Len(accepting) \in Nat
    BY <1>1, QueueTypes
  <2>2. f \in Files
    <3>1. a.todo \in SUBSET Nat /\ a.todo # {} /\ a.todo \subseteq Files
      BY <2>1, LinkConstants DEF Answers, Files
    <3> QED  BY <3>1, MinOfSet
  <2>3. NewReceiver(rKey = "set") \in Receivers
    BY EmptySeq DEF NewReceiver, Receivers
  <2>4. receivers \in [Files -> Receivers]
    BY <2>2, <2>3 DEF Types, ReceiverTypes
  <2>5. \/ accepting' = RemoveAt(accepting, i) /\ SendAccept(a.files, receivers)
        \/ /\ more # {} /\ accepting' = [accepting EXCEPT ![i].todo = more]
           /\ UNCHANGED <<rState, ctlToSender>>
    BY <1>4 DEF SinkCreated
  <2>6. accepting' \in Seq(Answers)
    <3>1. CASE accepting' = RemoveAt(accepting, i)
      <4>1. /\ SubSeq(accepting, 1, i - 1) \in Seq(Answers)
            /\ SubSeq(accepting, i + 1, Len(accepting)) \in Seq(Answers)
        BY <1>1, <2>1, SubSeqProperties
      <4> QED  BY <3>1, <4>1, ConcatProperties DEF RemoveAt
    <3>2. CASE more # {} /\ accepting' = [accepting EXCEPT ![i].todo = more]
      <4>1. [a EXCEPT !.todo = more] \in Answers
        BY <2>1, <3>2 DEF Answers
      <4>2. accepting' = [accepting EXCEPT ![i] = [a EXCEPT !.todo = more]]
        BY <3>2
      <4> QED  BY <1>1, <4>1, <4>2, ExceptSeq
    <3> QED  BY <2>5, <3>1, <3>2
  <2>7. rState' \in {rState, "TRANSFERRING"} /\ ctlToSender' \in Seq(SenderControl)
    BY <2>1, <2>4, <2>5, SendAcceptTypes DEF Answers, Types, ChannelTypes
  <2>8. recv' = receivers
    BY <1>4 DEF SinkCreated
  <2>9. ReceiverTypes'
    BY <1>4, <2>4, <2>6, <2>7, <2>8
    DEF SinkCreated, Types, ReceiverTypes, rConnection
  <2>10. SignalTypes' /\ ChannelTypes'
    BY <1>4, <2>7 DEF SinkCreated, Types, SignalTypes, ChannelTypes, signalVars
  <2> QED  BY <2>9, <2>10 DEF ReceiverSide
<1> QED  BY <1>2, <1>3, <1>4

LEMMA PageTypes ==
  ASSUME Types
  PROVE  /\ CancelR => ReceiverSide'
         /\ LeaveR => ReceiverSide'
         /\ GiveUp => ReceiverSide'
<1>1. ASSUME CancelR PROVE ReceiverSide'
  <2>1. <<[t |-> "CANCEL"]>> \in Seq(SenderControl)
    BY DEF SenderControl
  <2>2. Post(ctlToSender, rPeer, <<[t |-> "CANCEL"]>>) \in Seq(SenderControl)
    BY <2>1, PostType DEF Types, ChannelTypes
  <2>3. SignalTypes' /\ ChannelTypes' /\ rGone' = TRUE /\ dialog' = {}
        /\ giveUp' \in {"off", "armed", "spent"}
    BY <1>1, <2>2, DestroyTypes DEF CancelR
  <2>4. ReceiverTypes'
    BY <1>1, <2>3 DEF CancelR, Types, ReceiverTypes, rTransfer, Closed
  <2> QED  BY <2>3, <2>4 DEF ReceiverSide
<1>2. ASSUME LeaveR PROVE ReceiverSide'
  <2>1. SignalTypes' /\ ChannelTypes' /\ rGone' = TRUE /\ dialog' = {}
        /\ giveUp' \in {"off", "armed", "spent"}
    BY <1>2, DestroyTypes, EmptySeq DEF LeaveR
  <2>2. ReceiverTypes'
    BY <1>2, <2>1 DEF LeaveR, Types, ReceiverTypes, rTransfer
  <2> QED  BY <2>1, <2>2 DEF ReceiverSide
<1>3. ASSUME GiveUp PROVE ReceiverSide'
  <2>1. CASE rGone
    <3>1. giveUp' = "spent" /\ UNCHANGED <<rGone, dialog, linkVars>>
      BY <1>3, <2>1 DEF GiveUp
    <3>2. ReceiverTypes'
      BY <1>3, <3>1 DEF GiveUp, Types, ReceiverTypes, rTransfer, Closed
    <3> QED  BY <3>1, <3>2 DEF Types, ReceiverSide, SignalTypes, ChannelTypes,
                               linkVars, signalVars, channelVars
  <2>2. CASE ~rGone
    <3>1. SignalTypes' /\ ChannelTypes' /\ rGone' = TRUE /\ dialog' = {}
          /\ giveUp' \in {"off", "armed", "spent"}
      BY <1>3, <2>2, DestroyTypes, EmptySeq DEF GiveUp
    <3>2. ReceiverTypes'
      BY <1>3, <3>1 DEF GiveUp, Types, ReceiverTypes, rTransfer, Closed
    <3> QED  BY <3>1, <3>2 DEF ReceiverSide
  <2> QED  BY <2>1, <2>2
<1> QED  BY <1>1, <1>2, <1>3

LEMMA TakeFrameTypes ==
  ASSUME Types, NEW type, TakeFrame(type)
  PROVE  SignalTypes' /\ ChannelTypes' /\ Head(frames) \in FrameSet
<1>1. /\ Head(frames) \in FrameSet /\ Tail(frames) \in Seq(FrameSet)
      /\ Len(Tail(frames)) = Len(frames) - 1 /\ Len(frames) \in Nat /\ Len(frames) > 0
  BY QueueTypes DEF TakeFrame, Types, ChannelTypes
<1>2. kept' \in 0..Len(frames') /\ frames' \in Seq(FrameSet)
  BY <1>1 DEF TakeFrame, Types, ChannelTypes
<1> QED  BY <1>1, <1>2 DEF TakeFrame, Types, SignalTypes, ChannelTypes, signalVars

\* A receiver that is there takes a chunk, and is digested, within its type.
LEMMA ReceiverOps ==
  ASSUME NEW r \in Receivers, r # None
  PROVE  /\ DigestHex(r) \in Receivers
         /\ \A c \in Chunks : HandleChunk(r, c) \in Receivers
<1>1. r \in [keyed : BOOLEAN, hashed : Seq(Chunks), digested : BOOLEAN]
  BY DEF Receivers
<1>2. \A c \in Chunks : Append(r.hashed, c) \in Seq(Chunks)
  BY <1>1, QueueTypes
<1> QED  BY <1>1, <1>2 DEF DigestHex, HandleChunk, Receivers

LEMMA FrameTypes ==
  ASSUME Types
  PROVE  /\ TakeChunk => ReceiverSide'
         /\ WriteFails => ReceiverSide'
         /\ TakeFileComplete => ReceiverSide'
         /\ FinalizeFails => ReceiverSide'
         /\ TakeTransferComplete => ReceiverSide'
<1> DEFINE m == Head(frames)
<1>1. ASSUME TakeChunk PROVE ReceiverSide'
  <2>1. SignalTypes' /\ ChannelTypes' /\ m.f \in Files /\ m.c \in Chunks
    BY <1>1, TakeFrameTypes DEF TakeChunk, TakeFrame, FrameSet
  <2>2. CASE ~Accepted(m.f)
    BY <1>1, <2>1, <2>2
    DEF TakeChunk, Types, ReceiverTypes, ReceiverSide, rAccept, rConnection
  <2>3. CASE Accepted(m.f)
    <3>1. recv' = [recv EXCEPT ![m.f] = HandleChunk(@, m.c)]
          /\ (UNCHANGED rFile \/ SetStatus(m.f, "TRANSFERRING"))
      BY <1>1, <2>3 DEF TakeChunk
    <3>2. HandleChunk(recv[m.f], m.c) \in Receivers
      BY <2>1, <2>3, ReceiverOps DEF Accepted, Types, ReceiverTypes
    <3>3. recv' \in [Files -> Receivers]
      BY <2>1, <3>1, <3>2 DEF Types, ReceiverTypes
    <3>4. rFile' \in [Files -> {"ABSENT", "QUEUED", "TRANSFERRING", "VERIFYING", "COMPLETED",
                                "FAILED"}]
      BY <2>1, <3>1, StatusTypes DEF Types, ReceiverTypes
    <3> QED  BY <1>1, <2>1, <3>3, <3>4
             DEF TakeChunk, Types, ReceiverTypes, ReceiverSide, rAccept, rConnection
  <2> QED  BY <2>2, <2>3
<1>2. ASSUME WriteFails PROVE ReceiverSide'
  BY <1>2, TakeFrameTypes DEF WriteFails, Types, ReceiverTypes, ReceiverSide, receiverVars,
                              rTransfer, rAccept, rConnection
<1>3. ASSUME NEW f \in Files, Accepted(f), completed' = completed \cup {f},
             recv' = [recv EXCEPT ![f] = DigestHex(@)]
      PROVE  recv' \in [Files -> Receivers] /\ completed' \subseteq Files
  <2>1. DigestHex(recv[f]) \in Receivers
    BY <1>3, ReceiverOps DEF Accepted, Types, ReceiverTypes
  <2> QED  BY <1>3, <2>1 DEF Types, ReceiverTypes
<1>4. ASSUME TakeFileComplete PROVE ReceiverSide'
  <2>1. SignalTypes' /\ ChannelTypes' /\ m.f \in Files
    BY <1>4, TakeFrameTypes DEF TakeFileComplete, TakeFrame, FrameSet
  <2>2. CASE ~Accepted(m.f) \/ m.f \in completed
    BY <1>4, <2>1, <2>2
    DEF TakeFileComplete, Types, ReceiverTypes, ReceiverSide, rTransfer, rAccept, rConnection
  <2>3. CASE Accepted(m.f) /\ m.f \notin completed
    <3>1. /\ completed' = completed \cup {m.f} /\ recv' = [recv EXCEPT ![m.f] = DigestHex(@)]
          /\ SetStatus(m.f, IF WholeFile(recv[m.f], NumChunks, Encrypted)
                            THEN "COMPLETED" ELSE "FAILED")
      BY <1>4, <2>3 DEF TakeFileComplete
    <3>2. recv' \in [Files -> Receivers] /\ completed' \subseteq Files
      BY <1>3, <2>1, <2>3, <3>1
    <3>3. rFile' \in [Files -> {"ABSENT", "QUEUED", "TRANSFERRING", "VERIFYING", "COMPLETED",
                                "FAILED"}]
      BY <2>1, <3>1, StatusTypes
    <3> QED  BY <1>4, <2>1, <3>2, <3>3
             DEF TakeFileComplete, Types, ReceiverTypes, ReceiverSide, rAccept, rConnection
  <2> QED  BY <2>2, <2>3
<1>5. ASSUME FinalizeFails PROVE ReceiverSide'
  <2>1. SignalTypes' /\ ChannelTypes' /\ m.f \in Files
    BY <1>5, TakeFrameTypes DEF FinalizeFails, TakeFrame, FrameSet
  <2>2. /\ Accepted(m.f) /\ completed' = completed \cup {m.f}
        /\ recv' = [recv EXCEPT ![m.f] = DigestHex(@)] /\ SetStatus(m.f, "VERIFYING")
    BY <1>5 DEF FinalizeFails
  <2>3. recv' \in [Files -> Receivers] /\ completed' \subseteq Files
    BY <1>3, <2>1, <2>2
  <2>4. rFile' \in [Files -> {"ABSENT", "QUEUED", "TRANSFERRING", "VERIFYING", "COMPLETED",
                              "FAILED"}]
    BY <2>1, <2>2, StatusTypes
  <2> QED  BY <1>5, <2>1, <2>3, <2>4
           DEF FinalizeFails, Types, ReceiverTypes, ReceiverSide, rAccept, rConnection
<1>6. ASSUME TakeTransferComplete PROVE ReceiverSide'
  BY <1>6, TakeFrameTypes DEF TakeTransferComplete, Types, ReceiverTypes, ReceiverSide, Closed,
                              rTransfer, rAccept, rConnection
<1> QED  BY <1>1, <1>2, <1>4, <1>5, <1>6

LEMMA LossTypesR ==
  ASSUME Types
  PROVE  /\ LoseConnectionR => ReceiverTypes'
         /\ ReadyR => ReceiverTypes'
         /\ \A n \in ended : LossNoticedR(n) => ReceiverSide'
<1>1. ASSUME LoseConnectionR PROVE ReceiverTypes'
  BY <1>1 DEF LoseConnectionR, Types, ReceiverTypes, rTransfer, rAccept
<1>2. ASSUME ReadyR PROVE ReceiverTypes'
  BY <1>2 DEF ReadyR, Types, ReceiverTypes, rTransfer, rAccept
<1>3. ASSUME NEW n \in ended, LossNoticedR(n) PROVE ReceiverSide'
  BY <1>1, <1>3 DEF LossNoticedR, Types, ReceiverSide, SignalTypes, ChannelTypes, signalVars
<1> QED  BY <1>1, <1>2, <1>3
-----------------------------------------------------------------------------
(* Types: the world                                                        *)

LEMMA SpendTypes ==
  ASSUME Types, NEW kind \in {"losses", "upsets", "pauses"}, Spend(kind)
  PROVE  WorldTypes'
BY WorldConstants DEF Spend, Types, WorldTypes

\* A step of one page leaves the other page's types alone.
LEMMA OneSide ==
  ASSUME Types
  PROVE  /\ SenderSide' /\ UNCHANGED receiverVars => ReceiverTypes'
         /\ ReceiverSide' /\ UNCHANGED senderVars => SenderTypes'
         /\ UNCHANGED worldVars => WorldTypes'
BY DEF Types, SenderTypes, ReceiverTypes, WorldTypes, senderVars, sControl, sReconnect,
       sConnection, receiverVars, rTransfer, rAccept, rConnection, worldVars

LEMMA ConnectionEvents ==
  ASSUME Types
  PROVE  /\ ConnectionOpens => Types'
         /\ ConnectionBreaks => Types'
         /\ NegotiationStalls => Types'
         /\ SenderBlip => Types'
         /\ ReceiverBlip => Types'
         /\ ReceiverRecovers => Types'
<1>1. ASSUME ConnectionOpens PROVE Types'
  <2>1. SenderSide'
    BY <1>1, ControlTypes DEF ConnectionOpens
  <2>2. ReceiverTypes'
    BY <1>1, LossTypesR DEF ConnectionOpens
  <2>3. WorldTypes'
    BY <1>1 DEF ConnectionOpens, Types, WorldTypes, worldVars
  <2> QED  BY <2>1, <2>2, <2>3 DEF SenderSide, Types
<1>2. ASSUME ConnectionBreaks PROVE Types'
  <2>1. ChannelTypes' /\ WorldTypes'
    BY <1>2, CutType, EmptySeq, SpendTypes DEF ConnectionBreaks, Loss, Types
  <2> QED  BY <1>2, <2>1 DEF ConnectionBreaks, Types, SignalTypes, SenderTypes, ReceiverTypes,
             signalVars, senderVars, sControl, sReconnect, sConnection,
             receiverVars, rTransfer, rAccept, rConnection
<1>3. ASSUME NegotiationStalls PROVE Types'
  <2>1. SenderSide'
    BY <1>3, LossTypes DEF NegotiationStalls
  <2>2. ReceiverTypes'
    BY <1>3, LossTypesR, OneSide, <2>1 DEF NegotiationStalls
  <2> QED  BY <1>3, <2>1, <2>2 DEF NegotiationStalls, Types, SenderSide, WorldTypes, worldVars
<1>4. ASSUME SenderBlip PROVE Types'
  <2>1. SenderSide' /\ WorldTypes'
    BY <1>4, LossTypes, SpendTypes DEF SenderBlip, Loss
  <2> QED  BY <1>4, <2>1 DEF SenderBlip, Types, SenderSide, ReceiverTypes,
             receiverVars, rTransfer, rAccept, rConnection
<1>5. ASSUME ReceiverBlip PROVE Types'
  <2>1. ReceiverTypes'
    BY <1>5, LossTypesR DEF ReceiverBlip
  <2>2. WorldTypes'
    BY <1>5, WorldConstants DEF ReceiverBlip, Types, WorldTypes
  <2> QED  BY <1>5, <2>1, <2>2 DEF ReceiverBlip, Types, SenderTypes, SignalTypes, ChannelTypes,
             senderVars, sControl, sReconnect, sConnection, linkVars, signalVars, channelVars
<1>6. ASSUME ReceiverRecovers PROVE Types'
  <2>1. ReceiverTypes'
    BY <1>6, LossTypesR DEF ReceiverRecovers, Types, ReceiverTypes,
                            receiverVars, rTransfer, rAccept, rConnection
  <2>2. WorldTypes'
    BY <1>6 DEF ReceiverRecovers, Types, WorldTypes
  <2> QED  BY <1>6, <2>1, <2>2 DEF ReceiverRecovers, Types, SenderTypes, SignalTypes,
             ChannelTypes, senderVars, sControl, sReconnect, sConnection,
             linkVars, signalVars, channelVars
<1> QED  BY <1>1, <1>2, <1>3, <1>4, <1>5, <1>6

\* A part of the state that a step leaves alone keeps its types.
LEMMA PartsKept ==
  ASSUME Types
  PROVE  /\ UNCHANGED channelVars => ChannelTypes'
         /\ UNCHANGED signalVars => SignalTypes'
         /\ UNCHANGED senderVars => SenderTypes'
         /\ UNCHANGED receiverVars => ReceiverTypes'
         /\ UNCHANGED worldVars => WorldTypes'
<1>1. UNCHANGED channelVars => ChannelTypes'
  BY DEF Types, ChannelTypes, channelVars
<1>2. UNCHANGED signalVars => SignalTypes'
  BY DEF Types, SignalTypes, signalVars
<1>3. UNCHANGED senderVars => SenderTypes'
  BY DEF Types, SenderTypes, senderVars, sControl, sReconnect, sConnection
<1>4. UNCHANGED receiverVars => ReceiverTypes'
  BY DEF Types, ReceiverTypes, receiverVars, rTransfer, rAccept, rConnection
<1>5. UNCHANGED worldVars => WorldTypes'
  BY DEF Types, WorldTypes, worldVars
<1> QED  BY <1>1, <1>2, <1>3, <1>4, <1>5

LEMMA SignalingEvents ==
  ASSUME Types
  PROVE  /\ SenderSocketDrops => Types'
         /\ SenderSocketReopens => Types'
         /\ ReceiverSocketDrops => Types'
         /\ SessionExpires => Types'
         /\ RateLimits => Types'
<1>1. ASSUME SenderSocketDrops PROVE Types'
  <2>1. SignalTypes' /\ WorldTypes'
    BY <1>1, SocketGoneTypes, SpendTypes DEF SenderSocketDrops, Upset, Types
  <2>2. SenderTypes'
    BY <1>1 DEF SenderSocketDrops, Types, SenderTypes, sControl, sReconnect
  <2>3. ChannelTypes' /\ UNCHANGED receiverVars
    BY <1>1 DEF SenderSocketDrops, Types, ChannelTypes, channelVars
  <2> QED  BY <2>1, <2>2, <2>3, OneSide DEF SenderSide, Types
<1>2. ASSUME SenderSocketReopens PROVE Types'
  <2>1. SenderTypes'
    BY <1>2 DEF SenderSocketReopens, Types, SenderTypes, sControl, sReconnect
  <2>2. SignalTypes' /\ ChannelTypes'
    BY <1>2 DEF SenderSocketReopens, Types, SignalTypes, ChannelTypes,
                linkVars, signalVars, channelVars
  <2> QED  BY <1>2, <2>1, <2>2, OneSide DEF SenderSocketReopens, SenderSide, Types
<1>3. ASSUME ReceiverSocketDrops PROVE Types'
  <2>1. SignalTypes' /\ WorldTypes'
    BY <1>3, SocketGoneTypes, SpendTypes DEF ReceiverSocketDrops, Upset, Types
  <2>4. UNCHANGED channelVars /\ UNCHANGED senderVars /\ UNCHANGED receiverVars
    BY <1>3 DEF ReceiverSocketDrops
  <2>5. ChannelTypes' /\ SenderTypes' /\ ReceiverTypes'
    BY <2>4, PartsKept
  <2> QED  BY <2>1, <2>5 DEF Types
<1>4. ASSUME SessionExpires PROVE Types'
  <2>1. /\ [t |-> "SESSION_EXPIRED"] \in SenderNotes
        /\ [t |-> "SESSION_EXPIRED"] \in ReceiverNotes
    BY DEF SenderNotes, ReceiverNotes
  <2>2. SignalTypes'
    BY <1>4, <2>1, QueueTypes DEF SessionExpires, Types, SignalTypes
  <2>3. WorldTypes'
    BY <1>4, SpendTypes DEF SessionExpires, Upset
  <2>4. UNCHANGED channelVars /\ UNCHANGED senderVars /\ UNCHANGED receiverVars
    BY <1>4 DEF SessionExpires
  <2>5. ChannelTypes' /\ SenderTypes' /\ ReceiverTypes'
    BY <2>4, PartsKept
  <2> QED  BY <2>2, <2>3, <2>5 DEF Types
<1>5. ASSUME RateLimits PROVE Types'
  <2>1. [t |-> "RATE_LIMITED"] \in SenderNotes /\ [t |-> "RATE_LIMITED"] \in ReceiverNotes
    BY DEF SenderNotes, ReceiverNotes
  <2>2. SignalTypes'
    <3>1. \/ UNCHANGED toReceiver /\ toSender' = Append(toSender, [t |-> "RATE_LIMITED"])
          \/ UNCHANGED toSender /\ toReceiver' = Append(toReceiver, [t |-> "RATE_LIMITED"])
      BY <1>5 DEF RateLimits
    <3>2. /\ Append(toSender, [t |-> "RATE_LIMITED"]) \in Seq(SenderNotes)
          /\ Append(toReceiver, [t |-> "RATE_LIMITED"]) \in Seq(ReceiverNotes)
      BY <2>1, QueueTypes DEF Types, SignalTypes
    <3> QED  BY <1>5, <3>1, <3>2 DEF RateLimits, Types, SignalTypes
  <2>3. WorldTypes'
    BY <1>5, SpendTypes DEF RateLimits, Upset
  <2>4. UNCHANGED channelVars /\ UNCHANGED senderVars /\ UNCHANGED receiverVars
    BY <1>5 DEF RateLimits
  <2>5. ChannelTypes' /\ SenderTypes' /\ ReceiverTypes'
    BY <2>4, PartsKept
  <2> QED  BY <2>2, <2>3, <2>5 DEF Types
<1> QED  BY <1>1, <1>2, <1>3, <1>4, <1>5

LEMMA UserEvents ==
  ASSUME Types
  PROVE  /\ Faults => Types'
         /\ Pauses => Types'
         /\ Cancels => Types'
         /\ Leaves => Types'
<1>1. ASSUME Faults PROVE Types'
  <2>1. WorldTypes'
    BY <1>1, SpendTypes DEF Faults, Upset
  <2>2. \/ SenderSide' /\ UNCHANGED receiverVars
        \/ ReceiverSide' /\ UNCHANGED senderVars
    BY <1>1, LoopTypesKept, FrameTypes DEF Faults
  <2> QED  BY <2>1, <2>2, OneSide DEF SenderSide, ReceiverSide, Types
<1>2. ASSUME Pauses PROVE Types'
  <2>1. WorldTypes' /\ SenderSide'
    BY <1>2, SpendTypes, ButtonTypes DEF Pauses
  <2> QED  BY <1>2, <2>1, OneSide DEF Pauses, SenderSide, Types
<1>3. ASSUME Cancels PROVE Types'
  <2>1. WorldTypes'
    BY <1>3, SpendTypes DEF Cancels, Upset
  <2>2. \/ SenderSide' /\ UNCHANGED receiverVars
        \/ ReceiverSide' /\ UNCHANGED senderVars
    BY <1>3, ControlTypes, PageTypes DEF Cancels, UserCancels
  <2> QED  BY <2>1, <2>2, OneSide DEF SenderSide, ReceiverSide, Types
<1>4. ASSUME Leaves PROVE Types'
  <2>1. WorldTypes'
    BY <1>4, SpendTypes DEF Leaves, Upset
  <2>2. \/ SenderSide' /\ UNCHANGED receiverVars
        \/ ReceiverSide' /\ UNCHANGED senderVars
    BY <1>4, ButtonTypes, PageTypes DEF Leaves
  <2> QED  BY <2>1, <2>2, OneSide DEF SenderSide, ReceiverSide, Types
<1> QED  BY <1>1, <1>2, <1>3, <1>4
-----------------------------------------------------------------------------
(* Types: the theorem                                                      *)

LEMMA TypesInit == Init => Types
<1> SUFFICES ASSUME Init PROVE Types
  OBVIOUS
<1>1. SignalTypes
  BY EmptySeq DEF Init, LinkInit, SignalTypes, SenderNotes
<1>2. ChannelTypes
  BY EmptySeq, SenderConstants DEF Init, LinkInit, ChannelTypes
<1>3. SenderTypes
  <2>1. 0 \in 0..MaxConns /\ 0 \in 0..MaxAttempts /\ 1 \in Files
    BY LinkConstants, SenderConstants DEF Files
  <2>2. loops \in Seq(Loops) /\ activePump \in 0..Len(loops)
    BY EmptySeq DEF Init, SenderInit
  <2> QED  BY <2>1, <2>2 DEF Init, SenderInit, SenderTypes
<1>4. ReceiverTypes
  <2>1. accepting \in Seq(Answers) /\ 0 \in 0..MaxConns
    BY EmptySeq, SenderConstants DEF Init, ReceiverInit
  <2> QED  BY <2>1 DEF Init, ReceiverInit, ReceiverTypes, Receivers
<1>5. WorldTypes
  <2>1. MaxLosses \in Nat /\ MaxUpsets \in Nat /\ MaxPauses \in Nat
    BY WorldConstants
  <2>2. MaxLosses \in 0..MaxLosses /\ MaxUpsets \in 0..MaxUpsets /\ MaxPauses \in 0..MaxPauses
    BY <2>1
  <2> QED  BY <2>2 DEF Init, WorldTypes
<1> QED  BY <1>1, <1>2, <1>3, <1>4, <1>5 DEF Types

LEMMA TypesStep == Types /\ [Next]_vars => Types'
<1> SUFFICES ASSUME Types, [Next]_vars PROVE Types'
  OBVIOUS
<1>1. ASSUME SenderSide', UNCHANGED <<receiverVars, worldVars>> PROVE Types'
  BY <1>1, OneSide DEF SenderSide, Types
<1>2. ASSUME ReceiverSide', UNCHANGED <<senderVars, worldVars>> PROVE Types'
  BY <1>2, OneSide DEF ReceiverSide, Types
<1>3. CASE Continuation
  BY <1>1, <1>3, NextFileTypes, PumpTypesKept, LoopTypesKept DEF Continuation, SenderStep
<1>4. CASE SenderReads
  BY <1>1, <1>4, PumpTypesKept, LoopTypesKept DEF SenderReads, SenderStep
<1>5. CASE SenderHandlers
  BY <1>1, <1>5, SignalingTypes, ControlTypes, ButtonTypes, LossTypes
  DEF SenderHandlers, SenderStep, HandleCancel, LossNoticed
<1>6. CASE ReceiverHandlers
  BY <1>2, <1>6, NoticeTypes, OfferTypes, AnswerTypes, LossTypesR, PageTypes
  DEF ReceiverHandlers, ReceiverStep
<1>7. CASE ReceiverUser
  BY <1>2, <1>7, AnswerTypes DEF ReceiverUser, ReceiverStep
<1>8. CASE ReceiverFrames
  BY <1>2, <1>8, FrameTypes DEF ReceiverFrames, ReceiverStep
<1>9. CASE World
  BY <1>9, ConnectionEvents, SignalingEvents, UserEvents DEF World
<1>10. CASE UNCHANGED vars
  <2>1. /\ UNCHANGED signalVars /\ UNCHANGED channelVars /\ UNCHANGED senderVars
        /\ UNCHANGED receiverVars /\ UNCHANGED worldVars
    BY <1>10 DEF vars, linkVars
  <2>2. SignalTypes' /\ ChannelTypes' /\ SenderTypes' /\ ReceiverTypes' /\ WorldTypes'
    BY <2>1, PartsKept
  <2> QED  BY <2>2 DEF Types
<1> QED  BY <1>3, <1>4, <1>5, <1>6, <1>7, <1>8, <1>9, <1>10 DEF Next

\* Every variable holds a value of its type in every reachable state: no message, frame
\* or loop index of the two sessions names a chunk, a file or a connection that does not
\* exist, however many losses, upsets, pauses, files and chunks there are.
THEOREM TypeCorrect == Spec => []TypeOK
<1>1. Types => TypeOK
  <2> SUFFICES ASSUME Types PROVE TypeOK
    OBVIOUS
  <2>1. \A i \in DOMAIN frames : frames[i] \in FrameSet
    BY QueueTypes DEF Types, ChannelTypes
  <2>2. \A i \in DOMAIN frames :
          frames[i].t = "CHUNK" => frames[i].f \in Files /\ frames[i].c \in 0..(NumChunks - 1)
    BY <2>1 DEF FrameSet, Chunks
  <2>3. \A k \in DOMAIN loops : loops[k] \in LoopRecords
    BY QueueTypes DEF Types, SenderTypes, Loops
  <2>4. \A k \in DOMAIN loops :
          /\ loops[k].at \in {"next", "run", "save", "done", "dead"}
          /\ loops[k].file \in 0..NumFiles
          /\ loops[k].resume \in [Files -> 0..NumChunks]
          /\ loops[k].pump \in Pumps
    BY <2>3 DEF LoopRecords, FittingPumps
  <2> QED  BY <2>2, <2>4
           DEF TypeOK, Types, SignalTypes, ChannelTypes, SenderTypes, ReceiverTypes
<1> QED  BY <1>1, TypesInit, TypesStep, PTL DEF Spec
-----------------------------------------------------------------------------
(* Cancelling is final                                                     *)

\* Nothing can reach a sending page that was cancelled: its socket and its peer
\* connection are closed, and the server has destroyed the session.
Silenced ==
  sState = "CANCELLED" /\ up = 0 /\ ~sOnline /\ ~session /\ toSender = <<>> /\ ctlToSender = <<>>
Final == cancelled => Silenced

FinalKept ==
  /\ UNCHANGED <<cancelled, sState, up, sOnline, session, toSender, ctlToSender>>
  /\ Len(frames') <= Len(frames)

LEMMA FramesShrink ==
  ASSUME Types
  PROVE  /\ \A a, b : CutLink(a, b) => Len(frames') <= Len(frames)
         /\ \A type : TakeFrame(type) => Len(frames') <= Len(frames)
         /\ UNCHANGED frames => Len(frames') <= Len(frames)
<1>1. frames \in Seq(FrameSet) /\ Len(frames) \in Nat /\ kept \in 0..Len(frames)
  BY QueueTypes DEF Types, ChannelTypes
<1>2. ASSUME NEW a, NEW b, CutLink(a, b) PROVE Len(frames') <= Len(frames)
  <2>1. PICK j \in kept..Len(frames) : frames' = SubSeq(frames, 1, j)
    BY <1>2 DEF CutLink
  <2>2. j \in Nat /\ j <= Len(frames) /\ Len(frames') = j
    BY <1>1, <2>1, SubSeqProperties
  <2> QED  BY <1>1, <2>2
<1>3. ASSUME NEW type, TakeFrame(type) PROVE Len(frames') <= Len(frames)
  BY <1>1, <1>3, QueueTypes DEF TakeFrame
<1> QED  BY <1>1, <1>2, <1>3

LEMMA FinalSender ==
  ASSUME Types, cancelled, Silenced
  PROVE  /\ \A k \in DOMAIN loops :
              /\ NextFile(k) \/ PumpContinues(k) \/ PumpReturns(k) => FinalKept
              /\ PrefixHashed(k) \/ ChunkRead(k) \/ BufferLow(k) => FinalKept
              /\ HistorySaved(k) \/ LoopFails(k) => FinalKept
         /\ BeginHandshake \/ TakeAnswer \/ TakeNotice => FinalKept
         /\ ChannelsReady \/ HandleAccept \/ HandleReject \/ HandleCancel => FinalKept
         /\ UserCancels \/ Leave \/ PauseCurrentFile \/ ResumeCurrentFile => FinalKept
         /\ LoseConnection \/ AttemptReconnect => FinalKept
<1> USE FramesShrink DEF Silenced, FinalKept
<1>1. ASSUME NEW k \in DOMAIN loops PROVE NextFile(k) => FinalKept
  BY DEF NextFile, NotCancelled, sReconnect, sConnection, signalVars
<1>2. ASSUME NEW k \in DOMAIN loops PROVE PumpReturns(k) => FinalKept
  BY DEF PumpReturns, PostFrames, Post, sReconnect, sConnection, signalVars
<1>3. ASSUME NEW k \in DOMAIN loops PROVE PumpContinues(k) => FinalKept
  BY DEF PumpContinues, sReconnect, sConnection, linkVars, signalVars, channelVars
<1>4. ASSUME NEW k \in DOMAIN loops PROVE ChunkRead(k) => FinalKept
  BY DEF ChunkRead, PostFrames, Post, sReconnect, sConnection, signalVars
<1>5. ASSUME NEW k \in DOMAIN loops
      PROVE PrefixHashed(k) \/ BufferLow(k) \/ HistorySaved(k) \/ LoopFails(k) => FinalKept
  BY DEF PrefixHashed, BufferLow, HistorySaved, LoopFails, sReconnect, sConnection,
         linkVars, signalVars, channelVars
<1>6. BeginHandshake \/ TakeAnswer \/ TakeNotice => FinalKept
  BY DEF BeginHandshake, TakeAnswer, TakeNotice
<1>7. ChannelsReady \/ HandleAccept \/ HandleReject \/ HandleCancel => FinalKept
  BY DEF ChannelsReady, HandleAccept, HandleReject, HandleCancel, TakeControl
<1>8. UserCancels \/ Leave \/ PauseCurrentFile \/ ResumeCurrentFile => FinalKept
  BY DEF UserCancels, Leave, PauseCurrentFile, ResumeCurrentFile
<1>9. LoseConnection \/ AttemptReconnect => FinalKept
  BY DEF LoseConnection, NotCancelled, AttemptReconnect, sControl, linkVars, signalVars,
         channelVars
<1> QED  BY <1>1, <1>2, <1>3, <1>4, <1>5, <1>6, <1>7, <1>8, <1>9

LEMMA FinalReceiver ==
  ASSUME Types, cancelled, Silenced, UNCHANGED senderVars
  PROVE  /\ TakeOffer \/ TakeNoticeR \/ TakeRefusal => FinalKept
         /\ HandleSessionInit \/ KeyImported \/ HandleFileOffer \/ HandleCancelR => FinalKept
         /\ Reject \/ Accept \/ (\E i \in DOMAIN accepting : SinkCreated(i)) => FinalKept
         /\ CancelR \/ LeaveR \/ GiveUp \/ (\E n \in ended : LossNoticedR(n)) => FinalKept
         /\ TakeChunk \/ TakeFileComplete \/ TakeTransferComplete => FinalKept
         /\ WriteFails \/ FinalizeFails => FinalKept
<1> USE FramesShrink DEF Silenced, FinalKept
<1>1. UNCHANGED <<cancelled, sState, sOnline>>
  BY DEF senderVars, sControl, sConnection
<1>2. \A m : Post(ctlToSender, rPeer, m) = <<>>
  BY DEF Post
<1>3. ASSUME NEW last, Destroy(last), last = <<>> PROVE FinalKept
  <2>1. CutLink(last, <<>>) /\ ReceiverSocketGone
    BY <1>3 DEF Destroy
  <2>2. Len(frames') <= Len(frames) /\ up' = 0 /\ ctlToSender' = <<>>
    BY <1>3, <2>1 DEF CutLink
  <2>3. session' = session /\ toSender' = <<>>
    BY <2>1 DEF ReceiverSocketGone
  <2> QED  BY <1>1, <2>2, <2>3
<1>4. TakeOffer \/ TakeNoticeR \/ TakeRefusal => FinalKept
  BY <1>1, <1>3 DEF TakeOffer, TakeNoticeR, TakeRefusal, channelVars
<1>5. HandleSessionInit \/ KeyImported \/ HandleCancelR => FinalKept
  BY <1>1 DEF HandleSessionInit, KeyImported, HandleCancelR, linkVars, signalVars, channelVars
<1>6. ASSUME NEW files, NEW receivers, SendAccept(files, receivers) PROVE ctlToSender' = <<>>
  BY <1>2, <1>6 DEF SendAccept, Say
<1>7. HandleFileOffer => FinalKept
  BY <1>1, <1>6 DEF HandleFileOffer, signalVars
<1>8. Reject \/ Accept => FinalKept
  BY <1>1, <1>2 DEF Reject, Accept, Say, linkVars, signalVars, channelVars
<1>9. ASSUME NEW i \in DOMAIN accepting, SinkCreated(i) PROVE FinalKept
  BY <1>1, <1>6, <1>9 DEF SinkCreated, signalVars
<1>10. CancelR \/ LeaveR \/ GiveUp => FinalKept
  BY <1>1, <1>2, <1>3 DEF CancelR, LeaveR, GiveUp, linkVars, signalVars, channelVars
<1>11. ASSUME NEW n \in ended, LossNoticedR(n) PROVE FinalKept
  BY <1>1, <1>11 DEF LossNoticedR, signalVars
<1>12. ASSUME NEW type, TakeFrame(type) PROVE FinalKept
  BY <1>1, <1>12 DEF TakeFrame, signalVars
<1>13. TakeChunk \/ TakeFileComplete \/ TakeTransferComplete \/ WriteFails \/ FinalizeFails
         => FinalKept
  BY <1>12 DEF TakeChunk, TakeFileComplete, TakeTransferComplete, WriteFails, FinalizeFails
<1> QED  BY <1>4, <1>5, <1>7, <1>8, <1>9, <1>10, <1>11, <1>13

LEMMA FinalWorld ==
  ASSUME Types, cancelled, Silenced, World
  PROVE  FinalKept
<1> USE FramesShrink DEF Silenced, FinalKept
<1>1. CASE ConnectionOpens \/ NegotiationStalls \/ SenderBlip
  BY <1>1 DEF ConnectionOpens, ChannelsReady, NegotiationStalls, SenderBlip, LoseConnection,
     NotCancelled
<1>2. CASE ConnectionBreaks
  BY <1>2 DEF ConnectionBreaks
<1>3. CASE ReceiverBlip \/ ReceiverRecovers
  BY <1>3 DEF ReceiverBlip, ReceiverRecovers, senderVars, sControl, sConnection,
     linkVars, signalVars, channelVars
<1>4. CASE SenderSocketDrops \/ SenderSocketReopens
  BY <1>4 DEF SenderSocketDrops, SenderSocketReopens
<1>5. CASE ReceiverSocketDrops
  BY <1>5 DEF ReceiverSocketDrops, ReceiverSocketGone, channelVars, senderVars, sControl,
     sConnection
<1>6. CASE SessionExpires
  BY <1>6 DEF SessionExpires
<1>7. CASE RateLimits
  BY <1>7 DEF RateLimits, channelVars, senderVars, sControl, sConnection
<1>8. CASE Faults \/ Pauses \/ Cancels \/ Leaves
  BY <1>8, FinalSender, FinalReceiver DEF Faults, Pauses, Cancels, Leaves
<1> QED  BY <1>1, <1>2, <1>3, <1>4, <1>5, <1>6, <1>7, <1>8 DEF World

\* Only cancelAll sets `cancelled`, and it silences the page.
LEMMA CancelSilences ==
  ASSUME Types, ~cancelled, cancelled', [Next]_vars
  PROVE  Silenced'
<1>1. ASSUME CancelAll PROVE Silenced'
  BY <1>1 DEF CancelAll, CutLink, SenderSocketGone, Silenced
<1>2. CASE Continuation
  BY <1>2 DEF Continuation, SenderStep, NextFile, PumpContinues, PumpReturns
<1>3. CASE SenderReads
  BY <1>3 DEF SenderReads, SenderStep, PrefixHashed, ChunkRead, BufferLow, HistorySaved
<1>4. CASE SenderHandlers
  BY <1>1, <1>4 DEF SenderHandlers, SenderStep, BeginHandshake, TakeAnswer, TakeNotice,
     HandleAccept, HandleReject, HandleCancel, ResumeCurrentFile, LossNoticed, LoseConnection,
     AttemptReconnect
<1>5. ASSUME UNCHANGED senderVars PROVE FALSE
  BY <1>5 DEF senderVars
<1>6. CASE ReceiverHandlers \/ ReceiverUser \/ ReceiverFrames
  BY <1>5, <1>6 DEF ReceiverHandlers, ReceiverUser, ReceiverFrames, ReceiverStep
<1>7. CASE World
  <2>1. CASE ConnectionOpens \/ ConnectionBreaks \/ NegotiationStalls \/ SenderBlip
    BY <1>5, <2>1 DEF ConnectionOpens, ChannelsReady, ConnectionBreaks, NegotiationStalls,
       SenderBlip, LoseConnection
  <2>2. CASE ReceiverBlip \/ ReceiverRecovers
    BY <1>5, <2>2 DEF ReceiverBlip, ReceiverRecovers
  <2>3. CASE SenderSocketDrops \/ SenderSocketReopens \/ ReceiverSocketDrops \/ SessionExpires
             \/ RateLimits
    BY <1>5, <2>3 DEF SenderSocketDrops, SenderSocketReopens, ReceiverSocketDrops,
       SessionExpires, RateLimits
  <2>4. CASE Faults \/ Pauses
    BY <1>5, <2>4 DEF Faults, LoopFails, Pauses, PauseCurrentFile
  <2>5. CASE Cancels \/ Leaves
    BY <1>1, <1>5, <2>5 DEF Cancels, UserCancels, Leaves, Leave
  <2> QED  BY <1>7, <2>1, <2>2, <2>3, <2>4, <2>5 DEF World
<1>8. CASE UNCHANGED vars
  BY <1>5, <1>8 DEF vars
<1> QED  BY <1>2, <1>3, <1>4, <1>6, <1>7, <1>8 DEF Next

LEMMA FinalStep ==
  ASSUME Types, Final, [Next]_vars
  PROVE  /\ Final'
         /\ cancelled => sState' = "CANCELLED" /\ Len(frames') <= Len(frames)
<1>1. CASE ~cancelled
  BY <1>1, CancelSilences DEF Final
<1>2. CASE cancelled
  <2>1. Silenced
    BY <1>2 DEF Final
  <2>2. FinalKept
    <3>1. CASE Continuation
      BY <1>2, <2>1, <3>1, FinalSender DEF Continuation, SenderStep
    <3>2. CASE SenderReads
      BY <1>2, <2>1, <3>2, FinalSender DEF SenderReads, SenderStep
    <3>3. CASE SenderHandlers
      BY <1>2, <2>1, <3>3, FinalSender DEF SenderHandlers, SenderStep, LossNoticed
    <3>4. CASE ReceiverHandlers \/ ReceiverUser \/ ReceiverFrames
      BY <1>2, <2>1, <3>4, FinalReceiver
      DEF ReceiverHandlers, ReceiverUser, ReceiverFrames, ReceiverStep
    <3>5. CASE World
      BY <1>2, <2>1, <3>5, FinalWorld
    <3>6. CASE UNCHANGED vars
      BY <2>1, <3>6, FramesShrink DEF FinalKept, Silenced, vars, senderVars, sControl, sConnection,
         linkVars, signalVars, channelVars
    <3> QED  BY <3>1, <3>2, <3>3, <3>4, <3>5, <3>6 DEF Next
  <2> QED  BY <1>2, <2>1, <2>2 DEF FinalKept, Final, Silenced
<1> QED  BY <1>1, <1>2

\* Once cancelAll has run, no handler, timer, loop or message of the sending page changes
\* CANCELLED to another state or puts a frame on the file channel, whatever the receiving
\* page, the server and the network do.
THEOREM CancelledForGood == Spec => CancelIsFinal
<1>1. Init => Final
  BY DEF Init, SenderInit, Final
<1>2. Types /\ Final /\ [Next]_vars => Final'
  BY FinalStep
<1>3. Types /\ Final /\ [Next]_vars
        => [cancelled => sState' = "CANCELLED" /\ Len(frames') <= Len(frames)]_vars
  BY FinalStep
<1> QED  BY <1>1, <1>2, <1>3, TypesInit, TypesStep, PTL DEF Spec, CancelIsFinal
=============================================================================
