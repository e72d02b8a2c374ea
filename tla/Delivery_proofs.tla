--------------------------- MODULE Delivery_proofs ---------------------------
(***************************************************************************)
(* What the receiving page holds, for every number of files, chunks,       *)
(* connections, losses and upsets, as long as its user accepts no second   *)
(* dialog for a file accepted before: Transfer implements Delivery, a      *)
(* FILE_ACCEPT asks for nothing beyond a hole, and the loop that it starts *)
(* leaves none.                                                            *)
(*                                                                         *)
(* The argument goes in three layers, each an invariant of its own.        *)
(* Answering: one answer per file, so a receiver is created once and only  *)
(* grows (ReceiversGrow).  HeldPoints: what a FILE_ACCEPT, and the loop it *)
(* started, take as the resume point was there when it was sent, and so    *)
(* still is.  LinkOrder: the loop of the open connection posts to that     *)
(* connection, so what it sent since is there or in the queue.             *)
(***************************************************************************)
EXTENDS Transfer_proofs

\* A file is concluded once its digest is taken.  A file that an answer of the user
\* still waits for has no receiver, and no two answers wait for the same file.
Answering ==
  /\ \A f \in Files : f \in completed <=> recv[f].digested
  /\ \A i \in DOMAIN accepting :
       /\ accepting[i].todo \subseteq accepting[i].files
       /\ \A f \in accepting[i].todo : ~Accepted(f)
  /\ \A i, j \in DOMAIN accepting :
       i # j => accepting[i].todo \cap accepting[j].todo = {}
-----------------------------------------------------------------------------
(* What a step does to the receivers                                       *)

Created(f) ==
  /\ f \in Files /\ ~Accepted(f) /\ f \notin completed
  /\ recv' = [recv EXCEPT ![f] = NewReceiver(rKey = "set")] /\ completed' = completed

Extended(f, c) ==
  /\ f \in Files /\ c \in Chunks /\ Accepted(f) /\ ~recv[f].digested /\ c \notin Held(recv[f])
  /\ recv' = [recv EXCEPT ![f] = HandleChunk(@, c)] /\ completed' = completed

Concluded(f) ==
  /\ f \in Files /\ Accepted(f) /\ f \notin completed
  /\ recv' = [recv EXCEPT ![f] = DigestHex(@)] /\ completed' = completed \cup {f}

RecvSame == recv' = recv /\ completed' = completed

ReceiverChanges ==
  \/ RecvSame
  \/ \E f \in Files : Created(f) \/ Concluded(f) \/ \E c \in Chunks : Extended(f, c)

\* The steps that touch the receivers or the answers.
LEMMA ReceiverFootprint ==
  ASSUME [Next]_vars
  PROVE  \/ RecvSame /\ accepting' = accepting
         \/ Accept \/ \E i \in DOMAIN accepting : SinkCreated(i)
         \/ TakeChunk \/ TakeFileComplete \/ FinalizeFails
<1> DEFINE Kept == RecvSame /\ accepting' = accepting
<1>1. ASSUME UNCHANGED receiverVars PROVE Kept
  BY <1>1 DEF receiverVars, rTransfer, rAccept, RecvSame
<1>2. CASE Continuation \/ SenderReads \/ SenderHandlers
  BY <1>1, <1>2 DEF Continuation, SenderReads, SenderHandlers, SenderStep
<1>3. CASE ReceiverHandlers
  <2>1. CASE ReceiverStep(TakeOffer) \/ ReceiverStep(TakeNoticeR) \/ ReceiverStep(TakeRefusal)
    BY <2>1 DEF ReceiverStep, TakeOffer, TakeNoticeR, TakeRefusal, rTransfer, rAccept, RecvSame
  <2>2. CASE ReceiverStep(HandleSessionInit) \/ ReceiverStep(KeyImported)
             \/ ReceiverStep(HandleFileOffer) \/ ReceiverStep(HandleCancelR)
    BY <2>2 DEF ReceiverStep, HandleSessionInit, KeyImported, HandleFileOffer, HandleCancelR,
                rTransfer, rAccept, RecvSame
  <2>3. CASE ReceiverStep(GiveUp) \/ \E n \in ended : ReceiverStep(LossNoticedR(n))
    BY <2>3 DEF ReceiverStep, GiveUp, LossNoticedR, LoseConnectionR, rTransfer, rAccept, RecvSame
  <2> QED  BY <1>3, <2>1, <2>2, <2>3 DEF ReceiverHandlers, ReceiverStep
<1>4. CASE ReceiverUser \/ ReceiverFrames
  BY <1>4 DEF ReceiverUser, ReceiverFrames, ReceiverStep, Reject, TakeTransferComplete,
              rTransfer, rAccept, RecvSame
<1>5. CASE World
  <2>1. CASE ConnectionOpens \/ ConnectionBreaks \/ NegotiationStalls \/ SenderBlip
             \/ ReceiverBlip \/ ReceiverRecovers
    BY <1>1, <2>1 DEF ConnectionOpens, ConnectionBreaks, NegotiationStalls, SenderBlip,
       ReceiverBlip, ReceiverRecovers, ReadyR, LoseConnectionR, rTransfer, rAccept, RecvSame
  <2>2. CASE SenderSocketDrops \/ SenderSocketReopens \/ ReceiverSocketDrops \/ SessionExpires
             \/ RateLimits \/ Pauses
    BY <1>1, <2>2 DEF SenderSocketDrops, SenderSocketReopens, ReceiverSocketDrops,
       SessionExpires, RateLimits, Pauses
  <2>3. CASE Faults \/ Cancels \/ Leaves
    BY <1>1, <2>3 DEF Faults, WriteFails, Cancels, CancelR, Leaves, LeaveR, rTransfer, RecvSame
  <2> QED  BY <1>5, <2>1, <2>2, <2>3 DEF World
<1>6. CASE UNCHANGED vars
  BY <1>1, <1>6 DEF vars
<1> QED  BY <1>2, <1>3, <1>4, <1>5, <1>6 DEF Next

Hashing == [keyed : BOOLEAN, hashed : Seq(Chunks), digested : BOOLEAN]

LEMMA SomeReceiver ==
  ASSUME NEW r \in Receivers
  PROVE  /\ r # None <=> r \in Hashing
         /\ \A key \in BOOLEAN : NewReceiver(key) \in Hashing
         /\ Held(None) = {} /\ \A key : Held(NewReceiver(key)) = {}
<1>1. DOMAIN None = {"keyed", "hashed", "digested", "none"}
  BY DEF None
<1>2. \A x \in Hashing : DOMAIN x = {"keyed", "hashed", "digested"}
  BY DEF Hashing
<1>3. None \notin Hashing
  BY <1>1, <1>2
<1>4. \A key \in BOOLEAN : NewReceiver(key) \in Hashing
  BY EmptySeq DEF NewReceiver, Hashing
<1>5. None.hashed = <<>> /\ \A key : NewReceiver(key).hashed = <<>>
  BY DEF None, NewReceiver
<1>6. ToSet(<<>>) = {}
  BY DEF ToSet
<1> QED  BY <1>3, <1>4, <1>5, <1>6 DEF Receivers, Hashing, Held

\* One more chunk is hashed.
LEMMA HeldAppend ==
  ASSUME NEW s \in Seq(Chunks), NEW c \in Chunks
  PROVE  Append(s, c) \in Seq(Chunks) /\ ToSet(Append(s, c)) = ToSet(s) \cup {c}
<1>1. /\ Append(s, c) \in Seq(Chunks) /\ DOMAIN Append(s, c) = 1..(Len(s) + 1)
      /\ \A j \in 1..Len(s) : Append(s, c)[j] = s[j]
      /\ Append(s, c)[Len(s) + 1] = c
      /\ DOMAIN s = 1..Len(s) /\ Len(s) \in Nat
  BY AppendProperties, LenProperties
<1> QED  BY <1>1 DEF ToSet

\* What is left when one element is removed.
LEMMA RemovedAt ==
  ASSUME NEW S, NEW s \in Seq(S), NEW i \in DOMAIN s
  PROVE  /\ DOMAIN RemoveAt(s, i) = 1..(Len(s) - 1)
         /\ \A j \in 1..(Len(s) - 1) : RemoveAt(s, i)[j] = IF j < i THEN s[j] ELSE s[j + 1]
<1> DEFINE a == SubSeq(s, 1, i - 1)
           b == SubSeq(s, i + 1, Len(s))
<1>1. Len(s) \in Nat /\ i \in 1..Len(s)
  BY LenProperties
<1>2. /\ a \in Seq(S) /\ Len(a) = i - 1 /\ \A j \in 1..(i - 1) : a[j] = s[j]
      /\ b \in Seq(S) /\ Len(b) = Len(s) - i /\ \A j \in 1..(Len(s) - i) : b[j] = s[i + j]
  BY <1>1, SubSeqProperties
<1>3. RemoveAt(s, i) = a \o b
  BY DEF RemoveAt
<1> HIDE DEF a, b
<1>4. /\ DOMAIN (a \o b) = 1..(Len(s) - 1)
      /\ \A j \in 1..(Len(s) - 1) : (a \o b)[j] = IF j <= Len(a) THEN a[j] ELSE b[j - Len(a)]
  BY <1>1, <1>2, ConcatProperties, LenProperties
<1>5. ASSUME NEW j \in 1..(Len(s) - 1)
      PROVE  (a \o b)[j] = IF j < i THEN s[j] ELSE s[j + 1]
  <2>0. Len(a) = i - 1
    BY <1>2
  <2>1. j \in Nat /\ i \in Nat /\ (a \o b)[j] = IF j <= i - 1 THEN a[j] ELSE b[j - (i - 1)]
    BY <1>1, <1>4, <2>0
  <2>2. CASE j < i
    BY <1>2, <2>1, <2>2
  <2>3. CASE j >= i
    <3>1. j - (i - 1) \in 1..(Len(s) - i) /\ i + (j - (i - 1)) = j + 1 /\ ~(j <= i - 1)
      BY <1>1, <2>1, <2>3
    <3>2. b[j - (i - 1)] = s[j + 1]
      BY <1>2, <3>1
    <3> QED  BY <2>1, <2>3, <3>1, <3>2
  <2> QED  BY <2>1, <2>2, <2>3
<1> QED  BY <1>3, <1>4, <1>5

\* The step of one answer that creates one sink, as what it does to the answers.
LEMMA SinkStep ==
  ASSUME Types, Answering, NEW i \in DOMAIN accepting, SinkCreated(i)
  PROVE  \E f \in accepting[i].todo :
           /\ Created(f)
           /\ \/ accepting' = RemoveAt(accepting, i)
              \/ accepting' = [accepting EXCEPT ![i].todo = @ \ {f}]
<1> DEFINE f == Min(accepting[i].todo)
<1>1. accepting[i] \in Answers
  BY QueueTypes DEF Types, ReceiverTypes
<1>2. f \in accepting[i].todo
  BY <1>1, MinOfSet, LinkConstants DEF Answers, Files
<1>3. f \in Files /\ ~Accepted(f) /\ f \notin completed
  <2>1. f \in Files /\ ~Accepted(f)
    BY <1>1, <1>2 DEF Answering, Answers
  <2>2. ~recv[f].digested
    BY <2>1 DEF Accepted, None
  <2> QED  BY <2>1, <2>2 DEF Answering
<1>4. recv' = [recv EXCEPT ![f] = NewReceiver(rKey = "set")] /\ completed' = completed
  BY DEF SinkCreated
<1>5. \/ accepting' = RemoveAt(accepting, i)
      \/ accepting' = [accepting EXCEPT ![i].todo = accepting[i].todo \ {f}]
  BY DEF SinkCreated
<1> HIDE DEF f
<1> QED  BY <1>2, <1>3, <1>4, <1>5 DEF Created

\* Every step that touches a receiver is one of the three changes.
LEMMA ChangesOnly ==
  ASSUME Types, Answering, [Next]_vars
  PROVE  ReceiverChanges
<1> DEFINE m == Head(frames)
<1>1. CASE RecvSame \/ Accept
  BY <1>1 DEF Accept, rTransfer, RecvSame, ReceiverChanges
<1>2. CASE \E i \in DOMAIN accepting : SinkCreated(i)
  BY <1>2, SinkStep DEF Created, ReceiverChanges
<1>3. CASE TakeChunk
  <2>1. m.f \in Files /\ m.c \in Chunks
    BY <1>3, TakeFrameTypes DEF TakeChunk, TakeFrame, FrameSet
  <2>2. \/ RecvSame
        \/ Accepted(m.f) /\ recv' = [recv EXCEPT ![m.f] = HandleChunk(@, m.c)]
           /\ completed' = completed
    BY <1>3 DEF TakeChunk, RecvSame
  <2>3. ASSUME recv[m.f].digested \/ m.c \in Held(recv[m.f]) PROVE HandleChunk(recv[m.f], m.c) = recv[m.f]
    BY <2>3 DEF HandleChunk
  <2>4. recv \in [Files -> Receivers]
    BY DEF Types, ReceiverTypes
  <2>5. \/ RecvSame
        \/ ~recv[m.f].digested /\ m.c \notin Held(recv[m.f])
    BY <2>1, <2>2, <2>3, <2>4 DEF RecvSame
  <2> QED  BY <2>1, <2>2, <2>5 DEF Extended, ReceiverChanges
<1>4. CASE TakeFileComplete \/ FinalizeFails
  <2>1. m.f \in Files
    BY <1>4, TakeFrameTypes DEF TakeFileComplete, FinalizeFails, TakeFrame, FrameSet
  <2>2. \/ RecvSame
        \/ /\ Accepted(m.f) /\ m.f \notin completed
           /\ recv' = [recv EXCEPT ![m.f] = DigestHex(@)] /\ completed' = completed \cup {m.f}
    BY <1>4 DEF TakeFileComplete, FinalizeFails, rTransfer, RecvSame
  <2> QED  BY <2>1, <2>2 DEF Concluded, ReceiverChanges
<1> QED  BY <1>1, <1>2, <1>3, <1>4, ReceiverFootprint

\* A receiver that is there stays, keeps its key and what it holds, and changes no more
\* once it is digested.
LEMMA ReceiversGrow ==
  ASSUME Types, Answering, [Next]_vars, NEW f \in Files, Accepted(f)
  PROVE  /\ recv[f] \in Hashing /\ recv'[f] \in Hashing /\ Accepted(f)'
         /\ Held(recv[f]) \subseteq Held(recv'[f])
         /\ recv'[f].keyed = recv[f].keyed
         /\ recv[f].digested => recv'[f] = recv[f]
<1>1. recv \in [Files -> Receivers] /\ recv[f] \in Hashing
  BY SomeReceiver DEF Types, ReceiverTypes, Accepted
<1>2. CASE UNCHANGED recv
  BY <1>1, <1>2, SomeReceiver DEF Accepted
<1>3. ASSUME NEW g \in Files, Created(g) PROVE recv'[f] = recv[f]
  BY <1>1, <1>3 DEF Created
<1>4. ASSUME NEW g \in Files, Concluded(g)
      PROVE  recv'[f] = recv[f] \/ (recv'[f] = DigestHex(recv[f]) /\ ~recv[f].digested)
  BY <1>1, <1>4 DEF Concluded, Answering
<1>5. ASSUME NEW g \in Files, NEW c \in Chunks, Extended(g, c)
      PROVE  recv'[f] = recv[f]
             \/ (recv'[f] = [recv[f] EXCEPT !.hashed = Append(@, c)] /\ ~recv[f].digested)
  BY <1>1, <1>5 DEF Extended, HandleChunk
<1>6. \A c \in Chunks :
        /\ Append(recv[f].hashed, c) \in Seq(Chunks)
        /\ ToSet(Append(recv[f].hashed, c)) = Held(recv[f]) \cup {c}
  BY <1>1, HeldAppend DEF Hashing, Held
<1>7. CASE \E g \in Files : Created(g)
  BY <1>1, <1>3, <1>7, SomeReceiver DEF Accepted
<1>8. CASE \E g \in Files : Concluded(g)
  <2>1. CASE recv'[f] = recv[f]
    BY <1>1, <2>1, SomeReceiver DEF Accepted
  <2>2. CASE recv'[f] = DigestHex(recv[f]) /\ ~recv[f].digested
    <3>1. /\ recv'[f] \in Hashing /\ recv'[f].hashed = recv[f].hashed
          /\ recv'[f].keyed = recv[f].keyed
      BY <1>1, <2>2 DEF DigestHex, Hashing
    <3> QED  BY <1>1, <2>2, <3>1, SomeReceiver DEF Accepted, Held, Receivers, Hashing
  <2> QED  BY <1>4, <1>8, <2>1, <2>2
<1>9. CASE \E g \in Files, c \in Chunks : Extended(g, c)
  <2>1. PICK g \in Files, c \in Chunks : Extended(g, c)
    BY <1>9
  <2>2. CASE recv'[f] = recv[f]
    BY <1>1, <2>2, SomeReceiver DEF Accepted
  <2>3. CASE recv'[f] = [recv[f] EXCEPT !.hashed = Append(@, c)] /\ ~recv[f].digested
    <3>1. /\ recv'[f] \in Hashing /\ recv'[f].hashed = Append(recv[f].hashed, c)
          /\ recv'[f].keyed = recv[f].keyed
      BY <1>1, <1>6, <2>3 DEF Hashing
    <3>2. Held(recv'[f]) = Held(recv[f]) \cup {c}
      BY <1>6, <3>1 DEF Held
    <3>3. recv'[f] # None
      BY <3>1, SomeReceiver DEF Receivers, Hashing
    <3> QED  BY <1>1, <2>3, <3>1, <3>2, <3>3 DEF Accepted
  <2> QED  BY <1>5, <2>1, <2>2, <2>3
<1> QED  BY <1>2, <1>7, <1>8, <1>9, ChangesOnly DEF ReceiverChanges, RecvSame

LEMMA AnsweringInit == Init => Answering
BY EmptySeq DEF Init, ReceiverInit, Answering, None

LEMMA AnsweringStep ==
  ASSUME Types, Answering, [Next]_vars, Accept => dialog \cap Answered = {}
  PROVE  Answering'
<1>1. recv \in [Files -> Receivers] /\ accepting \in Seq(Answers) /\ Len(accepting) \in Nat
      /\ DOMAIN accepting = 1..Len(accepting)
      /\ \A i \in DOMAIN accepting : accepting[i] \in Answers
  BY QueueTypes DEF Types, ReceiverTypes
<1> DEFINE First == \A f \in Files : f \in completed <=> recv[f].digested
           Second == \A i \in DOMAIN accepting :
                        /\ accepting[i].todo \subseteq accepting[i].files
                        /\ \A f \in accepting[i].todo : ~Accepted(f)
           Third == \A i, j \in DOMAIN accepting :
                        i # j => accepting[i].todo \cap accepting[j].todo = {}
<1>2. First'
  <2>1. ASSUME NEW f \in Files, Created(f) PROVE First'
    <3>1. NewReceiver(rKey = "set").digested = FALSE
      BY DEF NewReceiver
    <3> QED  BY <1>1, <2>1, <3>1 DEF Created, Answering
  <2>2. ASSUME NEW f \in Files, Concluded(f) PROVE First'
    <3>1. DigestHex(recv[f]).digested
      BY <1>1, <2>2, SomeReceiver DEF Concluded, Accepted, DigestHex, Hashing
    <3> QED  BY <1>1, <2>2, <3>1 DEF Concluded, Answering
  <2>3. ASSUME NEW f \in Files, NEW c \in Chunks, Extended(f, c) PROVE First'
    <3>1. HandleChunk(recv[f], c).digested = recv[f].digested
      BY <1>1, <2>3, SomeReceiver DEF Extended, Accepted, HandleChunk, Hashing
    <3> QED  BY <1>1, <2>3, <3>1 DEF Extended, Answering
  <2> QED  BY <2>1, <2>2, <2>3, ChangesOnly DEF ReceiverChanges, RecvSame, Answering
<1>3. ASSUME accepting' = accepting, \A f \in Files : ~Accepted(f) => ~Accepted(f)'
      PROVE  Second' /\ Third'
  BY <1>1, <1>3 DEF Answering, Answers
<1>4. ASSUME RecvSame, accepting' = accepting PROVE Second' /\ Third'
  BY <1>3, <1>4 DEF RecvSame, Accepted
<1>5. ASSUME TakeChunk \/ TakeFileComplete \/ FinalizeFails PROVE Second' /\ Third'
  <2>1. accepting' = accepting
    BY <1>5 DEF TakeChunk, TakeFileComplete, FinalizeFails, rAccept
  <2>2. \A f \in Files : ~Accepted(f) => recv'[f] = recv[f]
    BY <1>1, <1>5 DEF TakeChunk, TakeFileComplete, FinalizeFails, rTransfer
  <2> QED  BY <1>3, <2>1, <2>2 DEF Accepted
<1>6. ASSUME Accept PROVE Second' /\ Third'
  <2>1. /\ accepting' = Append(accepting, [files |-> dialog, todo |-> dialog])
        /\ dialog \cap Answered = {} /\ recv' = recv /\ dialog \subseteq Files
    BY <1>6 DEF Accept, rTransfer, Types, ReceiverTypes
  <2>2. /\ DOMAIN accepting' = 1..(Len(accepting) + 1)
        /\ \A i \in DOMAIN accepting : accepting'[i] = accepting[i]
        /\ accepting'[Len(accepting) + 1] = [files |-> dialog, todo |-> dialog]
    BY <1>1, <2>1, AppendProperties
  <2>3. \A f \in dialog :
          /\ ~Accepted(f)
          /\ \A i \in DOMAIN accepting : f \notin accepting[i].todo
    BY <1>1, <2>1 DEF Answered, Answering
  <2>4. Second'
    BY <1>1, <2>1, <2>2, <2>3 DEF Answering, Accepted
  <2>5. Third'
    BY <1>1, <2>1, <2>2, <2>3 DEF Answering
  <2> QED  BY <2>4, <2>5
<1>7. ASSUME NEW i \in DOMAIN accepting, SinkCreated(i) PROVE Second' /\ Third'
  <2>1. PICK f \in accepting[i].todo :
          /\ Created(f)
          /\ \/ accepting' = RemoveAt(accepting, i)
             \/ accepting' = [accepting EXCEPT ![i].todo = @ \ {f}]
    BY <1>7, SinkStep
  <2>2. \A g \in Files \ {f} : recv'[g] = recv[g]
    BY <1>1, <2>1 DEF Created
  <2>3. \A j \in DOMAIN accepting : j # i => f \notin accepting[j].todo
    BY <2>1 DEF Answering
  <2>4. CASE accepting' = [accepting EXCEPT ![i].todo = @ \ {f}]
    <3>1. /\ DOMAIN accepting' = DOMAIN accepting
          /\ \A j \in DOMAIN accepting : j # i => accepting'[j] = accepting[j]
          /\ accepting'[i].todo = accepting[i].todo \ {f}
          /\ accepting'[i].files = accepting[i].files
      BY <1>1, <2>4 DEF Answers
    <3>2. Second'
      BY <1>1, <2>2, <2>3, <3>1 DEF Answering, Answers, Accepted
    <3>3. Third'
      BY <1>1, <3>1 DEF Answering
    <3> QED  BY <3>2, <3>3
  <2>5. CASE accepting' = RemoveAt(accepting, i)
    <3>1. /\ DOMAIN accepting' = 1..(Len(accepting) - 1)
          /\ \A j \in DOMAIN accepting' :
               accepting'[j] = IF j < i THEN accepting[j] ELSE accepting[j + 1]
      BY <1>1, <2>5, RemovedAt
    <3> DEFINE old(j) == IF j < i THEN j ELSE j + 1
    <3>2. \A j \in DOMAIN accepting' :
            /\ old(j) \in DOMAIN accepting /\ old(j) # i /\ accepting'[j] = accepting[old(j)]
            /\ \A k \in DOMAIN accepting' : j # k => old(j) # old(k)
      BY <1>1, <3>1
    <3> HIDE DEF old
    <3>3. Second'
      BY <1>1, <2>2, <2>3, <3>2 DEF Answering, Answers, Accepted
    <3>4. Third'
      BY <3>2 DEF Answering
    <3> QED  BY <3>3, <3>4
  <2> QED  BY <2>1, <2>4, <2>5
<1> QED  BY <1>2, <1>4, <1>5, <1>6, <1>7, ReceiverFootprint DEF Answering

OneAnswerEach == Types /\ Answering

LEMMA OneAnswerEachHolds == ASSUME OneAnswer PROVE Spec => []OneAnswerEach
<1>1. Init => OneAnswerEach
  BY TypesInit, AnsweringInit DEF OneAnswerEach
<1>2. OneAnswer /\ Accept => dialog \cap Answered = {}
  BY DEF Accept
<1>3. OneAnswerEach /\ [Next]_vars => OneAnswerEach'
  BY <1>2, TypesStep, AnsweringStep, OneAnswer DEF OneAnswerEach
<1> QED  BY <1>1, <1>3, PTL DEF Spec
-----------------------------------------------------------------------------
(* The promises of Delivery                                                *)

gathered == [f \in Files |-> Held(recv[f])]
outcome ==
  [f \in Files |->
     CASE f \notin completed -> "pending"
       [] f \in completed /\ WholeFile(recv[f], NumChunks, Encrypted) -> "intact"
       [] OTHER -> "damaged"]

LEMMA WholeIsAll ==
  ASSUME NEW r, r.hashed = [j \in 1..NumChunks |-> j - 1]
  PROVE  ToSet(r.hashed) = Chunks
<1>1. \A c \in Chunks : c + 1 \in 1..NumChunks /\ r.hashed[c + 1] = c
  BY LinkConstants DEF Chunks
<1>2. \A j \in 1..NumChunks : r.hashed[j] \in Chunks
  BY LinkConstants DEF Chunks
<1> QED  BY <1>1, <1>2 DEF ToSet

LEMMA PromiseStep ==
  ASSUME OneAnswerEach, [Next]_vars
  PROVE  [Promise!Next]_(Promise!vars)
<1>1. recv \in [Files -> Receivers] /\ completed \subseteq Files
  BY DEF OneAnswerEach, Types, ReceiverTypes
<1>2. CASE RecvSame
  BY <1>2 DEF RecvSame, Promise!vars
<1>3. ASSUME NEW f \in Files, Created(f) PROVE gathered' = gathered /\ outcome' = outcome
  <2>1. Held(recv[f]) = {} /\ Held(NewReceiver(rKey = "set")) = {}
    BY <1>3, SomeReceiver, <1>1 DEF Created, Accepted
  <2>2. \A g \in Files : Held(recv'[g]) = Held(recv[g])
    BY <1>1, <1>3, <2>1 DEF Created
  <2>3. \A g \in completed : recv'[g] = recv[g]
    BY <1>1, <1>3 DEF Created
  <2>4. completed' = completed
    BY <1>3 DEF Created
  <2>5. gathered' = gathered
    BY <2>2 DEF gathered
  <2>6. outcome' = outcome
    BY <2>3, <2>4 DEF outcome
  <2> QED  BY <2>5, <2>6
<1>4. ASSUME NEW f \in Files, NEW c \in Chunks, Extended(f, c)
      PROVE  /\ outcome' = outcome /\ outcome[f] = "pending"
             /\ gathered' = [gathered EXCEPT ![f] = @ \cup {c}]
  <2>1. recv[f] \in Hashing /\ f \notin completed /\ completed' = completed
    BY <1>1, <1>4, SomeReceiver DEF Extended, Accepted, OneAnswerEach, Answering
  <2>2. /\ recv' = [recv EXCEPT ![f] = HandleChunk(recv[f], c)]
        /\ HandleChunk(recv[f], c).hashed = Append(recv[f].hashed, c)
    BY <1>4, <2>1 DEF Extended, HandleChunk, Hashing
  <2>3. ToSet(Append(recv[f].hashed, c)) = ToSet(recv[f].hashed) \cup {c}
    <3>1. recv[f].hashed \in Seq(Chunks)
      BY <2>1 DEF Hashing
    <3> QED  BY <3>1, HeldAppend
  <2>4. Held(recv'[f]) = Held(recv[f]) \cup {c}
    BY <1>1, <2>2, <2>3 DEF Held
  <2>5. \A g \in Files \ {f} : recv'[g] = recv[g]
    BY <1>1, <2>2
  <2>6. gathered' = [gathered EXCEPT ![f] = @ \cup {c}]
    BY <2>4, <2>5 DEF gathered
  <2>7. outcome' = outcome /\ outcome[f] = "pending"
    BY <2>1, <2>5 DEF outcome
  <2> QED  BY <2>6, <2>7
<1>5. ASSUME NEW f \in Files, Concluded(f)
      PROVE  /\ outcome[f] = "pending" /\ gathered' = gathered
             /\ \/ outcome' = [outcome EXCEPT ![f] = "damaged"]
                \/ gathered[f] = Chunks /\ outcome' = [outcome EXCEPT ![f] = "intact"]
  <2>1. recv[f] \in Hashing /\ f \notin completed /\ completed' = completed \cup {f}
    BY <1>1, <1>5, SomeReceiver DEF Concluded, Accepted
  <2>2. /\ recv' = [recv EXCEPT ![f] = DigestHex(recv[f])]
        /\ DigestHex(recv[f]).hashed = recv[f].hashed
        /\ DigestHex(recv[f]).keyed = recv[f].keyed
    BY <1>5, <2>1 DEF Concluded, DigestHex, Hashing
  <2>3. \A g \in Files \ {f} : recv'[g] = recv[g]
    BY <1>1, <2>2
  <2>4. recv'[f].hashed = recv[f].hashed /\ recv'[f].keyed = recv[f].keyed
    BY <1>1, <2>2
  <2>5. gathered' = gathered
    BY <2>3, <2>4 DEF gathered, Held
  <2>6. outcome[f] = "pending"
    BY <2>1 DEF outcome
  <2>7. /\ outcome'[f] = IF WholeFile(recv[f], NumChunks, Encrypted) THEN "intact" ELSE "damaged"
        /\ \A g \in Files \ {f} : outcome'[g] = outcome[g]
    BY <2>1, <2>3, <2>4 DEF outcome, WholeFile
  <2>8. WholeFile(recv[f], NumChunks, Encrypted) => gathered[f] = Chunks
    BY WholeIsAll DEF WholeFile, gathered, Held
  <2>9. outcome \in [Files -> {"pending", "intact", "damaged"}] /\ outcome' = [g \in Files |-> outcome'[g]]
    BY DEF outcome
  <2> QED  BY <2>5, <2>6, <2>7, <2>8, <2>9
<1>6. /\ Promise!vars = <<gathered, outcome>> /\ Promise!vars' = <<gathered', outcome'>>
      /\ Promise!Chunks = Chunks
  BY DEF Promise!vars, Promise!Chunks, gathered, outcome, Chunks
<1>7. CASE \E f \in Files : Created(f)
  BY <1>3, <1>6, <1>7
<1>8. CASE \E f \in Files, c \in Chunks : Extended(f, c)
  BY <1>4, <1>6, <1>8 DEF Promise!Next, Promise!Gather, gathered, outcome
<1>9. CASE \E f \in Files : Concluded(f)
  BY <1>5, <1>6, <1>9 DEF Promise!Next, Promise!Conclude, gathered, outcome
<1>10. \/ RecvSame \/ (\E f \in Files : Created(f))
       \/ (\E f \in Files, c \in Chunks : Extended(f, c)) \/ (\E f \in Files : Concluded(f))
  BY ChangesOnly DEF OneAnswerEach, ReceiverChanges
<1> QED  BY <1>2, <1>7, <1>8, <1>9, <1>10

\* The receiving page implements Delivery: whatever connections come and go and whatever
\* the sender repeats, chunks are gathered until a file is concluded, once; nothing that
\* was gathered is lost; and only a file of which everything is there is called intact.
THEOREM PromiseKept == ASSUME OneAnswer PROVE Spec => KeepsPromise
<1>1. Init => Promise!Init
  BY DEF Init, ReceiverInit, Promise!Init, Held, ToSet, None
<1>2. OneAnswerEach /\ [Next]_vars => [Promise!Next]_(Promise!vars)
  BY PromiseStep
<1> QED  BY <1>1, <1>2, OneAnswerEachHolds, OneAnswer, PTL DEF Spec, KeepsPromise, Promise!Spec
-----------------------------------------------------------------------------
(* The order of the connections                                            *)

\* The open connection is the one of this.peer, the last one that opened; a loop was
\* started over one that opened; and PEER_JOINED is taken before any connection is made.
LinkOrder ==
  /\ opened <= sPeer
  /\ up # 0 => up = opened /\ up = sPeer
  /\ \A k \in DOMAIN loops : loops[k].via <= opened
  /\ \A i \in DOMAIN toSender : toSender[i].t = "PEER_JOINED" => i = 1 /\ sPeer = 0
  /\ sPeer = 0 => retries = 0

LEMMA Elements ==
  ASSUME NEW S, NEW q \in Seq(S)
  PROVE  /\ \A x \in S : ToSet(Append(q, x)) = ToSet(q) \cup {x}
         /\ \A r \in Seq(S) : ToSet(q \o r) = ToSet(q) \cup ToSet(r)
         /\ q # <<>> => Head(q) \in ToSet(q) /\ ToSet(q) = {Head(q)} \cup ToSet(Tail(q))
         /\ \A i \in 0..Len(q) : ToSet(SubSeq(q, 1, i)) \subseteq ToSet(q)
         /\ ToSet(q) \subseteq S
<1> USE DEF ToSet
<1>1. Len(q) \in Nat /\ DOMAIN q = 1..Len(q) /\ \A i \in DOMAIN q : q[i] \in S
  BY LenProperties, ElementOfSeq
<1>2. ASSUME NEW x \in S PROVE ToSet(Append(q, x)) = ToSet(q) \cup {x}
  <2>1. /\ DOMAIN Append(q, x) = 1..(Len(q) + 1) /\ Append(q, x)[Len(q) + 1] = x
        /\ \A i \in 1..Len(q) : Append(q, x)[i] = q[i]
    BY <1>1, AppendProperties, LenProperties
  <2> QED  BY <1>1, <2>1
<1>3. ASSUME NEW r \in Seq(S) PROVE ToSet(q \o r) = ToSet(q) \cup ToSet(r)
  <2>1. /\ DOMAIN (q \o r) = 1..(Len(q) + Len(r)) /\ Len(r) \in Nat /\ DOMAIN r = 1..Len(r)
        /\ \A i \in 1..(Len(q) + Len(r)) :
             (q \o r)[i] = IF i <= Len(q) THEN q[i] ELSE r[i - Len(q)]
    BY <1>1, ConcatProperties, LenProperties
  <2>2. \A i \in 1..Len(q) : i \in DOMAIN (q \o r) /\ (q \o r)[i] = q[i]
    BY <1>1, <2>1
  <2>3. \A i \in 1..Len(r) : Len(q) + i \in DOMAIN (q \o r) /\ (q \o r)[Len(q) + i] = r[i]
    BY <1>1, <2>1
  <2>4. \A i \in DOMAIN (q \o r) :
          \/ i \in 1..Len(q) /\ (q \o r)[i] = q[i]
          \/ i - Len(q) \in 1..Len(r) /\ (q \o r)[i] = r[i - Len(q)]
    BY <1>1, <2>1
  <2>5. ToSet(q) \subseteq ToSet(q \o r)
    BY <1>1, <2>2
  <2>6. ToSet(r) \subseteq ToSet(q \o r)
    <3>1. SUFFICES ASSUME NEW i \in DOMAIN r PROVE r[i] \in ToSet(q \o r)
      OBVIOUS
    <3>2. Len(q) + i \in DOMAIN (q \o r) /\ (q \o r)[Len(q) + i] = r[i]
      BY <2>1, <2>3
    <3> QED  BY <3>2
  <2>7. ToSet(q \o r) \subseteq ToSet(q) \cup ToSet(r)
    BY <1>1, <2>1, <2>4
  <2> QED  BY <2>5, <2>6, <2>7
<1>4. ASSUME q # <<>> PROVE Head(q) \in ToSet(q) /\ ToSet(q) = {Head(q)} \cup ToSet(Tail(q))
  <2>1. /\ Tail(q) \in Seq(S) /\ Len(Tail(q)) = Len(q) - 1 /\ Head(q) = q[1] /\ Len(q) > 0
        /\ \A i \in 1..(Len(q) - 1) : Tail(q)[i] = q[i + 1]
    BY <1>1, <1>4, HeadTailProperties, EmptySeq
  <2>2. DOMAIN Tail(q) = 1..(Len(q) - 1)
    BY <2>1, LenProperties
  <2>3. \A i \in 1..Len(q) : i = 1 \/ (i - 1 \in 1..(Len(q) - 1) /\ q[i] = Tail(q)[i - 1])
    BY <1>1, <2>1
  <2>4. \A i \in 1..(Len(q) - 1) : i + 1 \in 1..Len(q) /\ Tail(q)[i] = q[i + 1]
    BY <1>1, <2>1
  <2>5. Head(q) \in ToSet(q)
    BY <1>1, <2>1
  <2>6. ToSet(q) \subseteq {Head(q)} \cup ToSet(Tail(q))
    <3>1. SUFFICES ASSUME NEW i \in DOMAIN q PROVE q[i] \in {Head(q)} \cup ToSet(Tail(q))
      OBVIOUS
    <3>2. CASE i = 1
      BY <2>1, <3>2
    <3>3. CASE i - 1 \in 1..(Len(q) - 1) /\ q[i] = Tail(q)[i - 1]
      BY <2>2, <3>3
    <3> QED  BY <1>1, <2>3, <3>2, <3>3
  <2>7. ToSet(Tail(q)) \subseteq ToSet(q)
    BY <1>1, <2>2, <2>4
  <2> QED  BY <2>5, <2>6, <2>7
<1>5. ASSUME NEW j \in 0..Len(q) PROVE ToSet(SubSeq(q, 1, j)) \subseteq ToSet(q)
  <2>1. SubSeq(q, 1, j) \in Seq(S) /\ Len(SubSeq(q, 1, j)) = j
        /\ \A i \in 1..j : SubSeq(q, 1, j)[i] = q[i]
    BY <1>1, SubSeqProperties
  <2>2. DOMAIN SubSeq(q, 1, j) = 1..j /\ 1..j \subseteq 1..Len(q)
    BY <1>1, <2>1, LenProperties
  <2> QED  BY <1>1, <2>1, <2>2
<1> QED  BY <1>1, <1>2, <1>3, <1>4, <1>5

\* What a step does to the connection of the sending page.
LinkSame == UNCHANGED <<up, opened, sPeer, retries>>
LinkCut == up' = 0 /\ UNCHANGED <<opened, sPeer, retries>>

LEMMA LinkFootprint ==
  ASSUME [Next]_vars
  PROVE  \/ LinkSame \/ LinkCut \/ ChannelsReady \/ BeginHandshake \/ AttemptReconnect
         \/ (UNCHANGED <<up, opened, sPeer>> /\ (sPeer > opened \/ sPeer # 0 \/ up # 0))
<1> DEFINE Goal == \/ LinkSame \/ LinkCut \/ ChannelsReady \/ BeginHandshake \/ AttemptReconnect
                   \/ (UNCHANGED <<up, opened, sPeer>> /\ (sPeer > opened \/ sPeer # 0 \/ up # 0))
<1>1. ASSUME UNCHANGED senderVars, UNCHANGED channelVars PROVE LinkSame
  BY <1>1 DEF senderVars, sReconnect, sConnection, channelVars, LinkSame
<1>2. ASSUME UNCHANGED senderVars, UNCHANGED <<up, opened>> PROVE LinkSame
  BY <1>2 DEF senderVars, sReconnect, sConnection, LinkSame
<1>3. ASSUME NEW a, NEW b, CutLink(a, b), UNCHANGED <<sPeer, retries>> PROVE LinkCut
  BY <1>3 DEF CutLink, LinkCut
<1>4. CASE Continuation
  BY <1>4 DEF Continuation, SenderStep, NextFile, PumpContinues, PumpReturns,
     sReconnect, sConnection, linkVars, channelVars, LinkSame
<1>5. CASE SenderReads
  BY <1>5 DEF SenderReads, SenderStep, PrefixHashed, ChunkRead, BufferLow, HistorySaved,
     sReconnect, sConnection, linkVars, channelVars, LinkSame
<1>6. CASE SenderHandlers
  <2>1. CASE SenderStep(TakeAnswer) \/ SenderStep(TakeNotice)
    BY <2>1 DEF SenderStep, TakeAnswer, TakeNotice, sReconnect, sConnection, channelVars, LinkSame
  <2>2. CASE SenderStep(HandleAccept) \/ SenderStep(HandleReject)
             \/ SenderStep(ResumeCurrentFile)
    BY <2>2 DEF SenderStep, HandleAccept, HandleReject, ResumeCurrentFile, sReconnect,
       sConnection, linkVars, channelVars, LinkSame
  <2>3. CASE SenderStep(HandleCancel)
    BY <1>3, <2>3 DEF SenderStep, HandleCancel, CancelAll, sReconnect
  <2>4. CASE SenderStep(LossNoticed)
    BY <2>4 DEF SenderStep, LossNoticed, LoseConnection, sConnection, linkVars, channelVars
  <2> QED  BY <1>6, <2>1, <2>2, <2>3, <2>4 DEF SenderHandlers, SenderStep
<1>7. CASE ReceiverHandlers
  <2>1. CASE ReceiverStep(TakeOffer) \/ ReceiverStep(TakeNoticeR)
    BY <1>1, <2>1 DEF ReceiverStep, TakeOffer, TakeNoticeR
  <2>2. CASE ReceiverStep(HandleSessionInit) \/ ReceiverStep(KeyImported)
             \/ ReceiverStep(HandleFileOffer) \/ ReceiverStep(HandleCancelR)
    BY <1>2, <2>2 DEF ReceiverStep, HandleSessionInit, KeyImported, HandleFileOffer,
       HandleCancelR, linkVars, channelVars
  <2>3. CASE \E i \in DOMAIN accepting : ReceiverStep(SinkCreated(i))
    BY <1>2, <2>3 DEF ReceiverStep, SinkCreated
  <2>4. CASE \E n \in ended : ReceiverStep(LossNoticedR(n))
    BY <1>2, <2>4 DEF ReceiverStep, LossNoticedR
  <2>5. CASE ReceiverStep(TakeRefusal) \/ ReceiverStep(GiveUp)
    BY <1>1, <1>3, <2>5 DEF ReceiverStep, TakeRefusal, GiveUp, Destroy, senderVars, sReconnect,
       sConnection, linkVars
  <2> QED  BY <1>7, <2>1, <2>2, <2>3, <2>4, <2>5 DEF ReceiverHandlers
<1>8. CASE ReceiverUser
  BY <1>2, <1>8 DEF ReceiverUser, ReceiverStep, Reject, Accept, linkVars, channelVars
<1>9. CASE ReceiverFrames
  BY <1>2, <1>9 DEF ReceiverFrames, ReceiverStep, TakeChunk, TakeFileComplete,
     TakeTransferComplete, TakeFrame
<1>10. CASE World
  <2>1. CASE ConnectionOpens
    BY <2>1 DEF ConnectionOpens
  <2>2. CASE ConnectionBreaks
    BY <1>3, <2>2 DEF ConnectionBreaks, senderVars, sReconnect, sConnection
  <2>3. CASE NegotiationStalls \/ SenderBlip
    BY <2>3 DEF NegotiationStalls, SenderBlip, LoseConnection, sConnection, linkVars, channelVars
  <2>4. CASE ReceiverBlip \/ ReceiverRecovers
    BY <1>1, <2>4 DEF ReceiverBlip, ReceiverRecovers, linkVars
  <2>5. CASE SenderSocketDrops \/ SenderSocketReopens
    BY <2>5 DEF SenderSocketDrops, SenderSocketReopens, sReconnect, linkVars, channelVars, LinkSame
  <2>6. CASE ReceiverSocketDrops \/ SessionExpires \/ RateLimits
    BY <1>1, <2>6 DEF ReceiverSocketDrops, SessionExpires, RateLimits
  <2>7. CASE Faults \/ Pauses
    BY <1>2, <2>7 DEF Faults, LoopFails, WriteFails, FinalizeFails, TakeFrame, Pauses,
       PauseCurrentFile, sReconnect, sConnection, linkVars, channelVars, LinkSame
  <2>8. CASE Cancels
    BY <1>3, <2>8 DEF Cancels, UserCancels, CancelAll, CancelR, Destroy, senderVars, sReconnect,
       sConnection
  <2>9. CASE Leaves
    BY <1>3, <2>9 DEF Leaves, Leave, LeaveR, Destroy, senderVars, sReconnect, sConnection
  <2> QED  BY <1>10, <2>1, <2>2, <2>3, <2>4, <2>5, <2>6, <2>7, <2>8, <2>9 DEF World
<1>11. CASE UNCHANGED vars
  BY <1>1, <1>11 DEF vars, linkVars
<1> QED  BY <1>4, <1>5, <1>6, <1>7, <1>8, <1>9, <1>10, <1>11 DEF Next

\* What a step does to the signaling messages for the sending page.
LEMMA ToSenderFootprint ==
  ASSUME Types, [Next]_vars
  PROVE  \/ toSender' = toSender \/ toSender' = <<>>
         \/ toSender # <<>> /\ toSender' = Tail(toSender)
         \/ \E m \in SenderNotes : m.t # "PEER_JOINED" /\ toSender' = Append(toSender, m)
<1> DEFINE Goal == \/ toSender' = toSender \/ toSender' = <<>>
                   \/ toSender # <<>> /\ toSender' = Tail(toSender)
                   \/ \E m \in SenderNotes : m.t # "PEER_JOINED" /\ toSender' = Append(toSender, m)
<1>1. /\ [t |-> "PEER_LEFT"] \in SenderNotes /\ [t |-> "SESSION_EXPIRED"] \in SenderNotes
      /\ [t |-> "RATE_LIMITED"] \in SenderNotes
  BY DEF SenderNotes
<1>2. ASSUME SenderSocketGone \/ ReceiverSocketGone PROVE Goal
  BY <1>1, <1>2 DEF SenderSocketGone, ReceiverSocketGone
<1>3. ASSUME UNCHANGED signalVars PROVE Goal
  BY <1>3 DEF signalVars
<1>4. CASE Continuation
  BY <1>3, <1>4 DEF Continuation, SenderStep, NextFile, PumpContinues, PumpReturns, linkVars
<1>5. CASE SenderReads
  BY <1>3, <1>5 DEF SenderReads, SenderStep, PrefixHashed, ChunkRead, BufferLow, HistorySaved,
     linkVars
<1>6. CASE SenderHandlers
  <2>1. CASE SenderStep(BeginHandshake) \/ SenderStep(TakeAnswer) \/ SenderStep(TakeNotice)
    BY <2>1 DEF SenderStep, BeginHandshake, TakeAnswer, TakeNotice
  <2>2. CASE SenderStep(HandleAccept) \/ SenderStep(HandleReject)
             \/ SenderStep(ResumeCurrentFile) \/ SenderStep(LossNoticed)
    BY <1>3, <2>2 DEF SenderStep, HandleAccept, HandleReject, ResumeCurrentFile, LossNoticed,
       LoseConnection, linkVars
  <2>3. CASE SenderStep(HandleCancel) \/ SenderStep(AttemptReconnect)
    BY <1>2, <2>3 DEF SenderStep, HandleCancel, CancelAll, AttemptReconnect, linkVars, signalVars
  <2> QED  BY <1>6, <2>1, <2>2, <2>3 DEF SenderHandlers, SenderStep
<1>7. CASE ReceiverHandlers
  <2>1. CASE ReceiverStep(TakeOffer)
    <3>1. Head(toReceiver) \in ReceiverNotes /\ Head(toReceiver).t = "OFFER"
      BY <2>1, QueueTypes DEF ReceiverStep, TakeOffer, Types, SignalTypes
    <3>2. [t |-> "ANSWER", n |-> Head(toReceiver).n] \in SenderNotes
      BY <3>1 DEF ReceiverNotes, SenderNotes
    <3> QED  BY <2>1, <3>2 DEF ReceiverStep, TakeOffer
  <2>2. CASE ReceiverStep(TakeNoticeR) \/ ReceiverStep(HandleSessionInit)
             \/ ReceiverStep(KeyImported) \/ ReceiverStep(HandleFileOffer)
             \/ ReceiverStep(HandleCancelR)
    BY <1>3, <2>2 DEF ReceiverStep, TakeNoticeR, HandleSessionInit, KeyImported,
       HandleFileOffer, HandleCancelR, linkVars, signalVars
  <2>3. CASE (\E i \in DOMAIN accepting : ReceiverStep(SinkCreated(i)))
             \/ \E n \in ended : ReceiverStep(LossNoticedR(n))
    BY <1>3, <2>3 DEF ReceiverStep, SinkCreated, LossNoticedR
  <2>4. CASE ReceiverStep(TakeRefusal) \/ ReceiverStep(GiveUp)
    BY <1>2, <1>3, <2>4 DEF ReceiverStep, TakeRefusal, GiveUp, Destroy, linkVars
  <2> QED  BY <1>7, <2>1, <2>2, <2>3, <2>4 DEF ReceiverHandlers
<1>8. CASE ReceiverUser
  BY <1>3, <1>8 DEF ReceiverUser, ReceiverStep, Reject, Accept, linkVars
<1>9. CASE ReceiverFrames
  BY <1>3, <1>9 DEF ReceiverFrames, ReceiverStep, TakeChunk, TakeFileComplete,
     TakeTransferComplete, TakeFrame
<1>10. CASE World
  <2>1. CASE ConnectionOpens \/ ConnectionBreaks \/ NegotiationStalls \/ SenderBlip
             \/ ReceiverBlip \/ ReceiverRecovers \/ SenderSocketReopens
    BY <1>3, <2>1 DEF ConnectionOpens, ChannelsReady, ConnectionBreaks, NegotiationStalls,
       SenderBlip, LoseConnection, ReceiverBlip, ReceiverRecovers, SenderSocketReopens, linkVars
  <2>2. CASE SenderSocketDrops \/ ReceiverSocketDrops \/ SessionExpires \/ RateLimits
    BY <1>1, <1>2, <2>2 DEF SenderSocketDrops, ReceiverSocketDrops, SessionExpires, RateLimits
  <2>3. CASE Faults \/ Pauses
    BY <1>3, <2>3 DEF Faults, LoopFails, WriteFails, FinalizeFails, TakeFrame, Pauses,
       PauseCurrentFile, linkVars
  <2>4. CASE Cancels \/ Leaves
    BY <1>2, <2>4 DEF Cancels, UserCancels, CancelAll, CancelR, Leaves, Leave, LeaveR, Destroy
  <2> QED  BY <1>10, <2>1, <2>2, <2>3, <2>4 DEF World
<1>11. CASE UNCHANGED vars
  BY <1>3, <1>11 DEF vars, linkVars
<1> QED  BY <1>4, <1>5, <1>6, <1>7, <1>8, <1>9, <1>10, <1>11 DEF Next

-----------------------------------------------------------------------------
(* What a step does to the loops                                           *)

\* A loop keeps what its message said; a running one stays at its index of its file, moves
\* by the chunk it sends, or has just taken up a file at the resume point.
LoopGoesOn(k) ==
  /\ k \in DOMAIN loops
  /\ loops'[k].resume = loops[k].resume
  /\ loops'[k].known = loops[k].known
  /\ loops'[k].via = loops[k].via
  /\ loops'[k].at = "run" =>
       \/ loops'[k].pump.chunk = loops[k].resume[loops'[k].file]
       \/ /\ loops[k].at = "run" /\ loops'[k].file = loops[k].file
          /\ \/ loops'[k].pump.chunk = loops[k].pump.chunk
             \/ ChunkRead(k) /\ loops'[k].pump.chunk = loops[k].pump.chunk + 1

\* It ends, or a FILE_ACCEPT starts it.
LoopEnds(k) ==
  \E place \in {"done", "dead"} : loops'[k] = Finished(place)
LoopStarts(k) ==
  /\ HandleAccept /\ UNCHANGED up
  /\ loops'[k] = Loop(Head(ctlToSender).resume, Head(ctlToSender).known)

LoopChange(k) == LoopGoesOn(k) \/ LoopEnds(k) \/ LoopStarts(k)

\* The steps that touch a loop.
LEMMA LoopFootprint ==
  ASSUME [Next]_vars
  PROVE  \/ UNCHANGED loops
         \/ \E k \in DOMAIN loops :
              NextFile(k) \/ PumpContinues(k) \/ PumpReturns(k) \/ PrefixHashed(k)
                \/ ChunkRead(k) \/ BufferLow(k) \/ HistorySaved(k) \/ LoopFails(k)
         \/ HandleAccept \/ PauseCurrentFile \/ ResumeCurrentFile \/ CancelAll \/ LoseConnection
<1>1. ASSUME UNCHANGED senderVars PROVE UNCHANGED loops
  BY <1>1 DEF senderVars, sControl
<1>2. CASE Continuation \/ SenderReads
  BY <1>2 DEF Continuation, SenderReads, SenderStep
<1>3. CASE SenderHandlers
  BY <1>3 DEF SenderHandlers, SenderStep, BeginHandshake, TakeAnswer, TakeNotice, HandleReject,
     HandleCancel, LossNoticed, AttemptReconnect, sControl
<1>4. CASE ReceiverHandlers \/ ReceiverUser \/ ReceiverFrames
  BY <1>1, <1>4 DEF ReceiverHandlers, ReceiverUser, ReceiverFrames, ReceiverStep
<1>5. CASE World
  <2>1. CASE ConnectionOpens \/ ConnectionBreaks \/ NegotiationStalls \/ SenderBlip
    BY <1>1, <2>1 DEF ConnectionOpens, ChannelsReady, ConnectionBreaks, NegotiationStalls,
       SenderBlip
  <2>2. CASE ReceiverBlip \/ ReceiverRecovers \/ ReceiverSocketDrops \/ SessionExpires
             \/ RateLimits
    BY <1>1, <2>2 DEF ReceiverBlip, ReceiverRecovers, ReceiverSocketDrops, SessionExpires,
       RateLimits
  <2>3. CASE SenderSocketDrops \/ SenderSocketReopens
    BY <2>3 DEF SenderSocketDrops, SenderSocketReopens, sControl
  <2>4. CASE Faults \/ Pauses \/ Cancels \/ Leaves
    BY <1>1, <2>4 DEF Faults, Pauses, Cancels, UserCancels, Leaves, Leave, sControl
  <2> QED  BY <1>5, <2>1, <2>2, <2>3, <2>4 DEF World
<1>6. CASE UNCHANGED vars
  BY <1>1, <1>6 DEF vars
<1> QED  BY <1>2, <1>3, <1>4, <1>5, <1>6 DEF Next

LEMMA LoopChanges ==
  ASSUME Types, [Next]_vars, NEW k \in DOMAIN loops'
  PROVE  LoopChange(k)
<1>1. /\ loops \in Seq(Loops) /\ DOMAIN loops = 1..Len(loops) /\ Len(loops) \in Nat
      /\ \A j \in DOMAIN loops : loops[j] \in LoopRecords /\ loops[j].pump \in Pumps
  <2>1. loops \in Seq(Loops)
    BY DEF Types, SenderTypes
  <2>2. DOMAIN loops = 1..Len(loops) /\ Len(loops) \in Nat
    BY <2>1, QueueTypes
  <2>3. \A j \in DOMAIN loops : loops[j] \in LoopRecords
    BY <2>1, QueueTypes DEF Loops
  <2>4. \A l \in LoopRecords : l.pump \in Pumps
    BY DEF LoopRecords, FittingPumps
  <2> QED  BY <2>1, <2>2, <2>3, <2>4
<1>2. ASSUME k \in DOMAIN loops, loops'[k] = loops[k] PROVE LoopChange(k)
  BY <1>2 DEF LoopChange, LoopGoesOn
<1>3. CASE UNCHANGED loops
  BY <1>2, <1>3
<1>4. ASSUME NEW j \in DOMAIN loops, NextFile(j) PROVE LoopChange(k)
  <2> DEFINE f == loops[j].file + 1
  <2>1. \/ loops' = [loops EXCEPT ![j].at = "run", ![j].file = f,
                                  ![j].pump = NewPump(loops[j].resume[f])]
        \/ loops' = [loops EXCEPT ![j] = Finished("done")]
    BY <1>4 DEF NextFile
  <2>2. CASE k # j
    BY <1>2, <2>1, <2>2
  <2>3. CASE k = j /\ loops' = [loops EXCEPT ![j] = Finished("done")]
    BY <2>3 DEF LoopChange, LoopEnds
  <2>4. CASE k = j /\ loops' = [loops EXCEPT ![j].at = "run", ![j].file = f,
                                             ![j].pump = NewPump(loops[j].resume[f])]
    <3>1. loops'[k] = [loops[k] EXCEPT !.at = "run", !.file = f,
                                       !.pump = NewPump(loops[k].resume[f])]
      BY <2>4
    <3>2. NewPump(loops[k].resume[f]).chunk = loops[k].resume[f]
      BY DEF NewPump
    <3>3. /\ loops'[k].file = f /\ loops'[k].pump = NewPump(loops[k].resume[f])
          /\ loops'[k].resume = loops[k].resume /\ loops'[k].known = loops[k].known
          /\ loops'[k].via = loops[k].via
      BY <1>1, <2>4, <3>1 DEF LoopRecords
    <3> QED  BY <2>4, <3>2, <3>3 DEF LoopChange, LoopGoesOn
  <2> QED  BY <2>1, <2>2, <2>3, <2>4
<1>5. ASSUME NEW j \in DOMAIN loops, NEW p, p.chunk = loops[j].pump.chunk,
             \/ loops' = [loops EXCEPT ![j].pump = p]
             \/ \E n : loops' = [loops EXCEPT ![j].pump = p, ![j].on = n]
      PROVE  LoopChange(k)
  <2>1. CASE k # j
    BY <1>2, <1>5, <2>1
  <2>2. CASE k = j
    <3>1. \/ loops'[k] = [loops[k] EXCEPT !.pump = p]
          \/ \E n : loops'[k] = [loops[k] EXCEPT !.pump = p, !.on = n]
      BY <1>5, <2>2
    <3>2. /\ loops'[k].pump = p /\ loops'[k].at = loops[k].at /\ loops'[k].file = loops[k].file
          /\ loops'[k].resume = loops[k].resume /\ loops'[k].known = loops[k].known
          /\ loops'[k].via = loops[k].via
      BY <1>1, <2>2, <3>1 DEF LoopRecords
    <3> QED  BY <1>5, <2>2, <3>2 DEF LoopChange, LoopGoesOn
  <2> QED  BY <2>1, <2>2
<1>6. ASSUME NEW p \in Pumps
      PROVE  /\ PausePump(p).chunk = p.chunk /\ ResumePump(p).chunk = p.chunk
             /\ CancelPump(p).chunk = p.chunk /\ AfterHash(p).chunk = p.chunk
             /\ AtTop(p, NumChunks).chunk = p.chunk /\ AfterDrain(p).chunk = p.chunk
             /\ \A full : AtBuffer(p, full).chunk = p.chunk
  BY DEF Pumps, PausePump, ResumePump, CancelPump, AfterHash, AtTop, AfterDrain, AtBuffer
<1>7. ASSUME NEW j \in DOMAIN loops, PumpContinues(j) \/ PrefixHashed(j) \/ BufferLow(j)
      PROVE LoopChange(k)
  <2> DEFINE p == loops[j].pump
  <2>1. p \in Pumps
    BY <1>1
  <2>2. \E q \in {AtTop(p, NumChunks), AtBuffer(p, FALSE), AtBuffer(p, TRUE), AfterHash(p),
                  AfterDrain(p)} :
          \/ loops' = [loops EXCEPT ![j].pump = q]
          \/ \E n : loops' = [loops EXCEPT ![j].pump = q, ![j].on = n]
    BY <1>7 DEF PumpContinues, PrefixHashed, BufferLow, SetPump
  <2>3. \A q \in {AtTop(p, NumChunks), AtBuffer(p, FALSE), AtBuffer(p, TRUE), AfterHash(p),
                  AfterDrain(p)} : q.chunk = p.chunk
    <3>1. /\ AtTop(p, NumChunks).chunk = p.chunk /\ AtBuffer(p, FALSE).chunk = p.chunk
          /\ AtBuffer(p, TRUE).chunk = p.chunk /\ AfterHash(p).chunk = p.chunk
          /\ AfterDrain(p).chunk = p.chunk
      BY <1>6, <2>1
    <3> QED  BY <3>1
  <2> HIDE DEF p
  <2>4. PICK q \in {AtTop(p, NumChunks), AtBuffer(p, FALSE), AtBuffer(p, TRUE), AfterHash(p),
                  AfterDrain(p)} :
          \/ loops' = [loops EXCEPT ![j].pump = q]
          \/ \E n : loops' = [loops EXCEPT ![j].pump = q, ![j].on = n]
    BY <2>2
  <2>5. q.chunk = loops[j].pump.chunk
    BY <2>3, <2>4 DEF p
  <2> QED  BY <1>5, <2>4, <2>5
<1>8. ASSUME NEW j \in DOMAIN loops, NEW place \in {"next", "save"},
             \/ loops' = [loops EXCEPT ![j].at = place]
             \/ loops' = [loops EXCEPT ![j].at = place, ![j].pump = Idle]
      PROVE LoopChange(k)
  <2>1. CASE k # j
    BY <1>2, <1>8, <2>1
  <2>2. CASE k = j
    <3>1. \/ loops'[k] = [loops[k] EXCEPT !.at = place]
          \/ loops'[k] = [loops[k] EXCEPT !.at = place, !.pump = Idle]
      BY <1>8, <2>2
    <3>2. /\ loops'[k].at = place /\ loops'[k].via = loops[k].via
          /\ loops'[k].resume = loops[k].resume /\ loops'[k].known = loops[k].known
      BY <1>1, <2>2, <3>1 DEF LoopRecords
    <3> QED  BY <2>2, <3>2 DEF LoopChange, LoopGoesOn
  <2> QED  BY <2>1, <2>2
<1>9. ASSUME NEW j \in DOMAIN loops, PumpReturns(j) \/ HistorySaved(j) PROVE LoopChange(k)
  BY <1>8, <1>9 DEF PumpReturns, HistorySaved
<1>10. ASSUME NEW j \in DOMAIN loops, LoopFails(j) PROVE LoopChange(k)
  BY <1>2, <1>10 DEF LoopFails, LoopChange, LoopEnds
<1>11. ASSUME NEW j \in DOMAIN loops, ChunkRead(j) PROVE LoopChange(k)
  <2>1. loops' = [loops EXCEPT ![j].pump = AfterRead(loops[j].pump)] /\ loops[j].at = "run"
    BY <1>11 DEF ChunkRead, SetPump, Running
  <2>2. CASE k # j
    BY <1>2, <2>1, <2>2
  <2>3. CASE k = j
    <3>1. loops'[k] = [loops[k] EXCEPT !.pump = AfterRead(loops[k].pump)]
      BY <2>1, <2>3
    <3>2. AfterRead(loops[k].pump).chunk = loops[k].pump.chunk + 1
      BY <1>1, <2>3 DEF AfterRead, Pumps
    <3>3. /\ loops'[k].pump = AfterRead(loops[k].pump) /\ loops'[k].file = loops[k].file
          /\ loops'[k].resume = loops[k].resume /\ loops'[k].known = loops[k].known
          /\ loops'[k].via = loops[k].via
      BY <1>1, <2>3, <3>1 DEF LoopRecords
    <3> QED  BY <1>11, <2>1, <2>3, <3>2, <3>3 DEF LoopChange, LoopGoesOn
  <2> QED  BY <2>2, <2>3
<1>12. CASE PauseCurrentFile \/ ResumeCurrentFile \/ CancelAll \/ LoseConnection
  <2>1. \/ loops' = OnActivePump(PausePump) \/ loops' = OnActivePump(ResumePump)
        \/ loops' = OnActivePump(CancelPump)
    BY <1>12 DEF PauseCurrentFile, ResumeCurrentFile, CancelAll, LoseConnection
  <2>2. CASE activePump = 0
    BY <1>3, <2>1, <2>2 DEF OnActivePump
  <2>3. CASE activePump # 0
    <3>1. activePump \in DOMAIN loops
      BY <1>1, <2>3 DEF Types, SenderTypes
    <3>2. \E p : /\ p.chunk = loops[activePump].pump.chunk
                 /\ loops' = [loops EXCEPT ![activePump].pump = p]
      BY <1>1, <1>6, <2>1, <2>3, <3>1 DEF OnActivePump
    <3> QED  BY <1>5, <3>1, <3>2
  <2> QED  BY <2>2, <2>3
<1>13. CASE HandleAccept
  <2>1. loops' = Append(loops, Loop(Head(ctlToSender).resume, Head(ctlToSender).known))
        /\ UNCHANGED up
    BY <1>13 DEF HandleAccept
  <2>2. Loop(Head(ctlToSender).resume, Head(ctlToSender).known) \in Loops
    BY <1>13, HandleAcceptLoop
  <2>3. k \in 1..(Len(loops) + 1)
        /\ loops'[k] = IF k = Len(loops) + 1
                       THEN Loop(Head(ctlToSender).resume, Head(ctlToSender).known) ELSE loops[k]
    BY <1>1, <2>1, <2>2, AppendProperties
  <2>4. CASE k = Len(loops) + 1
    BY <1>13, <2>1, <2>3, <2>4 DEF LoopChange, LoopStarts
  <2>5. CASE k # Len(loops) + 1
    BY <1>1, <1>2, <2>3, <2>5
  <2> QED  BY <2>4, <2>5
<1> QED  BY <1>3, <1>4, <1>7, <1>9, <1>10, <1>11, <1>12, <1>13, LoopFootprint
LEMMA LinkOrderInit == Init => LinkOrder
BY EmptySeq DEF Init, LinkInit, SenderInit, LinkOrder

LEMMA LinkOrderStep ==
  ASSUME Types, LinkOrder, [Next]_vars
  PROVE  LinkOrder'
<1>1. /\ sPeer \in Nat /\ up \in Nat /\ opened \in Nat /\ retries \in Nat
      /\ toSender \in Seq(SenderNotes) /\ Len(toSender) \in Nat
      /\ DOMAIN toSender = 1..Len(toSender)
  BY QueueTypes DEF Types, SignalTypes, ChannelTypes, SenderTypes
<1>2. /\ opened' >= opened /\ opened' <= sPeer' /\ sPeer' >= sPeer
      /\ up' # 0 => up' = opened' /\ up' = sPeer'
      /\ sPeer' = 0 => retries' = 0
      /\ sPeer' # sPeer /\ sPeer = 0 => BeginHandshake
      /\ opened' \in Nat /\ sPeer' \in Nat
  <2>1. CASE LinkSame \/ LinkCut
    BY <1>1, <2>1 DEF LinkSame, LinkCut, LinkOrder
  <2>2. CASE ChannelsReady
    BY <1>1, <2>2 DEF ChannelsReady, sConnection, LinkOrder
  <2>3. CASE BeginHandshake
    <3>1. toSender # <<>> /\ Head(toSender).t = "PEER_JOINED" /\ Head(toSender) = toSender[1]
      BY <1>1, <2>3, HeadTailProperties DEF BeginHandshake
    <3>2. 1 \in DOMAIN toSender
      BY <1>1, <3>1, QueueTypes
    <3>3. sPeer = 0 /\ up = 0 /\ opened = 0
      BY <1>1, <3>1, <3>2 DEF LinkOrder
    <3>4. sPeer' = 1 /\ UNCHANGED <<up, opened, retries>>
      BY <2>3, <3>3 DEF BeginHandshake, channelVars, sReconnect
    <3> QED  BY <1>1, <2>3, <3>3, <3>4
  <2>4. CASE AttemptReconnect
    <3>1. sPeer # 0
      BY <1>1, <2>4 DEF AttemptReconnect, LinkOrder
    <3>2. \/ UNCHANGED <<up, opened, sPeer>>
          \/ up' = 0 /\ opened' = opened /\ sPeer' = sPeer + 1
      BY <2>4 DEF AttemptReconnect, CutLink, linkVars, channelVars
    <3> QED  BY <1>1, <3>1, <3>2 DEF LinkOrder
  <2>5. CASE UNCHANGED <<up, opened, sPeer>> /\ (sPeer > opened \/ sPeer # 0 \/ up # 0)
    BY <1>1, <2>5 DEF LinkOrder
  <2> QED  BY <2>1, <2>2, <2>3, <2>4, <2>5, LinkFootprint
<1>3. ASSUME NEW k \in DOMAIN loops' PROVE loops'[k].via <= opened'
  <2>1. \A j \in DOMAIN loops : loops[j].via \in Nat
    BY QueueTypes DEF Types, SenderTypes, Loops, LoopRecords
  <2>2. CASE LoopGoesOn(k)
    BY <1>1, <1>2, <2>1, <2>2 DEF LoopGoesOn, LinkOrder
  <2>3. CASE LoopEnds(k)
    <3>1. loops'[k].via = 0
      BY <2>3 DEF LoopEnds, Finished, Loop
    <3> QED  BY <1>2, <3>1
  <2>4. CASE LoopStarts(k)
    <3>1. loops'[k].via = up
      BY <2>4 DEF LoopStarts, Loop
    <3> QED  BY <1>1, <1>2, <3>1 DEF LinkOrder
  <2> QED  BY <2>2, <2>3, <2>4, LoopChanges DEF LoopChange
<1>4. ASSUME NEW i \in DOMAIN toSender', toSender'[i].t = "PEER_JOINED"
      PROVE  i = 1 /\ sPeer' = 0
  <2>1. CASE toSender' = toSender
    <3>1. i = 1 /\ sPeer = 0
      BY <1>4, <2>1 DEF LinkOrder
    <3>2. CASE BeginHandshake
      <4>1. toSender # <<>> /\ toSender' = Tail(toSender)
        BY <3>2 DEF BeginHandshake
      <4> QED  BY <1>1, <2>1, <4>1, QueueTypes
    <3> QED  BY <1>2, <3>1, <3>2
  <2>2. CASE toSender' = <<>>
    BY <1>4, <2>2, EmptySeq
  <2>3. CASE toSender # <<>> /\ toSender' = Tail(toSender)
    <3>1. /\ DOMAIN toSender' = 1..(Len(toSender) - 1)
          /\ \A j \in 1..(Len(toSender) - 1) : toSender'[j] = toSender[j + 1]
      BY <1>1, <2>3, HeadTailProperties, LenProperties
    <3>2. i \in 1..(Len(toSender) - 1) /\ toSender[i + 1].t = "PEER_JOINED"
      BY <1>4, <3>1
    <3>3. i + 1 \in DOMAIN toSender /\ i + 1 # 1
      BY <1>1, <3>2
    <3> QED  BY <3>2, <3>3 DEF LinkOrder
  <2>4. ASSUME NEW m \in SenderNotes, m.t # "PEER_JOINED", toSender' = Append(toSender, m)
        PROVE  i = 1 /\ sPeer' = 0
    <3>1. /\ DOMAIN toSender' = 1..(Len(toSender) + 1) /\ toSender'[Len(toSender) + 1] = m
          /\ \A j \in 1..Len(toSender) : toSender'[j] = toSender[j]
      BY <1>1, <2>4, AppendProperties, LenProperties
    <3>2. i \in 1..Len(toSender) /\ toSender[i].t = "PEER_JOINED"
      BY <1>1, <1>4, <2>4, <3>1
    <3>3. i = 1 /\ sPeer = 0
      BY <1>1, <3>2 DEF LinkOrder
    <3>4. ~BeginHandshake
      <4>1. SUFFICES ASSUME BeginHandshake PROVE FALSE
        OBVIOUS
      <4>2. toSender # <<>> /\ toSender' = Tail(toSender)
        BY <4>1 DEF BeginHandshake
      <4>3. DOMAIN toSender' = 1..(Len(toSender) - 1)
        BY <1>1, <4>2, HeadTailProperties, LenProperties
      <4>4. Len(toSender) + 1 \in 1..(Len(toSender) - 1)
        BY <1>1, <3>1, <4>3
      <4> QED  BY <1>1, <4>4
    <3> QED  BY <1>2, <3>3, <3>4
  <2> QED  BY <2>1, <2>2, <2>3, <2>4, ToSenderFootprint
<1> QED  BY <1>2, <1>3, <1>4 DEF LinkOrder
-----------------------------------------------------------------------------
(* Resume points                                                           *)

\* What a FILE_ACCEPT asks for and what it says is known are there at the receiver.
Honest(resume, known, receivers) ==
  /\ \A f \in Files :
       resume[f] > 0 =>
         receivers[f] # None /\ 0..(resume[f] - 1) \subseteq Held(receivers[f])
  /\ \A f \in known : receivers[f] # None

HeldPoints ==
  /\ \A m \in ToSet(ctlToSender) : m.t = "FILE_ACCEPT" => Honest(m.resume, m.known, recv)
  /\ \A k \in DOMAIN loops : Honest(loops[k].resume, loops[k].known, recv)

Acceptance(files, receivers) ==
  [t |-> "FILE_ACCEPT",
   known |-> {f \in Files : receivers[f] # None},
   resume |-> [f \in Files |->
     IF f \in files /\ receivers[f] # None THEN ResumeFromChunk(receivers[f]) ELSE 0]]

LEMMA PostElements ==
  ASSUME NEW S, NEW q \in Seq(S), NEW x \in S, NEW peer
  PROVE  ToSet(Post(q, peer, <<x>>)) \subseteq ToSet(q) \cup {x}
<1>1. <<x>> \in Seq(S) /\ ToSet(<<x>>) = {x}
  BY DEF ToSet
<1>2. \A r \in Seq(S) : ToSet(q \o r) = ToSet(q) \cup ToSet(r)
  BY Elements
<1> QED  BY <1>1, <1>2 DEF Post

\* What a step does to the control messages for the sending page.
AcceptSent == \E files : ToSet(ctlToSender') \subseteq ToSet(ctlToSender) \cup {Acceptance(files, recv')}
LastWords ==
  \E type \in {"FILE_REJECT", "CANCEL"} :
    ToSet(ctlToSender') \subseteq ToSet(ctlToSender) \cup {[t |-> type]}

LEMMA ControlFootprint ==
  ASSUME Types, [Next]_vars
  PROVE  AcceptSent \/ LastWords
<1> DEFINE Goal == AcceptSent \/ LastWords
<1>1. ctlToSender \in Seq(SenderControl)
  BY DEF Types, ChannelTypes
<1>2. \A type \in {"FILE_REJECT", "CANCEL"} : [t |-> type] \in SenderControl
  BY DEF SenderControl
<1>3. ASSUME ToSet(ctlToSender') \subseteq ToSet(ctlToSender) PROVE Goal
  BY <1>3 DEF LastWords
<1>4. ASSUME UNCHANGED ctlToSender PROVE Goal
  BY <1>3, <1>4
<1>5. ASSUME UNCHANGED channelVars PROVE Goal
  BY <1>4, <1>5 DEF channelVars
<1>6. ASSUME ctlToSender # <<>>, ctlToSender' = Tail(ctlToSender) PROVE Goal
  BY <1>1, <1>3, <1>6, Elements
<1>7. ToSet(<<>>) = {}
  BY DEF ToSet
<1>8. ASSUME NEW a, CutLink(<<>>, a) PROVE Goal
  BY <1>3, <1>7, <1>8 DEF CutLink
<1>9. ASSUME NEW type \in {"FILE_REJECT", "CANCEL"},
             ctlToSender' \in {<<>>, Post(ctlToSender, rPeer, <<[t |-> type]>>)}
      PROVE  Goal
  <2>1. ToSet(Post(ctlToSender, rPeer, <<[t |-> type]>>)) \subseteq ToSet(ctlToSender) \cup {[t |-> type]}
    BY <1>1, <1>2, PostElements
  <2> QED  BY <1>7, <1>9, <2>1 DEF LastWords
<1>10. CASE Continuation
  BY <1>5, <1>4, <1>10 DEF Continuation, SenderStep, NextFile, PumpContinues, PumpReturns,
     linkVars
<1>11. CASE SenderReads
  BY <1>5, <1>4, <1>11 DEF SenderReads, SenderStep, PrefixHashed, ChunkRead, BufferLow,
     HistorySaved, linkVars
<1>12. CASE SenderHandlers
  <2>1. CASE SenderStep(BeginHandshake) \/ SenderStep(TakeAnswer) \/ SenderStep(TakeNotice)
             \/ SenderStep(ResumeCurrentFile) \/ SenderStep(LossNoticed)
    BY <1>5, <2>1 DEF SenderStep, BeginHandshake, TakeAnswer, TakeNotice, ResumeCurrentFile,
       LossNoticed, LoseConnection, linkVars
  <2>2. CASE SenderStep(HandleAccept) \/ SenderStep(HandleReject)
    BY <1>6, <2>2 DEF SenderStep, HandleAccept, HandleReject, TakeControl
  <2>3. CASE SenderStep(HandleCancel)
    BY <1>8, <2>3 DEF SenderStep, HandleCancel, CancelAll
  <2>4. CASE SenderStep(AttemptReconnect)
    BY <1>8, <1>5, <2>4 DEF SenderStep, AttemptReconnect, linkVars
  <2> QED  BY <1>12, <2>1, <2>2, <2>3, <2>4 DEF SenderHandlers, SenderStep
<1>13. CASE ReceiverHandlers
  <2>1. CASE ReceiverStep(TakeOffer) \/ ReceiverStep(TakeNoticeR) \/ ReceiverStep(KeyImported)
    BY <1>5, <2>1 DEF ReceiverStep, TakeOffer, TakeNoticeR, KeyImported, linkVars
  <2>2. CASE ReceiverStep(HandleSessionInit) \/ ReceiverStep(HandleCancelR)
             \/ \E n \in ended : ReceiverStep(LossNoticedR(n))
    BY <1>4, <2>2 DEF ReceiverStep, HandleSessionInit, HandleCancelR, LossNoticedR
  <2>3. CASE ReceiverStep(TakeRefusal)
    BY <1>8, <2>3 DEF ReceiverStep, TakeRefusal, Destroy
  <2>4. CASE ReceiverStep(GiveUp)
    BY <1>8, <1>5, <2>4 DEF ReceiverStep, GiveUp, Destroy, linkVars
  <2>5. ASSUME NEW files, SendAccept(files, recv'), recv' \in [Files -> Receivers] PROVE Goal
    <3>1. ctlToSender' = Post(ctlToSender, rPeer, <<Acceptance(files, recv')>>)
      BY <2>5 DEF SendAccept, Say, Acceptance
    <3>2. Acceptance(files, recv') \in SenderControl
      <4>1. \A f \in Files : recv'[f] # None => ResumeFromChunk(recv'[f]) \in 0..NumChunks
        BY <2>5, ResumePoint DEF Receivers
      <4>2. Acceptance(files, recv').resume \in [Files -> 0..NumChunks]
            /\ Acceptance(files, recv').known \in SUBSET Files
        BY <4>1, LinkConstants DEF Acceptance
      <4> QED  BY <4>2 DEF Acceptance, SenderControl
    <3>3. ToSet(ctlToSender') \subseteq ToSet(ctlToSender) \cup {Acceptance(files, recv')}
      BY <1>1, <3>1, <3>2, PostElements
    <3> QED  BY <3>3 DEF AcceptSent
  <2>6. Types'
    BY TypesStep
  <2>7. recv' \in [Files -> Receivers]
    BY <2>6 DEF Types, ReceiverTypes
  <2>8. CASE ReceiverStep(HandleFileOffer)
    <3>1. recv' = recv /\ (UNCHANGED ctlToSender \/ SendAccept(Head(ctlToReceiver).files, recv))
      BY <2>8 DEF ReceiverStep, HandleFileOffer
    <3>2. UNCHANGED ctlToSender \/ SendAccept(Head(ctlToReceiver).files, recv')
      BY <3>1
    <3> QED  BY <1>4, <2>5, <2>7, <3>2
  <2>9. ASSUME NEW i \in DOMAIN accepting, ReceiverStep(SinkCreated(i)) PROVE Goal
    <3>1. UNCHANGED ctlToSender \/ SendAccept(accepting[i].files, recv')
      BY <2>9 DEF ReceiverStep, SinkCreated
    <3> QED  BY <1>4, <2>5, <2>7, <3>1
  <2> QED  BY <1>13, <2>1, <2>2, <2>3, <2>4, <2>8, <2>9 DEF ReceiverHandlers
<1>14. CASE ReceiverUser
  <2>1. CASE ReceiverStep(Accept)
    BY <1>5, <2>1 DEF ReceiverStep, Accept, linkVars
  <2>2. CASE ReceiverStep(Reject)
    BY <1>9, <2>2 DEF ReceiverStep, Reject, Say
  <2> QED  BY <1>14, <2>1, <2>2 DEF ReceiverUser
<1>15. CASE ReceiverFrames
  BY <1>4, <1>15 DEF ReceiverFrames, ReceiverStep, TakeChunk, TakeFileComplete,
     TakeTransferComplete, TakeFrame
<1>16. CASE World
  <2>1. CASE ConnectionOpens
    BY <1>4, <2>1 DEF ConnectionOpens, ChannelsReady
  <2>2. CASE ConnectionBreaks
    BY <1>8, <2>2 DEF ConnectionBreaks
  <2>3. CASE NegotiationStalls \/ SenderBlip \/ ReceiverBlip \/ ReceiverRecovers
    BY <1>5, <2>3 DEF NegotiationStalls, SenderBlip, LoseConnection, ReceiverBlip,
       ReceiverRecovers, linkVars
  <2>4. CASE SenderSocketDrops \/ SenderSocketReopens \/ ReceiverSocketDrops
             \/ SessionExpires \/ RateLimits
    BY <1>5, <2>4 DEF SenderSocketDrops, SenderSocketReopens, ReceiverSocketDrops,
       SessionExpires, RateLimits, linkVars
  <2>5. CASE Faults \/ Pauses
    BY <1>4, <1>5, <2>5 DEF Faults, LoopFails, WriteFails, FinalizeFails, TakeFrame, Pauses,
       PauseCurrentFile, linkVars
  <2>6. CASE Cancels
    <3>1. UserCancels \/ CancelR
      BY <2>6 DEF Cancels
    <3>2. CASE UserCancels
      BY <1>8, <3>2 DEF UserCancels, CancelAll
    <3>3. CASE CancelR
      BY <1>9, <3>3 DEF CancelR, Destroy, CutLink
    <3> QED  BY <3>1, <3>2, <3>3
  <2>7. CASE Leaves
    BY <1>8, <2>7 DEF Leaves, Leave, LeaveR, Destroy
  <2> QED  BY <1>16, <2>1, <2>2, <2>3, <2>4, <2>5, <2>6, <2>7 DEF World
<1>17. CASE UNCHANGED vars
  BY <1>5, <1>17 DEF vars, linkVars
<1> QED  BY <1>10, <1>11, <1>12, <1>13, <1>14, <1>15, <1>16, <1>17 DEF Next

LEMMA HeldPointsInit == Init => HeldPoints
BY EmptySeq DEF Init, LinkInit, SenderInit, HeldPoints, ToSet

\* What was there stays there.
LEMMA HonestStays ==
  ASSUME Types, Answering, [Next]_vars, NEW resume, NEW known \in SUBSET Files,
         Honest(resume, known, recv)
  PROVE  Honest(resume, known, recv')
<1>1. \A f \in Files : Accepted(f) => Accepted(f)' /\ Held(recv[f]) \subseteq Held(recv'[f])
  BY ReceiversGrow
<1> QED  BY <1>1 DEF Honest, Accepted

LEMMA HeldPointsStep ==
  ASSUME Types, Answering, HeldPoints, [Next]_vars
  PROVE  HeldPoints'
<1>1. /\ ctlToSender \in Seq(SenderControl)
      /\ recv' \in [Files -> Receivers]
      /\ \A k \in DOMAIN loops : loops[k].known \in SUBSET Files
      /\ \A m \in ToSet(ctlToSender) : m \in SenderControl
  <2>1. Types'
    BY TypesStep
  <2>2. ctlToSender \in Seq(SenderControl) /\ loops \in Seq(Loops)
    BY DEF Types, ChannelTypes, SenderTypes
  <2>3. \A k \in DOMAIN loops : loops[k].known \in SUBSET Files
    BY <2>2, QueueTypes DEF Loops, LoopRecords
  <2> QED  BY <2>1, <2>2, <2>3, Elements DEF Types, ReceiverTypes
<1>2. ASSUME NEW m \in ToSet(ctlToSender), m.t = "FILE_ACCEPT"
      PROVE  Honest(m.resume, m.known, recv) /\ Honest(m.resume, m.known, recv')
  <2>1. m.known \in SUBSET Files
    BY <1>1, <1>2 DEF SenderControl
  <2>2. Honest(m.resume, m.known, recv)
    BY <1>2 DEF HeldPoints
  <2> QED  BY <2>1, <2>2, HonestStays
<1>3. ASSUME NEW files
      PROVE  LET m == Acceptance(files, recv') IN Honest(m.resume, m.known, recv')
  <2> DEFINE m == Acceptance(files, recv')
  <2>1. m.known = {f \in Files : recv'[f] # None}
    BY DEF Acceptance
  <2>2. ASSUME NEW f \in Files, m.resume[f] > 0
        PROVE  recv'[f] # None /\ 0..(m.resume[f] - 1) \subseteq Held(recv'[f])
    <3>1. recv'[f] # None /\ m.resume[f] = ResumeFromChunk(recv'[f])
      BY <2>2 DEF Acceptance
    <3>2. recv'[f] \in Hashing
      BY <1>1, <3>1, SomeReceiver
    <3> QED  BY <3>1, <3>2, ResumePoint DEF Hashing
  <2> QED  BY <2>1, <2>2 DEF Honest
<1>4. \A m \in ToSet(ctlToSender') : m.t = "FILE_ACCEPT" => Honest(m.resume, m.known, recv')
  <2>1. CASE AcceptSent
    BY <1>2, <1>3, <2>1 DEF AcceptSent
  <2>2. CASE LastWords
    <3>1. \A type \in {"FILE_REJECT", "CANCEL"} : [t |-> type].t # "FILE_ACCEPT"
      OBVIOUS
    <3> QED  BY <1>2, <2>2, <3>1 DEF LastWords
  <2> QED  BY <2>1, <2>2, ControlFootprint
<1>5. ASSUME NEW k \in DOMAIN loops' PROVE Honest(loops'[k].resume, loops'[k].known, recv')
  <2>1. CASE LoopGoesOn(k)
    <3>1. Honest(loops[k].resume, loops[k].known, recv')
      BY <1>1, <2>1, HonestStays DEF LoopGoesOn, HeldPoints
    <3> QED  BY <2>1, <3>1 DEF LoopGoesOn
  <2>2. CASE LoopEnds(k)
    <3>1. loops'[k].resume = [f \in Files |-> 0] /\ loops'[k].known = {}
      BY <2>2 DEF LoopEnds, Finished, Loop
    <3> QED  BY <3>1 DEF Honest
  <2>3. CASE LoopStarts(k)
    <3> DEFINE m == Head(ctlToSender)
    <3>1. m \in ToSet(ctlToSender) /\ m.t = "FILE_ACCEPT"
      BY <1>1, <2>3, Elements DEF LoopStarts, HandleAccept, TakeControl
    <3>2. loops'[k].resume = m.resume /\ loops'[k].known = m.known
      BY <2>3 DEF LoopStarts, Loop
    <3>3. Honest(m.resume, m.known, recv')
      BY <1>2, <3>1
    <3> QED  BY <3>2, <3>3
  <2> QED  BY <2>1, <2>2, <2>3, LoopChanges DEF LoopChange
<1> QED  BY <1>4, <1>5 DEF HeldPoints

PointsAreHeld == OneAnswerEach /\ LinkOrder /\ HeldPoints

LEMMA PointsAreHeldHolds == ASSUME OneAnswer PROVE Spec => []PointsAreHeld
<1>1. Init => PointsAreHeld
  BY TypesInit, AnsweringInit, LinkOrderInit, HeldPointsInit DEF OneAnswerEach, PointsAreHeld
<1>2. OneAnswer /\ Accept => dialog \cap Answered = {}
  BY DEF Accept
<1>3. PointsAreHeld /\ [Next]_vars => PointsAreHeld'
  BY <1>2, TypesStep, AnsweringStep, LinkOrderStep, HeldPointsStep, OneAnswer
     DEF OneAnswerEach, PointsAreHeld
<1> QED  BY <1>1, <1>3, PTL DEF Spec

\* A FILE_ACCEPT never asks the sender to start beyond a hole: handleAccept resumes at the
\* first missing chunk, and nothing that the receiver held when it answered is forgotten
\* while the message travels.
THEOREM ResumePointIsHeld == ASSUME OneAnswer PROVE Spec => []ResumePointHeld
<1>1. PointsAreHeld => ResumePointHeld
  <2>1. SUFFICES ASSUME PointsAreHeld, NEW i \in DOMAIN ctlToSender,
                        ctlToSender[i].t = "FILE_ACCEPT",
                        NEW f \in Files, ctlToSender[i].resume[f] > 0
                 PROVE  /\ Accepted(f)
                        /\ 0..(ctlToSender[i].resume[f] - 1) \subseteq Held(recv[f])
    BY DEF ResumePointHeld
  <2>2. ctlToSender[i] \in ToSet(ctlToSender)
    BY DEF ToSet
  <2> QED  BY <2>1, <2>2 DEF PointsAreHeld, HeldPoints, Honest, Accepted
<1> QED  BY <1>1, PointsAreHeldHolds, OneAnswer, PTL
-----------------------------------------------------------------------------
(* No hole behind a loop                                                   *)

\* An upset is not taken back, so what has not been disturbed saw no upset in this step.
LEMMA UpsetsSpent ==
  ASSUME Types, [Next]_vars, Undisturbed'
  PROVE  Undisturbed /\ ~Faults
<1>1. /\ left \in [losses : 0..MaxLosses, upsets : 0..MaxUpsets, pauses : 0..MaxPauses]
      /\ MaxUpsets \in Nat
  BY WorldConstants DEF Types, WorldTypes
<1>2. ASSUME Spend("upsets") PROVE left'.upsets < MaxUpsets
  <2>1. left' = [left EXCEPT !["upsets"] = left["upsets"] - 1] /\ left["upsets"] > 0
    BY <1>2 DEF Spend
  <2>2. left'.upsets = left.upsets - 1 /\ left.upsets > 0
    BY <1>1, <2>1
  <2> QED  BY <1>1, <2>2
<1>3. ASSUME Spend("losses") \/ Spend("pauses") PROVE left'.upsets = left.upsets
  BY <1>1, <1>3 DEF Spend
<1>4. ASSUME UNCHANGED worldVars PROVE left' = left
  BY <1>4 DEF worldVars
<1>5. \/ UNCHANGED worldVars \/ Spend("upsets") \/ Spend("losses") \/ Spend("pauses")
      \/ ReceiverBlip \/ ReceiverRecovers
  <2>1. CASE Continuation \/ SenderReads \/ SenderHandlers
    BY <2>1 DEF Continuation, SenderReads, SenderHandlers, SenderStep
  <2>2. CASE ReceiverHandlers \/ ReceiverUser \/ ReceiverFrames
    BY <2>2 DEF ReceiverHandlers, ReceiverUser, ReceiverFrames, ReceiverStep
  <2>3. CASE World
    BY <2>3 DEF World, ConnectionOpens, ConnectionBreaks, NegotiationStalls, SenderBlip,
       SenderSocketDrops, SenderSocketReopens, ReceiverSocketDrops, SessionExpires, RateLimits,
       Faults, Pauses, Cancels, Leaves, Upset, Loss
  <2>4. CASE UNCHANGED vars
    BY <2>4 DEF vars
  <2> QED  BY <2>1, <2>2, <2>3, <2>4 DEF Next
<1>6. ASSUME ReceiverBlip \/ ReceiverRecovers PROVE left'.upsets = left.upsets
  <2>1. left' = left \/ left' = [left EXCEPT !.losses = left.losses - 1]
    BY <1>6 DEF ReceiverBlip, ReceiverRecovers
  <2> QED  BY <1>1, <2>1
<1>7. left'.upsets = MaxUpsets
  BY DEF Undisturbed
<1>8. ~Spend("upsets")
  BY <1>1, <1>2, <1>7
<1>9. left.upsets = MaxUpsets
  BY <1>3, <1>4, <1>5, <1>6, <1>7, <1>8
<1> QED  BY <1>8, <1>9 DEF Undisturbed, Faults, Upset

\* What a step that keeps the connection does to the frames on their way: none is lost but
\* the one that the receiver takes.
LEMMA FramesFootprint ==
  ASSUME Types, [Next]_vars
  PROVE  \/ ToSet(frames) \subseteq ToSet(frames') \/ up' = 0
         \/ TakeChunk \/ TakeFileComplete \/ TakeTransferComplete \/ Faults
<1> DEFINE Goal == \/ ToSet(frames) \subseteq ToSet(frames') \/ up' = 0
                   \/ TakeChunk \/ TakeFileComplete \/ TakeTransferComplete \/ Faults
<1>1. ASSUME UNCHANGED frames PROVE Goal
  BY <1>1
<1>2. ASSUME UNCHANGED channelVars PROVE Goal
  BY <1>1, <1>2 DEF channelVars
<1>3. ASSUME NEW a, NEW b, CutLink(a, b) PROVE Goal
  BY <1>3 DEF CutLink
<1>4. ASSUME NEW m \in FrameSet, frames' = Post(frames, sPeer, <<m>>)
      PROVE  ToSet(frames) \subseteq ToSet(frames')
  <2>1. <<m>> \in Seq(FrameSet) /\ frames \in Seq(FrameSet)
    BY DEF Types, ChannelTypes
  <2>2. \A r \in Seq(FrameSet) : ToSet(frames \o r) = ToSet(frames) \cup ToSet(r)
    BY <2>1, Elements
  <2> QED  BY <1>4, <2>1, <2>2 DEF Post
<1>5. /\ loops \in Seq(Loops) /\ \A k \in DOMAIN loops : loops[k] \in Loops
      /\ NumChunks \in Nat
  BY QueueTypes, LinkConstants DEF Types, SenderTypes
<1>6. CASE Continuation
  <2>1. ASSUME NEW k \in DOMAIN loops, NextFile(k) PROVE Goal
    <3>1. [t |-> "TRANSFER_COMPLETE"] \in FrameSet
      BY DEF FrameSet
    <3> QED  BY <1>1, <1>4, <2>1, <3>1 DEF NextFile, PostFrames
  <2>2. ASSUME NEW k \in DOMAIN loops, PumpContinues(k) PROVE Goal
    BY <1>2, <2>2 DEF PumpContinues, linkVars
  <2>3. ASSUME NEW k \in DOMAIN loops, PumpReturns(k) PROVE Goal
    <3>1. loops[k].file \in Files
      BY <1>5, <2>3 DEF PumpReturns, Running, Loops
    <3>2. [t |-> "FILE_COMPLETE", f |-> loops[k].file] \in FrameSet
      BY <3>1 DEF FrameSet
    <3> QED  BY <1>1, <1>4, <2>3, <3>2 DEF PumpReturns, PostFrames
  <2> QED  BY <1>6, <2>1, <2>2, <2>3 DEF Continuation, SenderStep
<1>7. CASE SenderReads
  <2>1. ASSUME NEW k \in DOMAIN loops, ChunkRead(k) PROVE Goal
    <3>1. loops[k].file \in Files /\ loops[k].pump \in FittingPumps /\ loops[k].pump.at = "read"
      BY <1>5, <2>1 DEF ChunkRead, Running, Loops, LoopRecords
    <3>2. loops[k].pump.chunk \in Chunks
      BY <1>5, <3>1 DEF FittingPumps, Pumps, Chunks
    <3>3. [t |-> "CHUNK", f |-> loops[k].file, c |-> loops[k].pump.chunk] \in FrameSet
      BY <3>1, <3>2 DEF FrameSet
    <3> QED  BY <1>4, <2>1, <3>3 DEF ChunkRead, PostFrames
  <2>2. ASSUME NEW k \in DOMAIN loops, PrefixHashed(k) \/ BufferLow(k) \/ HistorySaved(k)
        PROVE Goal
    BY <1>2, <2>2 DEF PrefixHashed, BufferLow, HistorySaved, linkVars
  <2> QED  BY <1>7, <2>1, <2>2 DEF SenderReads, SenderStep
<1>8. CASE SenderHandlers
  <2>1. CASE SenderStep(BeginHandshake) \/ SenderStep(TakeAnswer) \/ SenderStep(TakeNotice)
             \/ SenderStep(ResumeCurrentFile) \/ SenderStep(LossNoticed)
    BY <1>2, <2>1 DEF SenderStep, BeginHandshake, TakeAnswer, TakeNotice, ResumeCurrentFile,
       LossNoticed, LoseConnection, linkVars
  <2>2. CASE SenderStep(HandleAccept) \/ SenderStep(HandleReject)
    BY <1>1, <2>2 DEF SenderStep, HandleAccept, HandleReject
  <2>3. CASE SenderStep(HandleCancel)
    BY <1>3, <2>3 DEF SenderStep, HandleCancel, CancelAll
  <2>4. CASE SenderStep(AttemptReconnect)
    BY <1>3, <1>2, <2>4 DEF SenderStep, AttemptReconnect, linkVars
  <2> QED  BY <1>8, <2>1, <2>2, <2>3, <2>4 DEF SenderHandlers, SenderStep
<1>9. CASE ReceiverHandlers
  <2>1. CASE ReceiverStep(TakeOffer) \/ ReceiverStep(TakeNoticeR) \/ ReceiverStep(KeyImported)
    BY <1>2, <2>1 DEF ReceiverStep, TakeOffer, TakeNoticeR, KeyImported, linkVars
  <2>2. CASE ReceiverStep(HandleSessionInit) \/ ReceiverStep(HandleCancelR)
             \/ ReceiverStep(HandleFileOffer) \/ \E n \in ended : ReceiverStep(LossNoticedR(n))
    BY <1>1, <2>2 DEF ReceiverStep, HandleSessionInit, HandleCancelR, HandleFileOffer,
       LossNoticedR
  <2>3. CASE \E i \in DOMAIN accepting : ReceiverStep(SinkCreated(i))
    BY <1>1, <2>3 DEF ReceiverStep, SinkCreated
  <2>4. CASE ReceiverStep(TakeRefusal)
    BY <1>3, <2>4 DEF ReceiverStep, TakeRefusal, Destroy
  <2>5. CASE ReceiverStep(GiveUp)
    BY <1>3, <1>2, <2>5 DEF ReceiverStep, GiveUp, Destroy, linkVars
  <2> QED  BY <1>9, <2>1, <2>2, <2>3, <2>4, <2>5 DEF ReceiverHandlers
<1>10. CASE ReceiverUser
  BY <1>1, <1>2, <1>10 DEF ReceiverUser, ReceiverStep, Accept, Reject, linkVars
<1>11. CASE ReceiverFrames
  BY <1>11 DEF ReceiverFrames, ReceiverStep
<1>12. CASE World
  <2>1. CASE ConnectionOpens
    BY <1>1, <2>1 DEF ConnectionOpens, ChannelsReady
  <2>2. CASE ConnectionBreaks
    BY <1>3, <2>2 DEF ConnectionBreaks
  <2>3. CASE NegotiationStalls \/ SenderBlip \/ ReceiverBlip \/ ReceiverRecovers
    BY <1>2, <2>3 DEF NegotiationStalls, SenderBlip, LoseConnection, ReceiverBlip,
       ReceiverRecovers, linkVars
  <2>4. CASE SenderSocketDrops \/ SenderSocketReopens \/ ReceiverSocketDrops
             \/ SessionExpires \/ RateLimits
    BY <1>2, <2>4 DEF SenderSocketDrops, SenderSocketReopens, ReceiverSocketDrops,
       SessionExpires, RateLimits, linkVars
  <2>5. CASE Pauses
    BY <1>2, <2>5 DEF Pauses, PauseCurrentFile, linkVars
  <2>6. CASE Cancels \/ Leaves
    BY <1>3, <2>6 DEF Cancels, UserCancels, CancelAll, CancelR, Leaves, Leave, LeaveR, Destroy
  <2> QED  BY <1>12, <2>1, <2>2, <2>3, <2>4, <2>5, <2>6 DEF World
<1>13. CASE UNCHANGED vars
  BY <1>2, <1>13 DEF vars, linkVars
<1> QED  BY <1>6, <1>7, <1>8, <1>9, <1>10, <1>11, <1>12, <1>13 DEF Next

\* A chunk that is there or on its way stays so, while the connection holds and the file's
\* digest is not taken.
There(f, c, receivers, queue) ==
  c \in Held(receivers[f]) \/ [t |-> "CHUNK", f |-> f, c |-> c] \in ToSet(queue)

LEMMA ThereStays ==
  ASSUME Types, Answering, [Next]_vars, up' # 0, ~Faults,
         NEW f \in Files, Accepted(f), ~recv'[f].digested, NEW c, There(f, c, recv, frames)
  PROVE  There(f, c, recv', frames')
<1> DEFINE x == [t |-> "CHUNK", f |-> f, c |-> c]
<1>1. /\ Held(recv[f]) \subseteq Held(recv'[f]) /\ ~recv[f].digested
      /\ recv \in [Files -> Receivers] /\ recv[f] \in Hashing
      /\ frames \in Seq(FrameSet)
  BY ReceiversGrow DEF Types, ReceiverTypes, ChannelTypes
<1>2. CASE c \in Held(recv[f])
  BY <1>1, <1>2 DEF There
<1>3. CASE x \in ToSet(frames)
  <2>1. CASE ToSet(frames) \subseteq ToSet(frames')
    BY <1>3, <2>1 DEF There
  <2>2. ASSUME NEW type, TakeFrame(type), x # Head(frames) PROVE There(f, c, recv', frames')
    <3>1. frames # <<>> /\ frames' = Tail(frames)
      BY <2>2 DEF TakeFrame
    <3>2. ToSet(frames) = {Head(frames)} \cup ToSet(Tail(frames))
      BY <1>1, <3>1, Elements
    <3> QED  BY <1>3, <2>2, <3>1, <3>2 DEF There
  <2>3. CASE TakeFileComplete \/ TakeTransferComplete
    <3>1. PICK type \in {"FILE_COMPLETE", "TRANSFER_COMPLETE"} : TakeFrame(type)
      BY <2>3 DEF TakeFileComplete, TakeTransferComplete
    <3>2. Head(frames).t # x.t
      BY <3>1 DEF TakeFrame
    <3> QED  BY <2>2, <3>1, <3>2
  <2>4. CASE TakeChunk
    <3>1. CASE x # Head(frames)
      BY <2>2, <2>4, <3>1 DEF TakeChunk
    <3>2. CASE x = Head(frames)
      <4>1. Head(frames).f = f /\ Head(frames).c = c
        BY <3>2
      <4>2. recv' = [recv EXCEPT ![f] = HandleChunk(recv[f], c)]
        BY <2>4, <4>1 DEF TakeChunk
      <4>3. recv'[f] = HandleChunk(recv[f], c)
        BY <1>1, <4>2
      <4>4. CASE c \in Held(recv[f])
        BY <1>2, <4>4
      <4>5. CASE c \notin Held(recv[f])
        <5>1. recv'[f].hashed = Append(recv[f].hashed, c)
          BY <1>1, <4>3, <4>5 DEF HandleChunk, Hashing
        <5>2. c \in Chunks
          BY <2>4, <4>1, TakeFrameTypes DEF TakeChunk, TakeFrame, FrameSet
        <5>3. ToSet(Append(recv[f].hashed, c)) = ToSet(recv[f].hashed) \cup {c}
          BY <1>1, <5>2, HeldAppend DEF Hashing
        <5> QED  BY <5>1, <5>3 DEF There, Held
      <4> QED  BY <4>4, <4>5
    <3> QED  BY <3>1, <3>2
  <2> QED  BY <2>1, <2>3, <2>4, FramesFootprint
<1> QED  BY <1>2, <1>3 DEF There

NoGapLeft ==
  Undisturbed =>
    \A k \in DOMAIN loops :
      Running(k) /\ up # 0 /\ loops[k].via = up /\ loops[k].file \in loops[k].known
        /\ ~recv[loops[k].file].digested =>
          \A c \in 0..(loops[k].pump.chunk - 1) : There(loops[k].file, c, recv, frames)

LEMMA NoGapStep ==
  ASSUME PointsAreHeld, NoGapLeft, [Next]_vars
  PROVE  NoGapLeft'
<1>1. Types /\ Answering /\ LinkOrder /\ HeldPoints /\ HeldPoints'
  BY HeldPointsStep DEF PointsAreHeld, OneAnswerEach
<1>2. SUFFICES ASSUME Undisturbed', NEW k \in DOMAIN loops', loops'[k].at = "run", up' # 0,
                      loops'[k].via = up', loops'[k].file \in loops'[k].known,
                      ~recv'[loops'[k].file].digested,
                      NEW c \in 0..(loops'[k].pump.chunk - 1)
               PROVE  There(loops'[k].file, c, recv', frames')
  BY DEF NoGapLeft, Running, There
<1> DEFINE f == loops'[k].file
<1>3. Undisturbed /\ ~Faults
  BY <1>1, <1>2, UpsetsSpent
<1>4. LoopGoesOn(k)
  <2>1. ~LoopEnds(k)
    BY <1>2 DEF LoopEnds, Finished, Loop
  <2>2. ~LoopStarts(k)
    BY <1>2 DEF LoopStarts, Loop
  <2> QED  BY <1>1, <2>1, <2>2, LoopChanges DEF LoopChange
<1>5. /\ k \in DOMAIN loops /\ loops[k] \in LoopRecords /\ f \in Files
      /\ loops[k].known = loops'[k].known /\ f \in loops[k].known
      /\ loops[k].via = up' /\ loops[k].via <= opened
      /\ up \in Nat /\ opened \in Nat /\ sPeer \in Nat
  <2>0. loops \in Seq(Loops) /\ k \in DOMAIN loops
    BY <1>1, <1>4 DEF LoopGoesOn, Types, SenderTypes
  <2>1. k \in DOMAIN loops /\ loops[k] \in LoopRecords
    BY <2>0, QueueTypes DEF Loops
  <2>2. loops[k].known = loops'[k].known /\ loops[k].via = up'
    BY <1>2, <1>4 DEF LoopGoesOn
  <2>3. f \in loops[k].known /\ f \in Files
    BY <1>2, <2>1, <2>2 DEF LoopRecords
  <2>4. loops[k].via <= opened /\ up \in Nat /\ opened \in Nat /\ sPeer \in Nat
    BY <1>1, <2>1 DEF LinkOrder, Types, ChannelTypes, SenderTypes
  <2> QED  BY <2>1, <2>2, <2>3, <2>4
<1>6. up' = up
  <2>1. CASE ChannelsReady
    BY <1>1, <1>5, <2>1 DEF ChannelsReady
  <2>2. CASE ~ChannelsReady
    BY <1>2, <2>2, LinkFootprint DEF LinkSame, LinkCut, BeginHandshake, AttemptReconnect,
       CutLink, linkVars, channelVars
  <2> QED  BY <2>1, <2>2
<1>7. Accepted(f)
  BY <1>1, <1>5 DEF HeldPoints, Honest, Accepted
<1>8. ~recv[f].digested
  BY <1>1, <1>2, <1>5, <1>7, ReceiversGrow
<1>9. ASSUME There(f, c, recv, frames) PROVE There(f, c, recv', frames')
  BY <1>1, <1>2, <1>3, <1>5, <1>7, <1>9, ThereStays
<1>10. ASSUME loops[k].at = "run", loops[k].file = f, NEW d \in 0..(loops[k].pump.chunk - 1)
       PROVE  There(f, d, recv, frames)
  BY <1>2, <1>3, <1>5, <1>6, <1>8, <1>10 DEF NoGapLeft, Running
<1>11. CASE loops'[k].pump.chunk = loops[k].resume[f]
  <2>1. loops'[k].resume = loops[k].resume
    BY <1>4 DEF LoopGoesOn
  <2>2. loops[k].resume[f] \in Nat
    BY <1>5 DEF LoopRecords
  <2>3. loops'[k].resume[f] > 0 /\ c \in 0..(loops'[k].resume[f] - 1)
    BY <1>2, <1>11, <2>1, <2>2
  <2>4. c \in Held(recv'[f])
    BY <1>1, <1>2, <1>5, <2>3 DEF HeldPoints, Honest
  <2> QED  BY <2>4 DEF There
<1>12. CASE loops[k].at = "run" /\ loops[k].file = f
            /\ loops'[k].pump.chunk = loops[k].pump.chunk
  BY <1>2, <1>9, <1>10, <1>12
<1>13. CASE loops[k].at = "run" /\ loops[k].file = f
            /\ ChunkRead(k) /\ loops'[k].pump.chunk = loops[k].pump.chunk + 1
  <2> DEFINE x == [t |-> "CHUNK", f |-> f, c |-> loops[k].pump.chunk]
  <2>1. loops[k].pump.chunk \in Nat
    BY <1>5 DEF LoopRecords, FittingPumps, Pumps
  <2>2. CASE c \in 0..(loops[k].pump.chunk - 1)
    BY <1>9, <1>10, <1>13, <2>2
  <2>3. CASE c = loops[k].pump.chunk
    <3>1. up # 0 /\ up = sPeer
      BY <1>1, <1>2, <1>6 DEF LinkOrder
    <3>2. frames' = frames \o <<x>>
      BY <1>13, <3>1 DEF ChunkRead, PostFrames, Post
    <3>3. frames \in Seq(FrameSet)
      BY <1>1 DEF Types, ChannelTypes
    <3>4. frames' \in Seq(FrameSet)
      BY <1>1, TypesStep DEF Types, ChannelTypes
    <3>5. x \in ToSet(frames')
      <4>1. <<x>> \in Seq({x}) /\ Len(<<x>>) = 1 /\ <<x>>[1] = x
        OBVIOUS
      <4>2. frames \in Seq(FrameSet \cup {x}) /\ <<x>> \in Seq(FrameSet \cup {x})
        BY <3>3
      <4>3. ToSet(frames \o <<x>>) = ToSet(frames) \cup ToSet(<<x>>)
        <5>1. \A r \in Seq(FrameSet \cup {x}) :
                ToSet(frames \o r) = ToSet(frames) \cup ToSet(r)
          BY <4>2, Elements
        <5> QED  BY <4>2, <5>1
      <4>4. x \in ToSet(<<x>>)
        BY <4>1 DEF ToSet
      <4> QED  BY <3>2, <4>3, <4>4
    <3> QED  BY <2>3, <3>5 DEF There
  <2> QED  BY <1>2, <1>13, <2>1, <2>2, <2>3
<1> QED  BY <1>2, <1>4, <1>11, <1>12, <1>13 DEF LoopGoesOn

\* A resumed transfer leaves no hole: whatever connections were lost before, every chunk
\* below the index of the loop that the open connection's accept started is at the receiver
\* or on its way, so FILE_COMPLETE, which travels behind them, finds the file whole.
THEOREM NoGapHolds == ASSUME OneAnswer PROVE Spec => []NoGap
<1>1. Init => NoGapLeft
  BY EmptySeq DEF Init, SenderInit, NoGapLeft
<1>2. PointsAreHeld /\ NoGapLeft /\ [Next]_vars => NoGapLeft'
  BY NoGapStep
<1>3. NoGapLeft => NoGap
  BY DEF NoGapLeft, NoGap, There, ToSet
<1> QED  BY <1>1, <1>2, <1>3, PointsAreHeldHolds, OneAnswer, PTL DEF Spec
=============================================================================
