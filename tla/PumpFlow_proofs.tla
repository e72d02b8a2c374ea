--------------------------- MODULE PumpFlow_proofs ---------------------------
(***************************************************************************)
(* Proofs about one ChunkPump on one channel: for every file length, every *)
(* resume point, every chunk size and every pair of watermarks.            *)
(***************************************************************************)
EXTENDS PumpFlow, SequenceTheorems, TLAPS

\* The n chunks from a on.
Stretch(a, n) == [j \in 1..n |-> a + j - 1]

\* Where the pump is, and how far: the index lies between the resume point and
\* the end, and only a pump behind the loop test stands at a chunk of the file.
IndexInv ==
  /\ pump.chunk \in From..Total
  /\ pump.at \in {"paused", "resumed", "full", "read"} => pump.chunk < Total
  /\ pump.at = "completed" => pump.chunk = Total

\* What was hashed and what was sent are functions of the index.
ContentInv ==
  /\ pump.at = "hash" => pump.chunk = From /\ hashed = <<>>
  /\ pump.at # "hash" => hashed = Stretch(0, pump.chunk)
  /\ sent = Stretch(From, pump.chunk - From)

\* A chunk sent while paused is the last one before the pump stands still.
PauseInv ==
  /\ ~pump.paused => sincePause = 0
  /\ sincePause # 0 =>
       sincePause = 1 /\ pump.at \in {"top", "paused", "completed", "cancelled"}

\* A chunk sent while cancelled is the last one before run() returns.
CancelInv ==
  /\ ~pump.cancelled => sinceCancel = 0
  /\ sinceCancel # 0 =>
       sinceCancel = 1 /\ pump.at \in {"top", "completed", "cancelled"}

\* The pump reads a chunk only when the buffer was below the watermark.
BufferInv ==
  /\ buffered < High + ChunkBytes
  /\ pump.at = "read" => buffered < High

IInv == TypeOK /\ IndexInv /\ ContentInv /\ PauseInv /\ CancelInv /\ BufferInv

-----------------------------------------------------------------------------
\* A stretch of chunks of the file is a sequence of its indices.
LEMMA StretchIsSeq ==
  ASSUME NEW a \in Nat, NEW n \in Nat, a + n <= Total
  PROVE  Stretch(a, n) \in Seq(0..(Total - 1)) /\ Len(Stretch(a, n)) = n
<1>1. Stretch(a, n) \in [1..n -> 0..(Total - 1)]
  BY PumpConstants DEF Stretch
<1>2. Stretch(a, n) \in Seq(0..(Total - 1))
  BY <1>1, SeqDef
<1> QED
  BY <1>1, <1>2, LenProperties

\* Sending one more chunk lengthens the stretch by it.
LEMMA StretchGrows ==
  ASSUME NEW a \in Nat, NEW n \in Nat, a + n < Total
  PROVE  Append(Stretch(a, n), a + n) = Stretch(a, n + 1)
<1> DEFINE s == Stretch(a, n)
<1>1. s \in Seq(0..(Total - 1)) /\ Len(s) = n /\ a + n \in 0..(Total - 1)
  BY StretchIsSeq, PumpConstants
<1>2. /\ Append(s, a + n) \in Seq(0..(Total - 1))
      /\ Len(Append(s, a + n)) = n + 1
      /\ \A i \in 1..n : Append(s, a + n)[i] = s[i]
      /\ Append(s, a + n)[n + 1] = a + n
  BY <1>1, AppendProperties
<1>3. Stretch(a, n + 1) \in Seq(0..(Total - 1)) /\ Len(Stretch(a, n + 1)) = n + 1
  BY StretchIsSeq, PumpConstants
<1>4. \A i \in 1..(n + 1) : Append(s, a + n)[i] = Stretch(a, n + 1)[i]
  BY <1>2 DEF Stretch
<1> QED
  BY <1>2, <1>3, <1>4, SeqEqual

-----------------------------------------------------------------------------
LEMMA InitInv == Init => IInv
<1> SUFFICES ASSUME Init PROVE IInv
  OBVIOUS
<1> USE PumpConstants
<1>1. Stretch(0, 0) = <<>> /\ Stretch(From, 0) = <<>>
  BY DEF Stretch
<1>2. pump = [at |-> IF From > 0 THEN "hash" ELSE "top",
              chunk |-> From, paused |-> FALSE, cancelled |-> FALSE]
  BY DEF Init, NewPump
<1>3. TypeOK
  BY <1>2, EmptySeq DEF Init, TypeOK, Pumps, PumpPlaces
<1>4. IndexInv
  BY <1>2 DEF IndexInv
<1>5. ContentInv
  BY <1>1, <1>2 DEF ContentInv, Init
<1>6. PauseInv /\ CancelInv /\ BufferInv
  BY <1>2 DEF PauseInv, CancelInv, BufferInv, Init
<1> QED
  BY <1>3, <1>4, <1>5, <1>6 DEF IInv

LEMMA NextInv == IInv /\ [Next]_vars => IInv'
<1> SUFFICES ASSUME IInv, [Next]_vars PROVE IInv'
  OBVIOUS
<1> USE PumpConstants DEF IInv
<1>0. /\ pump \in [at: PumpPlaces, chunk: Nat, paused: BOOLEAN, cancelled: BOOLEAN]
      /\ TypeOK /\ IndexInv /\ ContentInv /\ PauseInv /\ CancelInv /\ BufferInv
  BY DEF TypeOK, Pumps
<1>1. CASE HashPrefix
  <2>1. /\ pump.at = "hash" /\ pump.chunk = From
        /\ pump' = [pump EXCEPT !.at = "top"]
        /\ hashed' = Stretch(0, From)
        /\ UNCHANGED <<sent, buffered, open, calls, sincePause, sinceCancel>>
    BY <1>0, <1>1 DEF HashPrefix, AfterHash, ContentInv, Stretch
  <2>2. hashed' \in Seq(0..(Total - 1))
    BY <2>1, StretchIsSeq
  <2>3. TypeOK'
    BY <1>0, <2>1, <2>2 DEF TypeOK, Pumps, PumpPlaces
  <2>4. IndexInv' /\ ContentInv'
    BY <1>0, <2>1 DEF IndexInv, ContentInv
  <2>5. PauseInv' /\ CancelInv' /\ BufferInv'
    BY <1>0, <2>1 DEF PauseInv, CancelInv, BufferInv
  <2> QED
    BY <2>3, <2>4, <2>5
<1>2. CASE LoopTop
  <2>1. /\ pump.at = "top"
        /\ pump' = [pump EXCEPT !.at = pump'.at]
        /\ pump'.at \in {"completed", "cancelled", "paused", "resumed"}
        /\ pump'.at = "completed" <=> pump.chunk >= Total
        /\ UNCHANGED <<hashed, sent, buffered, open, calls, sincePause, sinceCancel>>
    BY <1>0, <1>2 DEF LoopTop, AtTop
  <2>2. /\ pump'.at = "resumed" => ~pump.paused /\ ~pump.cancelled
        /\ pump'.at = "paused" => ~pump.cancelled
    BY <1>0, <1>2 DEF LoopTop, AtTop
  <2>3. TypeOK'
    BY <1>0, <2>1 DEF TypeOK, Pumps, PumpPlaces
  <2>4. IndexInv' /\ ContentInv'
    BY <1>0, <2>1 DEF IndexInv, ContentInv
  <2>5. PauseInv' /\ CancelInv' /\ BufferInv'
    BY <1>0, <2>1, <2>2 DEF PauseInv, CancelInv, BufferInv
  <2> QED
    BY <2>3, <2>4, <2>5
<1>3. CASE WaitForBuffer
  <2>1. /\ pump.at = "resumed"
        /\ pump' = [pump EXCEPT !.at = pump'.at]
        /\ pump'.at \in {"cancelled", "full", "read"}
        /\ pump'.at = "read" => buffered < High
        /\ pump'.at \in {"full", "read"} => ~pump.cancelled
        /\ UNCHANGED <<hashed, sent, buffered, open, calls, sincePause, sinceCancel>>
    BY <1>0, <1>3 DEF WaitForBuffer, AtBuffer, TypeOK
  <2>2. TypeOK'
    BY <1>0, <2>1 DEF TypeOK, Pumps, PumpPlaces
  <2>3. IndexInv' /\ ContentInv'
    BY <1>0, <2>1 DEF IndexInv, ContentInv
  <2>4. PauseInv' /\ CancelInv' /\ BufferInv'
    BY <1>0, <2>1 DEF PauseInv, CancelInv, BufferInv
  <2> QED
    BY <2>2, <2>3, <2>4
<1>4. CASE SendChunk
  <2>1. /\ pump.at = "read"
        /\ pump' = [pump EXCEPT !.at = "top", !.chunk = pump.chunk + 1]
        /\ hashed' = Append(hashed, pump.chunk)
        /\ sent' = Append(sent, pump.chunk)
        /\ buffered' \in {buffered, buffered + ChunkBytes}
        /\ UNCHANGED <<open, calls>>
    BY <1>0, <1>4 DEF SendChunk, AfterRead
  <2>2. pump.chunk \in From..(Total - 1)
    BY <1>0, <2>1 DEF IndexInv
  <2> DEFINE n == pump.chunk - From
  <2>a. /\ pump.chunk \in Nat /\ n \in Nat /\ n + 1 \in Nat /\ 0 \in Nat /\ From \in Nat
        /\ 0 + pump.chunk = pump.chunk /\ pump.chunk < Total
        /\ From + n = pump.chunk /\ n + 1 = pump.chunk + 1 - From
        /\ From + (n + 1) <= Total
    BY <2>2
  <2> HIDE DEF n
  <2>3. hashed' = Stretch(0, pump.chunk + 1)
    <3>1. Append(Stretch(0, pump.chunk), 0 + pump.chunk) = Stretch(0, pump.chunk + 1)
      BY <2>a, StretchGrows
    <3>2. hashed = Stretch(0, pump.chunk)
      BY <1>0, <2>1 DEF ContentInv
    <3> QED
      BY <2>1, <2>a, <3>1, <3>2
  <2>4. sent' = Stretch(From, pump.chunk + 1 - From)
    <3>1. sent = Stretch(From, n)
      BY <1>0 DEF ContentInv, n
    <3>2. Append(Stretch(From, n), From + n) = Stretch(From, n + 1)
      BY <2>a, StretchGrows
    <3> QED
      BY <2>1, <2>a, <3>1, <3>2
  <2>5. /\ pump' \in Pumps /\ pump'.chunk = pump.chunk + 1 /\ pump'.at = "top"
        /\ pump'.paused = pump.paused /\ pump'.cancelled = pump.cancelled
    <3>1. pump.chunk + 1 \in Nat /\ "top" \in PumpPlaces
      BY <2>2 DEF PumpPlaces
    <3>2. pump' = [at |-> "top", chunk |-> pump.chunk + 1,
                   paused |-> pump.paused, cancelled |-> pump.cancelled]
      BY <1>0, <2>1
    <3> QED
      BY <1>0, <3>1, <3>2 DEF Pumps
  <2>6. /\ sincePause' = IF pump.paused THEN sincePause + 1 ELSE 0
        /\ sinceCancel' = IF pump.cancelled THEN sinceCancel + 1 ELSE 0
    BY <1>4 DEF SendChunk
  <2>7. TypeOK'
    <3>1. hashed' \in Seq(0..(Total - 1))
      BY <2>2, <2>3, StretchIsSeq
    <3>2. sent' \in Seq(0..(Total - 1))
      BY <2>4, <2>a, StretchIsSeq
    <3>3. buffered' \in Nat /\ open' \in BOOLEAN /\ calls' \in 0..MaxCalls
      BY <1>0, <2>1 DEF TypeOK
    <3>4. sincePause' \in Nat /\ sinceCancel' \in Nat
      BY <1>0, <2>6 DEF TypeOK
    <3> QED
      BY <2>5, <3>1, <3>2, <3>3, <3>4 DEF TypeOK
  <2>8. IndexInv' /\ ContentInv'
    BY <1>0, <2>2, <2>3, <2>4, <2>5 DEF IndexInv, ContentInv
  <2>9. PauseInv' /\ CancelInv' /\ BufferInv'
    BY <1>0, <2>1, <2>5, <2>6 DEF PauseInv, CancelInv, BufferInv, TypeOK
  <2> QED
    BY <2>7, <2>8, <2>9
<1>5. CASE Transmit
  <2>1. PICK left \in 0..(High + ChunkBytes) :
          /\ left < buffered
          /\ buffered' = left
          /\ pump' = IF pump.at = "full" /\ buffered > Low /\ left <= Low
                     THEN AfterDrain(pump) ELSE pump
    BY <1>5 DEF Transmit
  <2>2. UNCHANGED <<hashed, sent, open, calls, sincePause, sinceCancel>>
    BY <1>5 DEF Transmit
  <2>3. CASE pump' = pump
    BY <1>0, <2>1, <2>2, <2>3
      DEF TypeOK, IndexInv, ContentInv, PauseInv, CancelInv, BufferInv
  <2>4. CASE /\ pump.at = "full" /\ left <= Low
             /\ pump' = AfterDrain(pump)
    <3>1. /\ pump' = [pump EXCEPT !.at = pump'.at]
          /\ pump'.at = IF pump.cancelled THEN "cancelled" ELSE "read"
      BY <1>0, <2>4 DEF AfterDrain
    <3>2. TypeOK'
      <4>1. pump' \in Pumps
        BY <1>0, <3>1 DEF Pumps, PumpPlaces
      <4> QED
        BY <1>0, <2>1, <2>2, <4>1 DEF TypeOK
    <3>3. IndexInv' /\ ContentInv'
      BY <1>0, <2>2, <2>4, <3>1 DEF IndexInv, ContentInv
    <3>4. PauseInv' /\ CancelInv' /\ BufferInv'
      BY <1>0, <2>1, <2>2, <2>4, <3>1 DEF PauseInv, CancelInv, BufferInv, TypeOK
    <3> QED
      BY <3>2, <3>3, <3>4
  <2> QED
    BY <2>1, <2>3, <2>4
<1>6. CASE Pause
  <2>1. /\ pump.at \notin {"top", "resumed", "completed", "cancelled"}
        /\ pump' = [pump EXCEPT !.paused = TRUE]
        /\ calls < MaxCalls /\ calls' = calls + 1
        /\ sincePause' = IF pump.paused THEN sincePause ELSE 0
        /\ UNCHANGED <<hashed, sent, buffered, open, sinceCancel>>
    BY <1>6 DEF Pause, PausePump, Runs, Over
  <2>2. TypeOK'
    <3>1. pump' \in Pumps
      BY <1>0, <2>1 DEF Pumps, PumpPlaces
    <3> QED
      BY <1>0, <2>1, <3>1 DEF TypeOK
  <2>3. IndexInv' /\ ContentInv'
    BY <1>0, <2>1 DEF IndexInv, ContentInv
  <2>4. PauseInv' /\ CancelInv' /\ BufferInv'
    BY <1>0, <2>1 DEF PauseInv, CancelInv, BufferInv
  <2> QED
    BY <2>2, <2>3, <2>4
<1>7. CASE Resume
  <2>1. /\ pump' = [pump EXCEPT !.paused = FALSE, !.at = pump'.at]
        /\ pump'.at = IF pump.at = "paused" THEN "resumed" ELSE pump.at
        /\ calls < MaxCalls /\ calls' = calls + 1
        /\ sincePause' = 0
        /\ UNCHANGED <<hashed, sent, buffered, open, sinceCancel>>
    BY <1>0, <1>7 DEF Resume, ResumePump
  <2>2. TypeOK'
    <3>1. pump' \in Pumps
      BY <1>0, <2>1 DEF Pumps, PumpPlaces
    <3> QED
      BY <1>0, <2>1, <3>1 DEF TypeOK
  <2>3. IndexInv' /\ ContentInv'
    BY <1>0, <2>1 DEF IndexInv, ContentInv
  <2>4. PauseInv' /\ CancelInv' /\ BufferInv'
    BY <1>0, <2>1 DEF PauseInv, CancelInv, BufferInv
  <2> QED
    BY <2>2, <2>3, <2>4
<1>8. CASE Cancel
  <2>1. /\ ~pump.cancelled
        /\ pump' = [pump EXCEPT !.paused = FALSE, !.cancelled = TRUE, !.at = pump'.at]
        /\ pump'.at = IF pump.at = "paused" THEN "resumed" ELSE pump.at
        /\ sincePause' = 0
        /\ UNCHANGED <<hashed, sent, buffered, open, calls, sinceCancel>>
    BY <1>0, <1>8 DEF Cancel, CancelPump, ResumePump
  <2>2. TypeOK'
    BY <1>0, <2>1 DEF TypeOK, Pumps, PumpPlaces
  <2>3. IndexInv' /\ ContentInv'
    BY <1>0, <2>1 DEF IndexInv, ContentInv
  <2>4. PauseInv' /\ CancelInv' /\ BufferInv'
    BY <1>0, <2>1 DEF PauseInv, CancelInv, BufferInv
  <2> QED
    BY <2>2, <2>3, <2>4
<1>9. CASE ChannelDies
  BY <1>0, <1>9
    DEF ChannelDies, TypeOK, IndexInv, ContentInv, PauseInv, CancelInv, BufferInv
<1>10. CASE UNCHANGED vars
  BY <1>0, <1>10
    DEF vars, TypeOK, IndexInv, ContentInv, PauseInv, CancelInv, BufferInv
<1> QED
  BY <1>1, <1>2, <1>3, <1>4, <1>5, <1>6, <1>7, <1>8, <1>9, <1>10 DEF Next, PumpStep

LEMMA SpecInv == Spec => []IInv
  BY InitInv, NextInv, PTL DEF Spec

-----------------------------------------------------------------------------
\* Type correctness: whatever pause, resume, cancel and the channel do, the pump
\* sends and hashes indices of the file only (chunkPump.ts run).
THEOREM TypeCorrect == Spec => []TypeOK
<1>1. IInv => TypeOK
  BY DEF IInv
<1> QED
  BY <1>1, SpecInv, PTL

\* pause() takes hold after at most one more chunk (chunkPump.ts waitForResume).
THEOREM PauseTakesHold == Spec => []PauseHolds
<1>1. IInv => PauseHolds
  BY DEF IInv, PauseInv, PauseHolds
<1> QED
  BY <1>1, SpecInv, PTL

\* cancel() lets at most the chunk being read go out (chunkPump.ts run).
THEOREM CancelTakesHold == Spec => []CancelHolds
<1>1. IInv => CancelHolds
  BY DEF IInv, CancelInv, CancelHolds
<1> QED
  BY <1>1, SpecInv, PTL

\* Backpressure bounds what the channel buffers (chunkPump.ts waitForBufferSpace).
THEOREM Backpressure == Spec => []BufferBounded
<1>1. IInv => BufferBounded
  BY DEF IInv, BufferInv, BufferBounded
<1> QED
  BY <1>1, SpecInv, PTL

\* The checksum of a completed run is the digest of the whole file in order,
\* from whatever chunk it was resumed, and every chunk from there was sent.
THEOREM ChecksumIsOfFile == Spec => []ChecksumCoversFile
<1>1. IInv => ChecksumCoversFile
  BY PumpConstants
    DEF IInv, TypeOK, Pumps, IndexInv, ContentInv, ChecksumCoversFile, Stretch
<1> QED
  BY <1>1, SpecInv, PTL
=============================================================================
