------------------------------ MODULE PumpFlow -------------------------------
(***************************************************************************)
(* One ChunkPump on one file channel, with the backpressure of             *)
(* bufferedAmount and bufferedamountlow, and the calls pause(), resume()   *)
(* and cancel() arriving at any time.                                      *)
(***************************************************************************)
EXTENDS ChunkPump, Sequences

CONSTANTS
  Total,      \* chunks of the file
  From,       \* the chunk run() starts at (resumeFrom of the FILE_ACCEPT)
  ChunkBytes, \* bytes one chunk adds to bufferedAmount
  High,       \* BUFFERED_AMOUNT_HIGH_WATERMARK
  Low,        \* BUFFERED_AMOUNT_LOW_WATERMARK
  MaxCalls    \* bound: calls of pause() and resume() together

ASSUME PumpConstants ==
  /\ Total \in Nat \ {0} /\ From \in 0..Total
  /\ ChunkBytes \in Nat \ {0}
  /\ High \in Nat /\ Low \in Nat /\ Low < High
  /\ MaxCalls \in Nat

VARIABLES
  pump,       \* the pump's control state
  hashed,     \* the chunks folded into the running SHA-256, in order
  sent,       \* the chunks handed to the channel, in order
  buffered,   \* bufferedAmount of the file channel
  open,       \* the channel still transmits
  calls,      \* pause() and resume() calls so far
  sincePause, \* chunks sent since the pump was last paused (history)
  sinceCancel \* chunks sent since cancel() (history)

vars == <<pump, hashed, sent, buffered, open, calls, sincePause, sinceCancel>>

Init ==
  /\ pump = NewPump(From)
  /\ hashed = <<>> /\ sent = <<>>
  /\ buffered = 0 /\ open = TRUE
  /\ calls = 0 /\ sincePause = 0 /\ sinceCancel = 0

\* hashAlreadySentRange reads the chunks before From and hashes them.
HashPrefix ==
  /\ pump.at = "hash"
  /\ pump' = AfterHash(pump)
  /\ hashed' = [j \in 1..From |-> j - 1]
  /\ UNCHANGED <<sent, buffered, open, calls, sincePause, sinceCancel>>

LoopTop ==
  /\ pump.at = "top"
  /\ pump' = AtTop(pump, Total)
  /\ UNCHANGED <<hashed, sent, buffered, open, calls, sincePause, sinceCancel>>

WaitForBuffer ==
  /\ pump.at = "resumed"
  /\ pump' = AtBuffer(pump, buffered >= High)
  /\ UNCHANGED <<hashed, sent, buffered, open, calls, sincePause, sinceCancel>>

\* The slice is read (and encrypted), hashed, and sent as meta and binary.
SendChunk ==
  /\ pump.at = "read"
  /\ pump' = AfterRead(pump)
  /\ hashed' = Append(hashed, pump.chunk)
  /\ sent' = Append(sent, pump.chunk)
  /\ buffered' = IF open THEN buffered + ChunkBytes ELSE buffered
  /\ sincePause' = IF pump.paused THEN sincePause + 1 ELSE 0
  /\ sinceCancel' = IF pump.cancelled THEN sinceCancel + 1 ELSE 0
  /\ UNCHANGED <<open, calls>>

\* The channel transmits some bytes.  The low event fires when the amount
\* falls from above the threshold to it or below.
Transmit ==
  /\ ~Runs(pump) /\ open
  /\ \E left \in 0..(High + ChunkBytes) :
       /\ left < buffered
       /\ buffered' = left
       /\ pump' = IF pump.at = "full" /\ buffered > Low /\ left <= Low
                  THEN AfterDrain(pump) ELSE pump
  /\ UNCHANGED <<hashed, sent, open, calls, sincePause, sinceCancel>>

Pause ==
  /\ ~Runs(pump) /\ ~Over(pump) /\ calls < MaxCalls
  /\ pump' = PausePump(pump)
  /\ calls' = calls + 1
  /\ sincePause' = IF pump.paused THEN sincePause ELSE 0
  /\ UNCHANGED <<hashed, sent, buffered, open, sinceCancel>>

Resume ==
  /\ ~Runs(pump) /\ ~Over(pump) /\ calls < MaxCalls
  /\ pump' = ResumePump(pump)
  /\ calls' = calls + 1
  /\ sincePause' = 0
  /\ UNCHANGED <<hashed, sent, buffered, open, sinceCancel>>

Cancel ==
  /\ ~Runs(pump) /\ ~Over(pump) /\ ~pump.cancelled
  /\ pump' = CancelPump(pump)
  /\ sincePause' = 0
  /\ UNCHANGED <<hashed, sent, buffered, open, calls, sinceCancel>>

\* The connection dies: what the channel still buffers is never transmitted,
\* and later sends are dropped.
ChannelDies ==
  /\ ~Runs(pump) /\ open
  /\ open' = FALSE
  /\ UNCHANGED <<pump, hashed, sent, buffered, calls, sincePause, sinceCancel>>

PumpStep == HashPrefix \/ LoopTop \/ WaitForBuffer \/ SendChunk

Next == PumpStep \/ Transmit \/ Pause \/ Resume \/ Cancel \/ ChannelDies

Spec == Init /\ [][Next]_vars

\* The file can be read, and a channel that is open transmits what it holds.
FairSpec == Spec /\ WF_vars(PumpStep) /\ WF_vars(Transmit)

-----------------------------------------------------------------------------
\* Every variable holds a value of its type; no index lies outside the file.
TypeOK ==
  /\ pump \in Pumps
  /\ hashed \in Seq(0..(Total - 1)) /\ sent \in Seq(0..(Total - 1))
  /\ buffered \in Nat /\ open \in BOOLEAN
  /\ calls \in 0..MaxCalls
  /\ sincePause \in Nat /\ sinceCancel \in Nat

\* A pause takes hold after one more chunk at most: the pump that was waiting
\* for the buffer or for the slice when pause() came (waitForBufferSpace and
\* arrayBuffer do not look at `paused` again) sends that chunk and no other.
PauseHolds == pump.paused => sincePause <= 1

\* A cancelled pump sends at most the chunk it was already reading.
CancelHolds == pump.cancelled => sinceCancel <= 1

\* Backpressure: the page never has more than the high watermark and one chunk
\* waiting in the channel, however fast the file is read.
BufferBounded == buffered < High + ChunkBytes

\* A completed run has hashed the whole file in order, the chunks of the
\* earlier connection included, and has sent every chunk from the resume point:
\* the checksum of FILE_COMPLETE is the digest of the file.
ChecksumCoversFile ==
  pump.at = "completed" =>
    /\ hashed = [j \in 1..Total |-> j - 1]
    /\ sent = [j \in 1..(Total - From) |-> From + j - 1]

\* While the channel is open and nobody keeps the pump paused, the wait for
\* the buffer always ends: the low event is never missed, and run() returns.
RunReturns == <>[](open /\ ~pump.paused) => <>Over(pump)
=============================================================================
