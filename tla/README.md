# FILE-SHARE-APP in TLA+

Two pages send files to each other over WebRTC; a small server introduces them.
This directory holds TLA+ modules that model the transfer and the server, TLC
configurations that check them on small instances, and TLAPS proofs of their safety
properties for every instance. `PROJECT.json` lists components, runs,
mutants, findings, hazards and theorems, and maps each definition to the source
lines it models.

    tlc -workers 2 -config Reconnect.cfg MCStorage
    tlapm Flow_proofs.tla

## The system

| part | source | state it keeps | operations |
|---|---|---|---|
| signaling server | `server/src/signaling/relay.ts`, `sessions/sessionManager.ts`, `server.ts` | sessions by id, id by pairing code, liveness of sockets | create, join, relay of OFFER/ANSWER/ICE, close event, heartbeat, sweep |
| rate limiter | `server/src/security/rateLimiter.ts` | timestamps per address | check, sweep |
| signaling client | `client/src/services/signaling/SignalingClient.ts` | socket, attempts, timer | connect, reconnect with backoff, send, close |
| peer connection | `client/src/services/webrtc/PeerConnectionManager.ts` | one RTCPeerConnection, two data channels, buffered candidates | offer, answer, sends, close |
| chunk pump | `client/src/services/transfer/chunkPump.ts` | index, paused, cancelled, running SHA-256 | run, pause, resume, cancel |
| storage and sinks | `client/src/services/storage/fileWriter.ts`, `storage/db.ts` | a writable or the records of a file, the download | write, finalize, Clear Temporary Data |
| transfer state machine | `.../stateMachine.ts` | none in the program: its class has no caller | the table of transitions |
| chunk receiver | `.../chunkReceiver.ts` | set of chunks, running SHA-256, digested | handleChunk, resumeFromChunk, digestHex |
| sender session | `.../SenderSession.ts` | peer, active pump and file, reconnect attempts, cancelled | handlers of both channels and of signaling, heartbeat, reconnect, pause, cancel |
| receiver session | `.../ReceiverSession.ts` | receivers, completed files, key, give-up timer, file queue | the same from the other side, approval, verification |
| pages and stores | `ReceiveScanPage.tsx`, `SendPage.tsx`, `TransferDashboard.tsx`, `useTransferStore.ts` | transferState, status of each file, dialog | the users' clicks; the page destroys the receiver's session on an error |

The pages talk over three media. Signaling messages go through the server and
are lost with a socket. The control channel carries SESSION_INIT, FILE_OFFER,
FILE_ACCEPT, FILE_REJECT and CANCEL; the file channel carries chunks,
FILE_COMPLETE and TRANSFER_COMPLETE. The two channels are ordered each in itself
and not between them. The receiver chains file frames on a promise queue that
outlives the connection.

What is hard here: every `await` of a session is a place where a loss, a pause, a
cancel or another message comes in; an accept loop of the sender is never
stopped, so after a reconnect two of them run; a retry is planned by three
sources (state event, failed negotiation, overdue pong); answers of an older
handshake meet a newer peer connection; a socket that closes takes its session
along; the last frames are only in a buffer when the sender calls it a day.

What makes each part correct: a pump sends exactly the chunks from its start,
hashes the whole file, obeys pause and cancel within a chunk and never overfills
the channel; a receiver never loses a chunk, never touches a closed digest and
calls intact only what is whole; a resume skips nothing; CANCELLED is final; an
interrupted page gets somewhere; the session store's two maps
agree and never hold a dead socket, and nobody displaces a receiver; the limiter allows exactly what a sliding
window allows; what is called verified is what was saved; a dead connection is
noticed, an interruption and a wait end, each within a time that the timers give.

## Modules

| module | models |
|---|---|
| `ChunkPump` | the pump's control state as operators: where `run()` is suspended and what each call and event does to it |
| `PumpFlow` | one pump against one channel with `bufferedAmount` |
| `ChunkReceiver` | the receiver's chunks and hash as operators; a digest is represented by the sequence that was hashed |
| `PeerLink` | the variables that both sessions share: signaling messages on their way, the open connection, the two channels, the frames that wait |
| `SenderSession`, `ReceiverSession` | one action per handler, timer, user's click or continuation; both extend `PeerLink` |
| `Transfer` | both sessions interleaved, with the network, the server and the users |
| `Storage` | the two kinds of sink, the chunks store, downloads and Clear Temporary Data, each step of `Transfer` with the storage calls of its handler |
| `TransferStateMachine` | the table of `transferState`, with which the sending page's writes are compared |
| `Reconnection` | the clocks of a lost connection: heartbeats, pong timeouts, grace, attempts, the receiver's give-up timer; time passes in ticks |
| `Delivery` | what the receiving page promises, abstractly; `Transfer` is checked to implement it |
| `SignalingServer` | relay, session store, heartbeat and sweep |
| `SignalingClient` | the client's state as operators: attempts, timer, `manuallyClosed`, socket |
| `Pairing` | both pages up to the pairing, their clients, the sockets between, and `SignalingServer` by INSTANCE over shared variables |
| `RateLimiter` | the sliding window |
| `PumpFlow_proofs`, `SignalingServer_proofs`, `RateLimiter_proofs`, `Reconnection_proofs`, `Pairing_proofs` | the proofs about the module of the name |
| `Transfer_proofs`, `Delivery_proofs`, `Flow_proofs` | the proofs about `Transfer` and `Storage`, each extending the one before: types and CANCELLED; what the receiving page holds over any number of connections; what is saved, and a transfer over one connection |
| `MC*` | the modules that TLC runs |

Operators whose comment begins with "Slip" are plausible mistakes in the operator
next to them. No specification uses them; `PROJECT.json` pairs each with the
property that finds it.

### How state and steps correspond to the code

* **Steps.** JavaScript runs a handler until it awaits something that is not there
  yet; that stretch is one action. A continuation that is ready runs as a microtask
  before the page's next event: `Busy`/`Quiet` in `SenderSession`, `Runs` in
  `ChunkPump`. On the server a handler is synchronous and therefore one action.
* **Accept loops.** Each FILE_ACCEPT starts a `handleAccept`, and nothing ends the
  earlier ones: `loops` holds one record per run, with its pump. `activePump` says
  which loop's pump `this.activePump` is, 0 for null; `PumpReturns` nulls it
  whoever holds it, as `sendFile` does.
* **Connections.** Each peer connection of the sender has a number, which its OFFER
  and ANSWER carry; `sPeer`, `sDesc`, `rPeer`, `opened` and `up` say which one each
  side holds and which one transmits. The first answer to arrive is applied to
  whatever `this.peer` is by then.
* **Frames.** CHUNK_META and its binary frame are sent in one go and are one CHUNK.
  `frames` is the file channel and the receiver's promise queue; the first `kept`
  of them were delivered over earlier connections and survive a cut. A cut keeps
  any prefix of what was on its way.
* **Hashes.** A digest is the sequence of chunks hashed (and whether they were
  decrypted), so two digests are equal exactly when `WholeFile` says so.
* **Heartbeat.** In `Transfer` PING and PONG are no messages: a loss may be noticed
  (`LossNoticed`) while the connection is down, again and again, because
  `startHeartbeat` goes on over a dead channel; `SenderBlip` and `NegotiationStalls`
  are a late pong on a connection that works or has not opened; a negotiation that the
  receiver has answered may fail for its peer as well.
* **Time.** In `Reconnection` each timer is what is left of it, in ticks. A timer that
  is due fires before the next tick, in any order with the others that are due.
  `heartbeats` has one entry for each `startHeartbeat`, for no interval is ever
  cleared; `pongTimers` has one for each ping, of which `this.pongTimeout` (`held`)
  is the last, the only one that a PONG clears. The receiver's field and its timer
  are two variables, because the code tests the one and is called by the other. The
  end of a connection that the sender replaced is seen by the receiver when it likes
  (`ends`), also when a later one is open.
* **Storage.** `StoredNext` is `Next` with what the handler of that step does to the
  sinks: a chunk that the receiver newly holds was written, a file that is concluded
  (its digest compared, COMPLETED or FAILED) was finalized, unless that step is the
  rejected `finalize()` of `FinalizeFails`: then nothing is saved or deleted, and the
  file is in the history variable `rejected`. Which kind of sink a file has is chosen when its
  receiver is made. `ClearTemporaryData` may come between any two steps, for another
  tab may press it.
* **Leaving.** `leaves` among the upsets lets either user leave the page in a
  transfer. The sender's `destroy()` closes peer and socket and sets no `cancelled`,
  so its loops read on; `sLeft` says so.
* **The receiving page** destroys the session on any error message once it has
  joined (`ReceiveScanPage.tsx:38`; `joining` is never set back), so the give-up
  timer, ERROR and RATE_LIMITED all end in `Destroy`.
* **Server.** A socket dies in two steps, as in `ws`: in `closing`, sends to it are
  dropped; the close event runs `handleDisconnect`. `nr` stands for the session's
  token and its place in the map's insertion order. `out` is what the last step
  sent. `Refuse` lets SESSION_EXPIRED be answered only in the last moment of a
  session, because `getById` has destroyed any that expired before.
* **Sockets of the pages.** Each WebSocket has two ends that learn of its end apart:
  `end` is the browser's (`dead` until its close event ran), `readyState` the
  server's. `asked` is a request on its way, `mail` what is on its way back; what the
  server's handlers put in `out` becomes mail. `starting` is the await of `start()`
  before it connects: `connect()` sets `manuallyClosed` back even if the page
  destroyed the session in between, and the model does the same.
* **Rate limiter.** A key's array of timestamps is a set of hits, a time and a number
  that tells hits of one time apart; its length is the cardinality.

## Runs

All runs end with the whole state space explored. Bounds are constants of the
`.cfg` files; the numbers are distinct states.

| run | instance | shows |
|---|---|---|
| PumpFlow | five chunks, resumed at the second, buffer of two to three chunks, four pause/resume calls (2 306) | pause and cancel take hold within a chunk, the buffer is bounded, the checksum covers the resumed file, `run()` returns while the channel is open and nobody keeps it paused |
| Flow | two files of three chunks, encryption, one connection, two pauses, a buffer of one frame, one rejected step, one press of Clear Temporary Data, both kinds of sink (167 122) | hashed in order, COMPLETED means verified, verified means saved, what was accepted is delivered, the sending page follows the table of states |
| Reconnect | two files of two chunks in the database, one loss anywhere, real or only reported by one side, two connections (3 092 385) | a resume point is never beyond what is held; the new loop leaves no gap; no record of a file stays once `finalize()` has concluded it; the receiving page implements `Delivery` |
| Settle | one chunk, one loss, negotiations that stall, and one upset of any kind: a signaling event, a rejected step, a cancel or a user who leaves (1 289 602) | INTERRUPTED is left in the end; CANCELLED is final and nothing more is sent; the receiving page implements `Delivery` |
| Reconnection | ticks of four seconds and the code's own timers in them (8 s, 20 s, 3 s, 30 s), two attempts, three connections, two outages of any length (8 239 358) | a silent loss is noticed within an interval and a timeout; INTERRUPTED and the receiver's wait end in time; the heartbeat of a first connection raises no false alarm |
| ServerStore | three pages, two ids, two codes, three sessions, symmetry (482 941) | the store stays consistent, a receiver keeps its place until it leaves, partners are told of each coming and going |
| RateLimiter | a window of three ticks, two hits, seven ticks, bursts of three (109 k) | exactly the sliding window |
| Pairing | one session object on each page, three sockets, one that times out, is refused or lost, one session that expires at once, the server's two intervals (349 938) | the pages keep what `SignalingServer` assumes of its clients (it is checked to be implemented), no client has two sockets or a socket and a planned reconnect, none comes back after `close()`, no page waits for ever while no open socket is lost, and vanished pages and expired sessions are cleaned up |
| HashOrder, Undelivered, Blip, Terminal | | counterexamples, see Findings |

Why these bounds are enough for the questions: a chunk can be held, on its way,
lost or not sent, and two chunks of each of two files already give a hole, a resume
point inside a file, at its end and between files; two connections give an old and a
new loop, and a third connection adds no kind of loop. Two codes and two ids let a
code be drawn again while another session lives, and with three sessions after
another one was destroyed. A window of three ticks has an inside and both edges,
and the clock passes it twice. Two outages and three connections let the connection
that an attempt opened be lost again while the heartbeats, the pong timeouts and the
end of the first are still around; the proofs carry the bounds to any number. One address stands for all, because keys share
nothing. In Pairing one failure reaches each way an attempt can end, and each order
of the two ends' events; the limit of attempts takes a second failure and is not
reached, nor is a second session object on a page (Try Again), with which the state
space is out of reach.

`OneAnswer` is an assumption of the runs with a second connection: the user does not
accept a second dialog for files accepted before (a second dialog comes up when a
reconnect falls into the creation of the sinks). Accepting it replaces the
ChunkReceivers, and progress starts again from zero. `NoGap` speaks of files whose
receiver was there when the accept was sent, for the same reason.

`InterruptedSettles` asks only while no connection is up and the user has not left the
page. A reported loss that was
none (a late pong) with a closed signaling socket leaves the page INTERRUPTED over a
connection that works: `attemptReconnect` returns at once, and the comment there
("we react to its 'open'", `SenderSession.ts:397`) has no code behind it.

`Reconnection` relates the timers to each other; the other models are untimed. Two
things it reaches are hazards that no property excludes. The receiver's thirty seconds
are meant to cover the sender's budget (`ReceiverSession.ts:194`) and do not: five
attempts of three seconds and the pong timeouts in between take longer. And after a
reconnect the timeouts that no PONG clears report losses of a connection that works;
that is why `NoFalseAlarm` speaks of the first connection, and of pings that are
answered before the next one. `InterruptionEnds` allows one round (interval, timeout,
grace) for each attempt and one more for the PEER_LEFT of a receiver that gave up,
which makes even a FAILED page INTERRUPTED; that page settles too.

### Fairness

`Transfer`: one weak fairness over everything that happens by itself: events that are
there are dispatched, reads end, timers fire, the heartbeat reports a dead
connection, matching descriptions connect, a closed signaling socket is opened
again, a negotiation that leads nowhere fails, and a user who paused resumes (Flow
needs it, for a paused transfer is not delivered). As long as one of them can
happen, one of them does; nothing is said of which. Nothing is assumed of dialogs,
cancels, losses or faults. The event loop and the timers of the code justify all
but the connecting and the reopening, which are assumptions about the network:
`SignalingClient` gives up after six attempts. `StoredSpec` has the same fairness: a
step of `Transfer` is never held up by its storage calls. `PumpFlow`: a file can be
read and an open channel transmits. `Pairing`: events, timers and the server's steps,
its sweep and its heartbeat with them, come in the end; users and failures need not,
and the clock may stop. `Reconnection` has no fairness: its bounds on time are safety
properties, which a clock that stops satisfies and one that goes on may not break.

## Findings

* **HashOrder.** After a reconnect a chunk of the old accept loop goes over the new
  connection and is hashed before the chunks that were asked for: the file ends as
  "Integrity verification failed" with every byte in place. The comment in
  `chunkReceiver.ts:44` says that the order is always right.
* **Undelivered.** The sender shows COMPLETED once the last frame is buffered; a loss
  after that is ignored and the receiver is left interrupted.
* **Blip.** A page that shows its code and loses its socket opens another one, over
  which nothing is sent: the server has destroyed the session, and the code on the
  page leads nowhere. `SignalingClient.ts:13` says that a blip does not abort a
  pairing session.
* **Terminal.** The receiver rejects, the sending page is CANCELLED, the receiver
  leaves, and PEER_LEFT makes the state INTERRUPTED and plans a reconnect of a transfer
  that is over. In this case the page shows nothing of it (`SendPage.tsx:32` opens the
  dashboard at TRANSFERRING or COMPLETED only); the same step after COMPLETED makes the
  dashboard say that it reconnects. `stateMachine.test.ts:36` says that a terminal state
  is not left, but the state machine guards nothing: the sessions write the store directly.

One more disagreement of code and texts has no counterexample run. The close event of a
receiver sets `consumed` back (`relay.ts:217`), so that until the session expires its
code and token admit another socket, whoever it belongs to. `sessionManager.ts:22` says
"Single-use: once a receiver has joined, the token/pairing code can't be reused by a third
party", `SECURITY.md:31-34` that codes and tokens are "invalidated once a receiver joins",
`README.md:292` "single-use sessions". `SignalingServer` follows the code (`Release`), and
ServerStore reaches the second join: a session is created, joined, left and joined again
by another socket. No property asserts or excludes this; what code and texts agree on,
that nobody takes the place of a receiver that is there, is `ReceiverKept`.

`PROJECT.json` quotes the lines. Its hazards name more places where the model
reaches a state that is awkward but that no text of the repository excludes.

## Proofs

Every invariant, action property and refinement that a passing run checks is a theorem,
for all values of the constants, the bounds of the runs among them. Assumptions are the
named ASSUMEs of the modules (`LinkConstants`, `SenderConstants`, `WorldConstants`,
`StorageConstants`, `PumpConstants`, `ServerConstants`, `PairingConstants`,
`NoSessionIsNone`, `LimiterConstants`, `ClockConstants`): there is a file and a chunk,
bounds and timeouts are numbers, and a null is none of the values. The runs evaluate
them. Some theorems about a transfer have one hypothesis more, which the run of the
property has too:

| hypothesis | of | why |
|---|---|---|
| `OneAnswer` | `PromiseKept`, `ResumePointIsHeld`, `NoGapHolds`, `VerifiedFilesAreSaved`, `ConcludedLeavesNothing` | see Runs: a second answer replaces the ChunkReceivers |
| `MaxConns = 1` | `HashedInOrderHolds`, `CompletedIsVerified`, `TableIsFollowed` | with a second connection they are false: HashOrder shows the first, an old loop that sends TRANSFER_COMPLETE over the new connection breaks the second, INTERRUPTED the third. `OneAnswer` is not needed, for there is one offer only |
| `"sender-blip" \notin Losses` | `CompletedIsVerified` | false without it: pongs that are late once too often make the sender give up over a connection that works; the cancelled pump ends its file without FILE_COMPLETE, but the loop goes on to TRANSFER_COMPLETE |
| `Reliable` (no loss, no stalled negotiation, no upset but a rejected step) | `TableIsFollowed` | the table has no transition for what Terminal finds |

* **PumpFlow** (`PumpFlow_proofs`): for every file length, resume point, chunk size
  and watermarks. The inductive invariant says, for each place where `run()` can be
  suspended, what has been hashed and sent (a stretch of consecutive indices up to
  the loop's index), that the buffer is below the high watermark wherever a send is
  about to happen, and how many chunks left since a pause or cancel, which depends on
  the place: none at the loop head, one at most after a read that was under way.
  From it: `TypeCorrect`, `PauseTakesHold`, `CancelTakesHold`, `Backpressure`,
  `ChecksumIsOfFile`.
* **SignalingServer** (`SignalingServer_proofs`): for any number of sockets, ids, codes
  and timeouts. `CodesIndexed` and `NoGhost` are not inductive
  alone: `handleDisconnect` treats one session only, so that no ghost is left needs
  `Exclusive`, that a socket is in one session at most, which the clients' behaviour
  (`Unpaired`) gives. Lemmas say what `Destroy`, a new session and a change of the
  receiver do to the store; there is one lemma for each handler. `PartnerIsTold` uses
  the same invariant: no other step closes a socket, and the session that
  `handleDisconnect` finds is the one the two are in. `ReceiverIsKept` adds
  `JoinedIsClosed`, that a session with a receiver is `consumed`: so a join finds the
  place free, and the only other step that touches a receiver is its close event.
* **RateLimiter** (`RateLimiter_proofs`): `Remembered` says that a hit which the window
  covers is in the record, none is of a time to come, and only hits that were are
  allowed. With it what check() looks at is the window (`ForgettingIsInvisible`).
  `WindowIsBounded`: a new hit is in windows that end now or later only, and the one
  that ends now was counted with the refused hits in it, so at least as full as the
  allowed ones make it. `RefusesOnlyWhenFull` is the converse. The counting lemmas are
  those of finite sets.
* **Reconnection** (`Reconnection_proofs`): for all lengths of the five timers, any
  budget of attempts and any number of connections and outages. None of the bounds is
  inductive alone, for a bound on how long something has lasted says nothing of what
  will end it. The inductive invariant names that: `Ordered` (a later timer of a kind
  does not fire first, and each connection has its heartbeat), `Watched` (a
  connection that carries nothing has a ping ahead, or a timeout running that no PONG
  will clear), `Bounded` (a page that waits has its timer running, armed no later than
  the wait began), `Matched` (over the first connection the one timeout that may run
  is the one that the PONG on its way clears), `Settling` (an INTERRUPTED page has an
  attempt planned, or a connection on which the heartbeat will fail, within the rounds
  that its attempts so far allow). There is a lemma for each part and one for each
  operation on the sequences of timers. From it: `TypeCorrect`, `LossNoticedInTime`,
  `WaitingIsBounded`, `NoFalseAlarms`, `InterruptionIsBounded`. The proof shows that
  the bounds need nothing of the numbers: that the grace is shorter than a timeout, or
  the timeout longer than an interval, plays no part.
* **Transfer** (`Transfer_proofs`): for every number of files, chunks, connections,
  losses, upsets and pauses. `TypeOK` is not inductive: a chunk index stays inside the
  file only if a pump that will read has one to read, a loop that runs a pump has a file,
  a run of `respondToOffer` has a sink to create, and every message on its way carries
  what its handler expects. `Types` says so; there is one lemma for each group of
  actions. `CancelledForGood` needs of a cancelled page that nothing can reach it any
  more (`Silenced`): peer and socket closed, the session destroyed, both queues to it
  empty. The loops it leaves behind post to a closed peer.
* **Delivery** (`Delivery_proofs`): the receiving page over any number of connections, in
  three layers. `Answering`: no two answers wait for one file and none for a file with
  a receiver, so a receiver is created once, then grows, and is concluded once. That is
  the refinement of `Delivery` (`PromiseKept`). `HeldPoints`: what a FILE_ACCEPT, or the
  loop that it started, takes as held was held when it was sent, and so still is
  (`ResumePointIsHeld`). `LinkOrder`: the open connection is the sender's present peer and
  the last that opened. A loop of that connection therefore posts to it, and a chunk it
  has gone past is held or in the queue (`NoGapHolds`), whatever older loops and kept
  frames do: they only add.
* **Storage** (in `Flow_proofs`): every step of `StoredSpec` is one of `Spec` or a stutter,
  so the theorems above hold with storage. `SinkFollows`: until a file is concluded its
  sink holds what its receiver hashed, but for what Clear Temporary Data took. The
  verdict on the digest is then right about the file (`VerifiedFilesAreSaved`); and as a
  digested receiver hands on no chunk, nothing is written after `finalize()`
  (`ConcludedLeavesNothing`).
* **One connection** (in `Flow_proofs`): `Turn` is the order of the one exchange. While the
  offer is on its way there is no dialog, while there is a dialog no answer, while there is
  an answer no FILE_ACCEPT, and no loop until that was handled, and then one. Hence
  no file is answered twice. On it rest, in this order:
  `Orderly`, the loop is past every chunk that is queued or hashed, and both ascend;
  `NoneMissing`, undisturbed the queue continues what is hashed and the loop continues
  the queue (with `Orderly`: `HashedInOrderHolds`);
  `PumpsGo` and `Announced`, a file that a loop has left has its FILE_COMPLETE behind its
  chunks, and TRANSFER_COMPLETE is behind all of these; `Verified`, a file concluded
  undisturbed had its whole digest (`CompletedIsVerified`);
  `Calm`, under `Reliable` neither page leaves, and no message tells of a loss; `Shown`,
  what the page shows follows from the stage of the exchange (`TableIsFollowed`).
* **Pairing** (`Pairing_proofs`): for any number of session objects, sockets, failures and
  timeouts. `OneSocket` is not inductive: a socket whose close event is still to come
  will plan a reconnect, so `Sound` counts it with those that live. An object whose
  `start()` awaits its keys has had no socket, which is why `ClosedForGood` excepts it.
  `ServerIsUsedAsAssumed` needs what `SignalingServer` assumes of clients: no socket is in
  two sessions (`Alone`), and one that asks is in none (`Untried`), because a page
  asks once for each socket, as soon as it opens.

Model-checked only is what is out of this prover's reach, liveness under fairness:
`RunReturns`, `AcceptedIsDelivered`, `InterruptedSettles`, `RequestAnswered`,
`SilentPeerLeaves`, `ExpiredIsRemoved`; and the four counterexamples.

## Not modelled

* ICE candidates and their buffering in `PeerConnectionManager`: they decide whether
  descriptions that match connect, and `NegotiationStalls` leaves that open.
* The receiver's second join after a reload: README.md:324 of the repository says that
  a transfer does not survive one. A second session object on a page, in `Pairing`.
* Who is behind a socket: a second receiver of a session (see Findings) may be anybody,
  also the first one with a new socket, for the server does not tell them apart.
* The length of `SignalingClient`'s backoff, and its limit of attempts in `Pairing`.
* `abort()` of the sinks and `checkpointRepository`, which have no caller in `src/`;
  two files of one name in one directory; the history store.
* Payload validation, encryption and hashing as algorithms; QR payloads, formatting,
  settings, progress figures and views; the origin check and the logger.

## Plan

1. Proofs over several connections: which of the properties of one connection are left
   when the second loop is told apart (`HashedInOrder` for the chunks of the loop of the
   open connection); `FollowsTable` with losses, up to the transitions of Terminal.
2. A receiver that joins again (second PEER_JOINED) in `Transfer`, and two session
   objects on a page in `Pairing`, each with fewer interleavings elsewhere.
3. `PeerConnectionManager`: candidates before and after the remote description, those
   of an older handshake, and the order of `setRemoteDescription`'s flush.
