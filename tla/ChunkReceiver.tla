---------------------------- MODULE ChunkReceiver ----------------------------
(***************************************************************************)
(* One ChunkReceiver (client/src/services/transfer/chunkReceiver.ts): the  *)
(* chunks received so far and the running SHA-256 of one file.  Constant-  *)
(* level operators; ReceiverSession keeps one record per accepted file.    *)
(*                                                                         *)
(* The digest is represented by what was hashed, in order.  receivedChunks *)
(* and the hasher are updated by the same two lines after the write, so    *)
(* the set of received chunks is the range of that sequence.               *)
(***************************************************************************)
EXTENDS Naturals, Sequences, FiniteSetsExt, SequencesExt

\* keyed: the EncryptionSession was there when the receiver was constructed.
NewReceiver(key) == [keyed |-> key, hashed |-> <<>>, digested |-> FALSE]

Held(r) == ToSet(r.hashed)

\* Slip: a chunk after the digest is still hashed.
HandleChunkLate(r, c) ==
  IF c \in Held(r) THEN r ELSE [r EXCEPT !.hashed = Append(@, c)]

\* handleChunk with its write done.  A chunk after the digest and a chunk that
\* was already received change nothing.
HandleChunk(r, c) ==
  IF r.digested \/ c \in Held(r) THEN r ELSE [r EXCEPT !.hashed = Append(@, c)]

\* Slip: the number of chunks received, as if there were no hole.
ResumeFromCount(r) == Len(r.hashed)

\* The first chunk that is not there yet.
ResumeFromChunk(r) == Max({n \in 0..Len(r.hashed) : 0..(n - 1) \subseteq Held(r)})

DigestHex(r) == [r EXCEPT !.digested = TRUE]

\* The digest of the chunks 0..total-1 in order, each decrypted (or sent plain).
WholeFile(r, total, encrypted) ==
  /\ r.hashed = [j \in 1..total |-> j - 1]
  /\ encrypted => r.keyed
=============================================================================
