------------------------------- MODULE Storage -------------------------------
(***************************************************************************)
(* Where the receiving page puts what it receives: the two sinks of        *)
(* services/storage/fileWriter.ts, the chunks store of storage/db.ts, the  *)
(* directory and the downloads of the user, and the Clear Temporary Data   *)
(* button of the settings page, which another tab may press at any time.   *)
(*                                                                         *)
(* Every step of Transfer takes the storage calls of its handler with it.  *)
(* The digest is computed from what arrives, not from what is stored: the  *)
(* two can part, and that is what the properties are about.                *)
(***************************************************************************)
EXTENDS Transfer

CONSTANTS
  SinkKinds, \* disk (FileSystemChunkSink) where the user picks a directory, db
             \* (IndexedDbChunkSink) otherwise
  MaxClears  \* bound: presses of Clear Temporary Data

ASSUME StorageConstants == SinkKinds \subseteq {"disk", "db"} /\ MaxClears \in Nat

VARIABLES
  sink,     \* kind of each file's sink, none before
  written,  \* chunks that the file's sink holds: in its writable or in the chunks store
  saved,    \* chunks of what the user got at finalize(), {} before
  clears,   \* presses that are left
  swept,    \* history: chunks of each file that were cleared
  rejected  \* history: files whose finalize() was rejected

storageVars == <<sink, written, saved, clears, swept, rejected>>
allVars == <<vars, storageVars>>

AllChunks == 0..(NumChunks - 1)

StoredInit ==
  /\ Init
  /\ sink = [f \in Files |-> "none"]
  /\ written = [f \in Files |-> {}] /\ saved = [f \in Files |-> {}]
  /\ clears = MaxClears /\ swept = [f \in Files |-> {}] /\ rejected = {}
-----------------------------------------------------------------------------
\* createSinkFor, for the files whose receiver is made in this step: into the
\* directory, or into the database without a directory or when that fails.
CreateSinks ==
  \E kind \in SinkKinds :
    sink' = [f \in Files |-> IF ~Accepted(f) /\ Accepted(f)' THEN kind ELSE sink[f]]

\* Files that are finalized in this step: those it concludes, but for a rejected
\* finalize(), which is a fault of the world.
Finalized == IF left' = left THEN completed' \ completed ELSE {}

\* Slip: the records are deleted before they are read.
ContentAfterDelete(f) == IF sink[f] = "db" THEN {} ELSE written[f]
Content(f) == written[f]

\* write() of the chunk of this step, and finalize(): the writable is closed, or the
\* records are read into a blob and deleted.
Store ==
  /\ written' = [f \in Files |->
       IF f \in Finalized THEN {}
       ELSE written[f] \cup (Held(recv'[f]) \ Held(recv[f]))]
  /\ saved' = [f \in Files |-> IF f \in Finalized THEN Content(f) ELSE saved[f]]
  /\ rejected' = rejected \cup ((completed' \ completed) \ Finalized)

TransferStep == Next /\ CreateSinks /\ Store /\ UNCHANGED <<clears, swept>>

\* clearAllTemporaryData: every record of the chunks store; writables stay.
ClearTemporaryData ==
  LET stored == {f \in Files : sink[f] = "db"} IN
  /\ clears > 0 /\ clears' = clears - 1
  /\ written' = [f \in Files |-> IF f \in stored THEN {} ELSE written[f]]
  /\ swept' = [f \in Files |-> IF f \in stored THEN swept[f] \cup written[f] ELSE swept[f]]
  /\ UNCHANGED <<vars, sink, saved, rejected>>

StoredNext == TransferStep \/ ClearTemporaryData

StoredSpec == StoredInit /\ [][StoredNext]_allVars /\ Fairness
-----------------------------------------------------------------------------
\* What the page calls verified is what the user has, although the digest never sees the
\* sink: each chunk is in the download or in the file, unless the temporary data was
\* cleared between its write and the end.
VerifiedIsSaved ==
  \A f \in Files : rFile[f] = "COMPLETED" => saved[f] \cup swept[f] = AllChunks

\* Nothing of a concluded file stays in the database, whatever comes after it: late and
\* repeated chunks, pauses, losses, a second connection; unless its finalize() was rejected.
NothingLeft == \A f \in completed \ rejected : written[f] = {}
=============================================================================
