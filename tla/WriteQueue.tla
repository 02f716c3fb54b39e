----------------------------- MODULE WriteQueue -----------------------------
(***************************************************************************)
(* The append-only log writer of the V2 log                                *)
(* (src/packages/app/server/lib/async-write-queue.js).                     *)
(*                                                                         *)
(* Entries are queued and appended to their files by an asynchronous drain *)
(* that takes the whole queue as one batch, groups it by file, and writes  *)
(* each group in chunks.  Bytes are numbered in the order their entries    *)
(* were accepted, so a set of bytes stands for the text they make up in    *)
(* that order: the queue, the batch and the files are sets of bytes.       *)
(*                                                                         *)
(* One event loop: an action is a call, a microtask or the continuation of *)
(* a finished append.  Microtasks run before the next I/O completion.      *)
(***************************************************************************)
EXTENDS Integers, FiniteSets

CONSTANTS
  Paths,        \* the files appended to
  Sizes,        \* lengths an entry may have
  ChunkBytes,   \* WRITE_CHUNK_BYTES: the most one append writes
  HighWater,    \* highWaterMark of the backlog
  MaxBytes      \* bound: bytes accepted in one behaviour

ASSUME QueueAssumption ==
  /\ Paths # {}
  /\ Sizes \subseteq Nat \ {0}
  /\ ChunkBytes \in Nat \ {0} /\ HighWater \in Nat \ {0}
  /\ MaxBytes \in Nat

Bytes == 1..MaxBytes

VARIABLES
  syncMode,     \* _syncMode, an option of the constructor
  accepted,     \* how many bytes appendTo() took
  path,         \* the file of every accepted byte
  entry,        \* the first byte of the entry of every accepted byte
  queue,        \* _queue: bytes not in a batch yet
  pendingBytes, \* _pendingBytes
  phase,        \* _draining: "idle", or "scheduled" (its microtask is due), or "draining"
  drained,      \* _drainPromise is set: a drain has started before
  taken,        \* the bytes of the batch being written
  left,         \* those of them no append has dealt with
  current,      \* the file whose group is being written
  disk,         \* bytes in their files
  lost,         \* bytes an append failed to write
  reported,     \* bytes of the entries whose onDone ran
  waiting,      \* _flushResolvers: what was accepted at the last flush() in it, 0 if empty
  flushed,      \* history: what was accepted at the last flush() that has resolved
  listening,    \* _idleCbs is not empty
  closing       \* close(): "open", "running" or "settled" (which drain it awaits), "closed"

input == <<syncMode, accepted, path, entry>>
batch == <<taken, left, current>>
files == <<disk, lost>>
vars == <<input, queue, pendingBytes, phase, drained, batch, files, reported,
          waiting, flushed, listening, closing>>

-----------------------------------------------------------------------------
(* Bytes *)

First(S) == CHOOSE b \in S : \A c \in S : b <= c
Group(S, p) == {b \in S : path[b] = p}

\* The start of a text, which is all that a failed append may have written.
Starts(S) == {w \in SUBSET S : \A b \in w, c \in S : c < b => c \in w}

\* What appendFileSync calls for each entry of S may have written between them.
EntryStarts(S) ==
  {w \in SUBSET S : \A b \in w, c \in S : entry[c] = entry[b] /\ c < b => c \in w}

Complete(S, w) == {b \in S : \A c \in S : entry[c] = entry[b] => c \in w}

\* The next slice of the group's buffer.
Chunk(S) == {b \in S : Cardinality({c \in S : c < b}) < ChunkBytes}

-----------------------------------------------------------------------------
(* Drains *)

ScheduleDrain == phase' = IF phase = "idle" THEN "scheduled" ELSE phase

\* Every waiting flush() resolves.
FlushersResolve ==
  /\ waiting' = 0
  /\ flushed' = IF waiting = 0 THEN flushed ELSE waiting

\* Mutant: flushes resolve at the end of every batch.
TakeBatchResolves ==
  /\ taken' = queue /\ left' = queue /\ queue' = {}
  /\ current' = path[First(queue)]
  /\ phase' = "draining"
  /\ FlushersResolve
  /\ UNCHANGED listening

\* Everything queued becomes the batch; its files are written in the order of
\* their first entries.
TakeBatch ==
  /\ taken' = queue /\ left' = queue /\ queue' = {}
  /\ current' = path[First(queue)]
  /\ phase' = "draining"
  /\ UNCHANGED <<waiting, flushed, listening>>

\* Mutant: the idle listeners run only when a flush was waiting.
ListenersNeedFlush ==
  /\ taken' = {} /\ left' = {}
  /\ phase' = "idle"
  /\ FlushersResolve
  /\ listening' = (listening /\ waiting = 0)
  /\ UNCHANGED <<queue, current>>

\* Every flush resolves and the idle listeners run.
DrainEnds ==
  /\ taken' = {} /\ left' = {}
  /\ phase' = "idle"
  /\ FlushersResolve
  /\ listening' = FALSE
  /\ UNCHANGED <<queue, current>>

\* Mutant: what was queued during the batch is not looked at.
OneBatchPerDrain ==
  \/ phase = "scheduled" /\ queue # {} /\ TakeBatch
  \/ (phase = "draining" \/ queue = {}) /\ DrainEnds

\* The top of the drain loop.
NextBatch ==
  \/ queue # {} /\ TakeBatch
  \/ queue = {} /\ DrainEnds

\* The microtask of _scheduleDrain.
StartDrain ==
  /\ phase = "scheduled"
  /\ drained' = TRUE
  /\ NextBatch
  /\ UNCHANGED <<input, pendingBytes, files, reported, closing>>

\* Mutant: what was queued during the batch is credited too.
CreditsQueued == pendingBytes - Cardinality(taken) - Cardinality(queue)

\* Mutant: only the last group of the batch is credited.
CreditsLastGroup ==
  IF pendingBytes > Cardinality(left) THEN pendingBytes - Cardinality(left) ELSE 0

\* _pendingBytes after a batch: a synchronous drain may have reset it meanwhile.
Credited ==
  IF pendingBytes > Cardinality(taken) THEN pendingBytes - Cardinality(taken) ELSE 0

\* Mutant: the callbacks of the whole batch run after its first group.
WholeBatch == taken

\* The entries whose callbacks run when the current group is over.
Finished == Group(taken, current)

\* The append in flight is over and left w on disk.  A failed append ends its
\* group; the callbacks of a group run whether or not it was written.
ChunkWritten(w) ==
  LET group == Group(left, current)
      dealt == IF w = Chunk(group) THEN w ELSE group
  IN  /\ phase = "draining" /\ closing # "settled"
      /\ w \in Starts(Chunk(group))
      /\ disk' = disk \cup w
      /\ lost' = lost \cup (dealt \ w)
      /\ UNCHANGED <<input, drained, closing>>
      /\ \/ /\ dealt # group
            /\ left' = left \ dealt
            /\ UNCHANGED <<queue, pendingBytes, phase, taken, current, reported,
                           waiting, flushed, listening>>
         \/ /\ dealt = group /\ left # group
            /\ left' = left \ dealt
            /\ current' = path[First(left \ dealt)]
            /\ reported' = reported \cup Finished
            /\ UNCHANGED <<queue, pendingBytes, phase, taken, waiting, flushed, listening>>
         \/ /\ dealt = group /\ left = group
            /\ reported' = reported \cup Finished
            /\ pendingBytes' = Credited
            /\ NextBatch

-----------------------------------------------------------------------------
(* Calls *)

\* Mutant: backlog alone decides, a running drain is not looked at.
DegradesWhileDraining(n) == syncMode \/ (pendingBytes + n >= HighWater /\ n < HighWater)

\* An entry is written synchronously in sync mode, and when the backlog is over
\* its mark with no drain running.
Degrades(n) ==
  syncMode \/ (pendingBytes + n >= HighWater /\ n < HighWater /\ phase = "idle")

\* appendTo() with n bytes for file p.  After close() it does nothing.
Append(p, n) ==
  LET new == accepted + 1..accepted + n
  IN  /\ closing = "open"
      /\ accepted + n <= MaxBytes
      /\ accepted' = accepted + n
      /\ path' = [b \in Bytes |-> IF b \in new THEN p ELSE path[b]]
      /\ entry' = [b \in Bytes |-> IF b \in new THEN accepted + 1 ELSE entry[b]]
      /\ UNCHANGED <<syncMode, drained, batch, waiting, flushed, listening, closing>>
      /\ \/ /\ Degrades(n)
            /\ \E w \in Starts(new) :
                 disk' = disk \cup w /\ lost' = lost \cup (new \ w)
            /\ reported' = reported \cup new
            /\ UNCHANGED <<queue, pendingBytes, phase>>
         \/ /\ ~Degrades(n)
            /\ queue' = queue \cup new
            /\ pendingBytes' = pendingBytes + n
            /\ ScheduleDrain
            /\ UNCHANGED <<files, reported>>

\* flush(): with nothing to do it resolves at once.
Flush ==
  /\ queue # {} \/ phase # "idle"
  /\ waiting' = accepted
  /\ ScheduleDrain
  /\ UNCHANGED <<input, queue, pendingBytes, drained, batch, files, reported,
                 flushed, listening, closing>>

\* onIdle(): the listener is called at once when nothing is queued or running.
OnIdle ==
  /\ queue # {} \/ phase # "idle"
  /\ listening' = TRUE
  /\ UNCHANGED <<input, queue, pendingBytes, phase, drained, batch, files,
                 reported, waiting, flushed, closing>>

\* Mutant: what is still queued is forgotten.
SyncDrainForgets ==
  /\ queue' = {} /\ pendingBytes' = 0
  /\ FlushersResolve
  /\ UNCHANGED <<files, reported>>

\* _drainSync(): the queue is written in place, entry by entry; the onDone of an
\* entry that cannot be written does not run.
SyncDrain ==
  /\ \E w \in EntryStarts(queue) :
       /\ disk' = disk \cup w
       /\ lost' = lost \cup (queue \ w)
       /\ reported' = reported \cup Complete(queue, w)
  /\ queue' = {} /\ pendingBytes' = 0
  /\ FlushersResolve

\* close(): it awaits the promise of the last drain that has started, if any.
Close ==
  /\ closing = "open"
  /\ UNCHANGED <<input, phase, drained, batch, listening>>
  /\ \/ /\ drained
        /\ closing' = IF phase = "draining" THEN "running" ELSE "settled"
        /\ UNCHANGED <<queue, pendingBytes, files, reported, waiting, flushed>>
     \/ /\ ~drained
        /\ closing' = "closed"
        /\ SyncDrain

\* Mutant: close() goes on before the drain it awaits is over.
CloseDoesNotWait == closing \in {"running", "settled"}

\* The awaited drain is over; one that had ended before close() was called is
\* over after the microtasks that were already due, the start of a drain included.
CloseMayGoOn ==
  \/ closing = "running" /\ phase = "idle"
  \/ closing = "settled" /\ phase # "scheduled"

CloseContinues ==
  /\ CloseMayGoOn
  /\ closing' = "closed"
  /\ SyncDrain
  /\ UNCHANGED <<input, phase, drained, batch, listening>>

AnyPath == CHOOSE p \in Paths : TRUE

Init ==
  /\ syncMode \in BOOLEAN
  /\ accepted = 0
  /\ path = [b \in Bytes |-> AnyPath] /\ current = AnyPath
  /\ entry = [b \in Bytes |-> b]
  /\ queue = {} /\ pendingBytes = 0 /\ phase = "idle" /\ drained = FALSE
  /\ taken = {} /\ left = {}
  /\ disk = {} /\ lost = {} /\ reported = {}
  /\ waiting = 0 /\ flushed = 0 /\ listening = FALSE
  /\ closing = "open"

\* A call or callback other than close().
Work ==
  \/ \E p \in Paths, n \in Sizes : Append(p, n)
  \/ Flush
  \/ OnIdle
  \/ StartDrain
  \/ \E w \in SUBSET left : ChunkWritten(w)
  \/ CloseContinues

\* The interceptor closes the queue from its exit handlers, which start a turn
\* of the event loop of their own: no microtask is due.
CloseOnExit == phase # "scheduled" /\ Close

\* A close() right after an append, in the same turn, of a queue that has never
\* drained.
CloseFresh == phase = "scheduled" /\ ~drained /\ Close

Next == Work \/ CloseOnExit \/ CloseFresh

\* Microtasks run, and every append is over some time.
Fairness ==
  /\ WF_vars(StartDrain)
  /\ WF_vars(\E w \in SUBSET left : ChunkWritten(w))
  /\ WF_vars(CloseContinues)

Spec == Init /\ [][Next]_vars
FairSpec == Spec /\ Fairness

-----------------------------------------------------------------------------
(* Properties *)

TypeOK ==
  /\ syncMode \in BOOLEAN
  /\ accepted \in 0..MaxBytes
  /\ path \in [Bytes -> Paths] /\ entry \in [Bytes -> Bytes]
  /\ queue \subseteq 1..accepted /\ taken \subseteq 1..accepted
  /\ disk \subseteq 1..accepted /\ lost \subseteq 1..accepted
  /\ reported \subseteq 1..accepted /\ left \subseteq taken
  /\ pendingBytes \in Nat
  /\ phase \in {"idle", "scheduled", "draining"}
  /\ drained \in BOOLEAN /\ listening \in BOOLEAN
  /\ current \in Paths
  /\ waiting \in 0..accepted /\ flushed \in 0..accepted
  /\ closing \in {"open", "running", "settled", "closed"}

Settled == disk \cup lost

\* Whatever calls come during a drain, every accepted byte is queued, being
\* written, on disk or lost to a failed append, and only one of these: none is
\* dropped and none is written twice (lines 77, 124, 146-154, 102-108).
EachByteInOnePlace ==
  /\ queue \cup left \cup Settled = 1..accepted
  /\ queue \cap left = {} /\ (queue \cup left) \cap Settled = {}
  /\ disk \cap lost = {}

\* A file holds its bytes in the order they were accepted, so no entry is torn
\* by another one, by a synchronous append least of all (lines 62-71, 147-152).
AppendsInOrder ==
  [][\A b \in disk, c \in disk' \ disk : path[b] = path'[c] => b < c]_vars

\* No wake-up is lost: what is queued has a drain coming, and an idle queue has
\* no bytes to its account, which shard rotation relies on before it renames
\* files (lines 41, 115-116, 164-168).
IdleMeansQuiet ==
  /\ phase = "idle" => queue = {} /\ left = {} /\ pendingBytes = 0
  /\ phase = "draining" <=> left # {}

\* The backlog counter is the bytes not yet credited: it neither drifts nor goes
\* below zero, however appends, batches and close() interleave (lines 78, 160-165).
PendingCounts == pendingBytes = Cardinality(queue) + Cardinality(taken)

\* onDone runs after its entry's fate is known (lines 108, 155-157).
ReportedAfterWrite == reported \subseteq Settled

\* A flush that resolved covers everything accepted before it was called
\* (lines 82-88, 170).
FlushCovers == 1..flushed \subseteq Settled

\* When close() has returned, nothing accepted is still to be written: the
\* process may exit (lines 92-97, 100).
CloseLosesNothing == closing = "closed" => 1..accepted \subseteq Settled

\* Every accepted byte is written, or lost to a failed append, in the end: none
\* waits for an append that may never come (lines 85-86, 114-122).
EveryByteSettles == \A b \in Bytes : b <= accepted ~> b \in Settled

\* Once appends stop coming, every flush resolves and every idle listener runs
\* (lines 92-112, 168-176).
CallersHearBack ==
  /\ waiting # 0 ~> waiting = 0
  /\ listening ~> ~listening

Log == INSTANCE AppendLog WITH closed <- closing = "closed"

\* Queue, batches, chunks, synchronous appends and close() together behave as an
\* append-only log: bytes in order and settled once, callbacks and flushes that tell
\* the truth, nothing owed once closed (lines 55-177).
ImplementsLog == Log!Spec
=============================================================================
