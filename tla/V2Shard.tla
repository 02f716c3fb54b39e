------------------------------- MODULE V2Shard -------------------------------
(***************************************************************************)
(* The V2 log writer of one session dir and the shards it cuts its log     *)
(* into (src/packages/app/server/lib/v2/v2-writer.js, shard-manager.js,    *)
(* journal.js).                                                            *)
(*                                                                         *)
(* A request takes a sequence number and a request line in the journal; its*)
(* completion adds a response line and a done line.  When enough prompts   *)
(* were counted the live files are renamed into parts/<n>/ and the log goes*)
(* on in fresh files.  The live files are shard number parts + 1, which is *)
(* the number they get when they are archived: a cut moves no line.        *)
(*                                                                         *)
(* Numbers and counts are kept by a session object.  A reset or a resume   *)
(* drops it and the next request makes another one on the same files; the  *)
(* handles, queued lines and parked cuts of the dropped one live on.       *)
(*                                                                         *)
(* One event loop: an action is a call or a callback, synchronous code     *)
(* included.  The queue is an append-only log (AppendLog) of which only    *)
(* "queued, then written or lost" is needed here: lines are a set.         *)
(***************************************************************************)
EXTENDS Integers, Sequences, FiniteSets, SequencesExt

CONSTANTS
  MaxReqs,     \* bound: requests in one behaviour
  MaxFaults,   \* bound: resets, crashes, failed cuts and appends in one behaviour
  Threshold,   \* SHARD_PROMPT_THRESHOLD, the prompts of a shard
  HeldMax,     \* the most requests held before a session is known (64)
  LateMax      \* the most held requests whose handles are remembered (64)

ASSUME ShardAssumption ==
  /\ MaxReqs \in Nat /\ MaxFaults \in Nat
  /\ Threshold \in Nat \ {0}
  /\ HeldMax \in Nat /\ LateMax \in Nat \ {0}

Reqs == 1..MaxReqs
Objects == 1..MaxFaults + 1
Lines == Reqs \X {"req", "resp", "done"}

VARIABLES
  prompt,    \* input: does the request carry a new user prompt?
  staging,   \* input: the writer is the converter's, on a staging dir
  status,    \* of a request on the wire: "new", "running" or "over"
  handle,    \* requests whose caller was given a handle
  pending,   \* _pendingNoSid: requests held until a session is known
  late,      \* _lateHandles: held requests that were logged, oldest first
  counted,   \* requests that an _inflight counts (the counted latch of handles)
  objOf,     \* s of a handle: the session object that logged the request, or 0
  made,      \* session objects of this process, numbered in the order they were made
  bound,     \* the newest one is in _sessions
  known,     \* _currentSid is set
  seqOf,     \* the sequence number of a request, 0 before it has one
  seq,       \* _seq of an object's journal
  inflight,  \* _inflight of an object
  prompts,   \* _partPrompts of an object
  armed,     \* objects whose _shardArmed is set
  waiting,   \* objects whose cut waits for the queue to be idle, in that order
  balked,    \* objects whose last attempt at a cut failed
  queue,     \* lines queued or being written
  draining,  \* the queue is not idle
  disk,      \* lines in their files
  shard,     \* the shard of every line on disk
  parts,     \* the number of archived shards
  cut,       \* the cut.json of every archived shard, 0 for none
  meta,      \* shardPromptsActive in the live meta.json
  torn,      \* history: shards that a crash left in pieces
  hasty,     \* history: shards cut when the next request had its number already
  stale,     \* history: shards cut by an object that a newer one had replaced
  parted,    \* history: requests that were open when another object made a cut
  unseen,    \* history: requests whose line was queued when a journal was seeded
  faults     \* how many resets, crashes, failed cuts and appends

inputs == <<prompt, staging>>
handles == <<handle, pending, late, counted, objOf>>
session == <<made, bound, known, seqOf, seq, inflight, prompts>>
latches == <<armed, waiting, balked>>
log == <<disk, shard>>
shards == <<parts, cut, meta, stale, parted>>
history == <<torn, hasty, unseen>>
vars == <<inputs, status, handles, session, latches, queue, draining, log, shards,
          history, faults>>

-----------------------------------------------------------------------------
(* The journal and the session object *)

SeqsOf(S) == {seqOf[l[1]] : l \in {m \in S : m[2] \in {"req", "done"}}}

\* Mutant: the archived journals are not looked at.
LiveSeed ==
  CHOOSE n \in {0} \cup SeqsOf({l \in disk : shard[l] > parts}) :
    \A m \in SeqsOf({l \in disk : shard[l] > parts}) : m <= n

\* A new Journal goes on after the greatest number in the live and the archived
\* journals; a line that is still queued it does not see.
Seed == CHOOSE n \in {0} \cup SeqsOf(disk) : \A m \in SeqsOf(disk) : m <= n

\* The object that logs the next request, made for it when there is none.
Current == IF bound THEN made ELSE made + 1
SeqNow == IF bound THEN seq[made] ELSE Seed
PromptsNow == IF bound THEN prompts[made] ELSE IF staging THEN 0 ELSE meta

\* _armShardRotation() does not count for a staging dir.
Arming == Current \in armed \/ (~staging /\ PromptsNow >= Threshold)

-----------------------------------------------------------------------------
(* Cuts *)

\* Mutant: a cut does not wait for the open requests.
QuietQueue(o) == ~draining

\* A cut splits no request of its object and tears no line: nothing is open, the
\* queue is idle.
Quiescent(o) == inflight[o] = 0 /\ ~draining

\* The caller of r, or the memory of held requests, has the handle of r.
Reachable(r) == r \in handle \/ r \in ToSet(late)

Open == {r \in Reqs : status[r] = "running" /\ Reachable(r)}

\* rotateSessionDir(), for one object after the other: the live files become the
\* next shard, its marker is the last number the object gave out, and the live
\* meta.json keeps the old count.
Cuts(os, marks, count) ==
  /\ parts' = parts + Len(os)
  /\ cut' = cut \o marks
  /\ meta' = count
  /\ stale' = stale \cup {parts + i : i \in {j \in DOMAIN os : os[j] < made}}
  /\ parted' = parted \cup {r \in Open : \E i \in DOMAIN os : objOf[r] # os[i]}

\* Mutant: the request that meets the cut has taken its number already.
CutMarksNext(o, q, count) == Cuts(<<o>>, <<q + 1>>, count)

Cut(o, q, count) == Cuts(<<o>>, <<q>>, count)

\* A cut of a busy queue waits for it, once.
Park(o) == IF o \in ToSet(waiting) THEN waiting ELSE Append(waiting, o)

\* What goes wrong, and a reset, are bounded together.
Fails == faults < MaxFaults /\ faults' = faults + 1

-----------------------------------------------------------------------------
(* Requests *)

Sent == {r \in Reqs : status[r] # "new"}
IsNext(r) == r \notin Sent /\ \A x \in 1..r - 1 : x \in Sent

\* Without a session to go to, a request is held in memory.
Hold(r) ==
  /\ IsNext(r) /\ ~known /\ Len(pending) < HeldMax
  /\ pending' = Append(pending, r)
  /\ status' = [status EXCEPT ![r] = "running"]
  /\ UNCHANGED <<inputs, handle, late, counted, objOf, session, latches, queue, draining,
                 log, shards, history, faults>>

\* The oldest late handles, over the limit.
Forgotten(s) == IF Len(s) > LateMax THEN SubSeq(s, 1, Len(s) - LateMax) ELSE <<>>

Remembered(s) == SubSeq(s, Len(Forgotten(s)) + 1, Len(s))

\* _countShardPrompt(): the prompts among requests S.
NewPrompts(S) == Cardinality({r \in S : prompt[r]})

\* _ingestInto(): the request line comes last, after the content it refers to.
RequestLines(S) == S \X {"req"}
CompletionLines(r) == {r} \X {"resp", "done"}

Position(s, x) == CHOOSE i \in DOMAIN s : s[i] = x

\* A request comes that some object can log.
Arrives(r) == IsNext(r) /\ Current \in Objects

\* The held requests and r are numbered and get their lines.
Log(r, base) ==
  LET logged == Append(pending, r)
      forgotten == Forgotten(late \o pending)
  IN  /\ status' = [status EXCEPT ![r] = "running"]
      /\ made' = Current /\ bound' = TRUE /\ known' = TRUE
      /\ seqOf' = [x \in Reqs |-> IF x \in ToSet(logged)
                                  THEN SeqNow + Position(logged, x) ELSE seqOf[x]]
      /\ objOf' = [x \in Reqs |-> IF x \in ToSet(logged) THEN Current ELSE objOf[x]]
      /\ seq' = [seq EXCEPT ![Current] = SeqNow + Len(logged)]
      /\ inflight' = [inflight EXCEPT ![Current] = @ + Len(logged) - Len(forgotten)]
      /\ prompts' = [prompts EXCEPT ![Current] = base + NewPrompts(ToSet(logged))]
      /\ queue' = queue \cup RequestLines(ToSet(logged))
      /\ draining' = TRUE
      /\ handle' = handle \cup {r}
      /\ late' = Remembered(late \o pending)
      /\ counted' = (counted \cup ToSet(logged)) \ ToSet(forgotten)
      /\ pending' = <<>>
      /\ balked' = balked \ {Current}
      /\ unseen' = IF bound THEN unseen ELSE unseen \cup {x \in Reqs : <<x, "req">> \in queue}
      /\ UNCHANGED <<inputs, log, torn>>

\* _ingestInto() arms a cut as well, when the prompt that it just counted is one
\* too many: the first of the requests it logs.
Crossing(r) ==
  /\ prompt[Head(Append(pending, r))] /\ PromptsNow + 1 > Threshold
  /\ inflight[Current] = 0

\* The cut before the request is numbered.
IngestAfterCut(r) ==
  /\ Arming /\ Quiescent(Current)
  /\ Log(r, 0)
  /\ Cut(Current, SeqNow, PromptsNow)
  /\ armed' = armed \ {Current}
  /\ UNCHANGED <<waiting, hasty>>

\* The cut inside _ingestInto(): the request that will open the new shard has its
\* number already, and the marker counts it.
IngestIntoCut(r) ==
  /\ Crossing(r) /\ Quiescent(Current)
  /\ Log(r, 0)
  /\ Cut(Current, SeqNow + 1, PromptsNow + 1)
  /\ hasty' = hasty \cup {parts + 1}
  /\ armed' = armed \ {Current}
  /\ UNCHANGED waiting

IngestUncut(r) ==
  LET arming == Arming \/ Crossing(r)
  IN  /\ Log(r, PromptsNow)
      /\ armed' = IF arming THEN armed \cup {Current} ELSE armed
      /\ waiting' = IF arming /\ inflight[Current] = 0 /\ draining
                    THEN Park(Current) ELSE waiting
      /\ UNCHANGED <<shards, hasty>>

\* ingestRequest().
Ingest(r) ==
  /\ Arrives(r)
  /\ \/ IngestAfterCut(r)
     \/ ~Arming /\ IngestIntoCut(r)
     \/ ~(Quiescent(Current) /\ (Arming \/ Crossing(r))) /\ IngestUncut(r)
  /\ UNCHANGED faults

\* The same when the first cut fails, with nothing moved, or each one does.
IngestBalked(r) ==
  /\ Fails
  /\ Arrives(r)
  /\ \/ Arming /\ IngestIntoCut(r)
     \/ Quiescent(Current) /\ (Arming \/ Crossing(r)) /\ IngestUncut(r)

\* Mutant: the count is given back by an abort after the completion too.
CloseHandleAnyway(r) ==
  /\ counted' = counted \ {r}
  /\ inflight' = [inflight EXCEPT ![objOf[r]] = @ - 1]

\* Mutant: nothing remembers that the count was given back.
CloseHandleTwice(r) ==
  /\ counted' = counted \ {r}
  /\ inflight' = [inflight EXCEPT ![objOf[r]] = IF @ > 0 THEN @ - 1 ELSE @]

\* _closeHandle(): the count is given back once, by whoever comes first.
CloseHandle(r) ==
  /\ counted' = counted \ {r}
  /\ inflight' = [inflight EXCEPT ![objOf[r]] = IF r \in counted THEN @ - 1 ELSE @]

\* r is the last open request of an object that has a cut to make.
ClosesArmed(r) == r \in counted /\ inflight[objOf[r]] = 1 /\ objOf[r] \in armed

Without(s, x) == IF x \in ToSet(s) THEN RemoveAt(s, Position(s, x)) ELSE s

\* ingestCompletion(): the lines are queued, so an armed cut has to wait.
Complete(r) ==
  /\ status[r] = "running" /\ Reachable(r)
  /\ status' = [status EXCEPT ![r] = "over"]
  /\ queue' = queue \cup CompletionLines(r)
  /\ draining' = TRUE
  /\ late' = Without(late, r)
  /\ CloseHandle(r)
  /\ waiting' = IF ClosesArmed(r) THEN Park(objOf[r]) ELSE waiting
  /\ UNCHANGED <<inputs, handle, pending, objOf, made, bound, known, seqOf, seq, prompts,
                 armed, balked, log, shards, history, faults>>

\* A request ends that is still held, or whose handle is forgotten: nothing is
\* written.
EndUnlogged(r) ==
  /\ status[r] = "running" /\ ~Reachable(r)
  /\ status' = [status EXCEPT ![r] = "over"]
  /\ UNCHANGED <<inputs, handles, session, latches, queue, draining, log, shards, history,
                 faults>>

\* releaseHandle(): the request was given up, maybe after it had completed.
GiveUp(r) ==
  /\ r \in handle /\ status[r] # "new"
  /\ status' = [status EXCEPT ![r] = "over"]
  /\ CloseHandle(r)
  /\ UNCHANGED <<inputs, handle, pending, late, objOf, made, bound, known, seqOf, seq,
                 queue, draining, log, history>>

\* No line is queued, so an armed cut may be made here.
ReleaseIntoCut(r) ==
  /\ ClosesArmed(r) /\ ~draining
  /\ GiveUp(r)
  /\ Cut(objOf[r], seq[objOf[r]], prompts[objOf[r]])
  /\ armed' = armed \ {objOf[r]}
  /\ prompts' = [prompts EXCEPT ![objOf[r]] = 0]
  /\ UNCHANGED <<waiting, balked>>

ReleaseUncut(r) ==
  /\ GiveUp(r)
  /\ waiting' = IF ClosesArmed(r) /\ draining THEN Park(objOf[r]) ELSE waiting
  /\ balked' = IF ClosesArmed(r) /\ ~draining THEN balked \cup {objOf[r]} ELSE balked
  /\ UNCHANGED <<armed, prompts, shards>>

Release(r) ==
  /\ \/ ReleaseIntoCut(r)
     \/ ~(ClosesArmed(r) /\ ~draining) /\ ReleaseUncut(r)
  /\ UNCHANGED faults

ReleaseBalked(r) == Fails /\ ClosesArmed(r) /\ ~draining /\ ReleaseUncut(r)

-----------------------------------------------------------------------------
(* The queue *)

\* A file gets its lines in the order they were queued.
First(l) ==
  CASE l[2] = "req"  -> \A x \in 1..l[1] - 1 : <<x, "req">> \notin queue
    [] l[2] = "done" -> <<l[1], "req">> \notin queue
    [] l[2] = "resp" -> TRUE

Write(l) ==
  /\ l \in queue /\ First(l)
  /\ queue' = queue \ {l}
  /\ disk' = disk \cup {l}
  /\ shard' = [shard EXCEPT ![l] = parts + 1]
  /\ UNCHANGED <<inputs, status, handles, session, latches, draining, shards, history,
                 faults>>

\* The append failed, which the queue swallows.
Lose(l) ==
  /\ Fails
  /\ l \in queue /\ First(l)
  /\ queue' = queue \ {l}
  /\ UNCHANGED <<inputs, status, handles, session, latches, draining, log, shards, history>>

\* What is tried again once the queue is idle.
Ready == {o \in ToSet(waiting) : o \in armed /\ inflight[o] = 0}

\* Orders of ready objects that keep the order in which they were parked.
Turns == {os \in UNION {[1..n -> Ready] : n \in 0..Cardinality(Ready)} :
            \A i, j \in DOMAIN os :
              i < j => Position(waiting, os[i]) < Position(waiting, os[j])}

\* The queue is idle: the cuts that waited for it are tried again, those of os
\* are made.
Drained(os) ==
  /\ draining /\ queue = {}
  /\ draining' = FALSE /\ waiting' = <<>>
  /\ IF os = <<>> THEN UNCHANGED shards
     ELSE Cuts(os, [i \in DOMAIN os |-> seq[os[i]]], prompts[Last(os)])
  /\ armed' = armed \ ToSet(os)
  /\ prompts' = [o \in Objects |-> IF o \in ToSet(os) THEN 0 ELSE prompts[o]]
  /\ balked' = balked \cup (Ready \ ToSet(os))
  /\ UNCHANGED <<inputs, status, handles, made, bound, known, seqOf, seq, inflight, queue,
                 log, history>>

\* Mutant: a cut that waited is not tried again.
DrainEndsSilently ==
  /\ draining /\ queue = {}
  /\ draining' = FALSE /\ waiting' = <<>>
  /\ UNCHANGED <<inputs, status, handles, session, armed, balked, queue, log, shards, history,
                 faults>>

DrainEnds == (\E os \in Turns : ToSet(os) = Ready /\ Drained(os)) /\ UNCHANGED faults

DrainEndsBalked == Fails /\ \E os \in Turns : ToSet(os) # Ready /\ Drained(os)

-----------------------------------------------------------------------------
(* Resets and crashes *)

\* resetSessions() for another project: the held requests and all late handles
\* are forgotten, whatever project they belong to, and the current session if it
\* was of that project.
ForeignReset ==
  /\ Fails /\ ~staging
  /\ pending' = <<>> /\ late' = <<>> /\ known' \in {known, FALSE}
  /\ UNCHANGED <<inputs, status, handle, counted, objOf, made, bound, seqOf, seq, inflight,
                 prompts, latches, queue, draining, log, shards, history>>

\* resetSessions() for this project: the next request makes a new session object
\* on the same files.  What the callers, the queue and its listeners hold stays.
Reset ==
  /\ Fails /\ ~staging
  /\ pending' = <<>> /\ late' = <<>>
  /\ bound' = FALSE /\ known' \in {known, FALSE}
  /\ UNCHANGED <<inputs, status, handle, counted, objOf, made, seqOf, seq, inflight, prompts,
                 latches, queue, draining, log, shards, history>>

\* A resume switch, or the same session id in another project: the session object
\* goes (lines 275-283, 313-319).
SwitchAway ==
  /\ Fails /\ ~staging
  /\ bound /\ bound' = FALSE
  /\ UNCHANGED <<inputs, status, handles, made, known, seqOf, seq, inflight, prompts,
                 latches, queue, draining, log, shards, history>>

Zeros == [o \in Objects |-> 0]

Crash ==
  /\ Fails
  /\ status' = [r \in Reqs |-> IF status[r] = "running" THEN "over" ELSE status[r]]
  /\ handle' = {} /\ pending' = <<>> /\ late' = <<>> /\ counted' = {}
  /\ objOf' = [r \in Reqs |-> 0]
  /\ made' = 0 /\ bound' = FALSE /\ known' = FALSE
  /\ seq' = Zeros /\ inflight' = Zeros /\ prompts' = Zeros
  /\ armed' = {} /\ waiting' = <<>> /\ balked' = {}
  /\ queue' = {} /\ draining' = FALSE
  /\ UNCHANGED <<inputs, seqOf, disk, unseen>>

CrashOutsideCut == Crash /\ UNCHANGED <<shard, shards, torn, hasty>>

\* The object o may be making a cut with marker q: before it logs a request or
\* while it does, at the release of its last one, or at the end of a drain.
Cutting(o, q) ==
  \/ o = Current /\ Quiescent(o) /\ Arming /\ q = SeqNow
  \/ o = Current /\ Quiescent(o) /\ PromptsNow + 1 > Threshold /\ q = SeqNow + 1
  \/ ~draining /\ q = seq[o] /\ \E r \in handle : objOf[r] = o /\ ClosesArmed(r)
  \/ draining /\ queue = {} /\ o \in Ready /\ q = seq[o]

\* What the renames of a cut have moved when the process dies: first the part is
\* made and marked, then the journal goes, then the responses and the rest.
Moved(done) ==
  CASE done \in {"made", "marked"} -> {}
    [] done = "journal"            -> {"req", "done"}
    [] done = "responses"          -> {"req", "done", "resp"}

\* The rest of the live files stays where it is, and nothing comes back for it.
CrashInCut(o, q, done) ==
  /\ Cutting(o, q)
  /\ Crash
  /\ parts' = parts + 1
  /\ cut' = Append(cut, IF done = "made" THEN 0 ELSE q)
  /\ torn' = IF done = "responses" THEN torn ELSE torn \cup {parts + 1}
  /\ hasty' = IF o = Current /\ q > SeqNow THEN hasty \cup {parts + 1} ELSE hasty
  /\ stale' = IF o < made THEN stale \cup {parts + 1} ELSE stale
  /\ shard' = [l \in Lines |-> IF l \in disk /\ shard[l] = parts + 1 /\ l[2] \notin Moved(done)
                               THEN shard[l] + 1 ELSE shard[l]]
  /\ UNCHANGED <<meta, parted>>

-----------------------------------------------------------------------------

Init ==
  /\ prompt \in [Reqs -> BOOLEAN] /\ staging \in BOOLEAN
  /\ status = [r \in Reqs |-> "new"]
  /\ handle = {} /\ pending = <<>> /\ late = <<>> /\ counted = {}
  /\ objOf = [r \in Reqs |-> 0]
  /\ made = 0 /\ bound = FALSE /\ known = FALSE
  /\ seqOf = [r \in Reqs |-> 0]
  /\ seq = Zeros /\ inflight = Zeros /\ prompts = Zeros
  /\ armed = {} /\ waiting = <<>> /\ balked = {}
  /\ queue = {} /\ draining = FALSE
  /\ disk = {} /\ shard = [l \in Lines |-> 0]
  /\ parts = 0 /\ cut = <<>> /\ meta = 0 /\ stale = {} /\ parted = {}
  /\ torn = {} /\ hasty = {} /\ unseen = {}
  /\ faults = 0

Call ==
  \/ \E r \in Reqs : Hold(r) \/ Ingest(r) \/ Complete(r) \/ EndUnlogged(r) \/ Release(r)
  \/ \E l \in Lines : Write(l)
  \/ DrainEnds

Fault ==
  \/ Reset \/ ForeignReset \/ SwitchAway
  \/ \E r \in Reqs : IngestBalked(r) \/ ReleaseBalked(r)
  \/ \E l \in Lines : Lose(l)
  \/ DrainEndsBalked
  \/ CrashOutsideCut
  \/ \E o \in Objects, done \in {"made", "marked", "journal", "responses"} :
       \E q \in {seq[o], SeqNow, SeqNow + 1} : CrashInCut(o, q, done)

Next == Call \/ Fault

Spec == Init /\ [][Next]_vars
CalmSpec == Init /\ [][Call]_vars
ResetSpec == Init /\ [][Call \/ Reset]_vars

-----------------------------------------------------------------------------
(* The reader *)

\* readV2ShardEntries(): the shard a cursor just past number q is answered from.
Owner(q) ==
  IF parts = 0 \/ q > cut[parts] THEN parts + 1
  ELSE CHOOSE n \in 1..parts : cut[n] >= q /\ \A m \in 1..n - 1 : cut[m] < q

-----------------------------------------------------------------------------
(* Properties *)

TypeOK ==
  /\ prompt \in [Reqs -> BOOLEAN] /\ staging \in BOOLEAN
  /\ status \in [Reqs -> {"new", "running", "over"}]
  /\ handle \subseteq Reqs /\ counted \subseteq Reqs
  /\ pending \in Seq(Reqs) /\ late \in Seq(Reqs)
  /\ objOf \in [Reqs -> Objects \cup {0}]
  /\ made \in Objects \cup {0} /\ bound \in BOOLEAN /\ known \in BOOLEAN
  /\ seqOf \in [Reqs -> Nat]
  /\ seq \in [Objects -> Nat] /\ inflight \in [Objects -> Nat] /\ prompts \in [Objects -> Nat]
  /\ armed \subseteq Objects /\ waiting \in Seq(Objects) /\ balked \subseteq Objects
  /\ draining \in BOOLEAN
  /\ queue \subseteq Lines /\ disk \subseteq Lines
  /\ shard \in [Lines -> Nat]
  /\ parts \in Nat /\ cut \in Seq(Nat) /\ Len(cut) = parts /\ meta \in Nat
  /\ torn \subseteq 1..parts /\ hasty \subseteq 1..parts /\ stale \subseteq 1..parts
  /\ parted \subseteq Reqs /\ unseen \subseteq Reqs
  /\ faults \in 0..MaxFaults

Logged(r) == <<r, "req">> \in queue \cup disk

\* Readers fold the log by number.  Across cuts, resets, restarts and lost lines
\* a request has a greater number than those that came before it, unless their
\* lines were still queued when a later journal looked for them (journal.js:22-41).
NumbersInArrivalOrder ==
  \A r, x \in Reqs :
    r < x /\ Logged(r) /\ Logged(x) /\ r \notin unseen => seqOf[r] < seqOf[x]

\* "Seed from any existing journal so seq stays monotonic ... the reader folds by
\* seq, so collisions silently corrupt": also when a session object is made anew on
\* the same files after resetSessions() (journal.js:25-28).
NumbersGivenOnce ==
  \A r, x \in Reqs : r # x /\ Logged(r) /\ Logged(x) => seqOf[r] # seqOf[x]

\* The lines of a request are in one shard.  Only its response is left behind when
\* a crash interrupts the cut between the two files, and only a request that was
\* open when another session object made a cut is parted (v2-writer.js:564-567,
\* 875-883, 976-981).
LinesStayTogether ==
  \A r \in Reqs :
    <<r, "req">> \in disk /\ r \notin parted =>
      /\ <<r, "done">> \in disk => shard[<<r, "done">>] = shard[<<r, "req">>]
      /\ <<r, "resp">> \in disk =>
           \/ shard[<<r, "resp">>] = shard[<<r, "req">>]
           \/ shard[<<r, "req">>] \in torn

\* The number of r is not its own: lines were lost or queued when it was given again.
Repeated(r) == r \in unseen \/ \E x \in Reqs \ {r} : seqOf[x] = seqOf[r]

\* Paging backwards reaches every request: the markers of the cuts send the
\* reader to the shard that has it.  It is misled by a marker whose journal a crash
\* left behind or that was never written, by one that a replaced object wrote, by
\* one that counts the request which opens the next shard, and by a number that was
\* given twice (adapter.js:1106-1157, shard-manager.js:54-79, journal.js:22-41).
CursorFindsShard ==
  \A r \in Reqs :
    <<r, "req">> \in disk =>
      LET n == Owner(seqOf[r])
          home == shard[<<r, "req">>]
      IN  \/ n = home
          \/ n \in torn \/ home \in stale
          \/ n \in hasty /\ seqOf[r] = cut[n]
          \/ n = parts + 1 /\ (parts \in stale \/ cut[parts] = 0)
          \/ Repeated(r)

\* The guard of every cut: a count is that of the object's handles that are counted,
\* and a request that can still write its completion is one of them.
OpenIsCounted ==
  /\ \A o \in Objects : inflight[o] = Cardinality({r \in counted : objOf[r] = o})
  /\ Open \subseteq counted

\* A request that is over, completed or given up by its caller, is not: what the
\* caller holds a handle of never keeps later cuts from being made.
OverIsReturned == \A r \in counted \cap handle : status[r] = "running"

\* Every counted handle closes exactly once, whichever of completion, abort and
\* eviction comes first, in the object that counted it and also when a newer one
\* has replaced that: a count too low cuts a request apart, one too high stops
\* rotation for the life of the process (v2-writer.js:864-900).
CountCoversOpen == OpenIsCounted /\ OverIsReturned

\* An armed cut is never forgotten: with nothing open, it waits for a queue whose
\* end of drain makes it, and needs no further request unless it has just failed
\* (v2-writer.js:970-982).
ArmedCutIsComing ==
  \A o \in armed \ balked : inflight[o] = 0 => o \in ToSet(waiting) /\ draining

\* "every part holds whole user-prompt->loop segments (never a half-turn)": the
\* first request of a shard carries a new prompt (shard-manager.js:38-40).
ShardsHoldWholeTurns ==
  \A r \in Reqs :
    /\ <<r, "req">> \in disk /\ shard[<<r, "req">>] > 1
    /\ \A x \in 1..r - 1 : <<x, "req">> \in disk => shard[<<x, "req">>] < shard[<<r, "req">>]
    => prompt[r]
=============================================================================
