# TLA+ for cc-viewer

TLA+ models of the stateful core of cc-viewer, TLC runs that check them on small
instances, and TLAPS proofs of the main results for every instance.
Paths below are relative to the repository; `server/` is `packages/app/server/`.

To reproduce, in this directory: `tlc -config <run>.cfg <module>` with the pairs of
[Runs](#runs), and `tlapm <module>.tla` for every `*_proofs.tla` and for `FifoLemmas.tla`.

## 1. The system

cc-viewer runs Claude Code in a PTY (or through the SDK), captures its API traffic,
logs it per session, and serves a live web view from which the user also types,
answers questions, and schedules work. One Node process per viewer window; several
windows share one log directory and one set of preference files, so everything on disk
is shared between processes, and everything in memory runs on one event loop, where what
interleaves are handlers, timers, awaits and completion callbacks.

| Component | State | Operations | Interacts with | What is hard | What makes it correct |
|---|---|---|---|---|---|
| **modelled:** Chat queue (`server/lib/chat-queue.js`) | FIFO of parked messages, one dispatch slot, one in-flight flag, three timers, generation counter, parked flag | enqueue, remove, clear (all or scoped), send now, turn end, stop button, new turn, /resume injection, stop | WebSocket handlers, PTY writes and their callbacks, Stop hook, IM bridges, resume route, task executor | late completions and timers against newer state; three shared slots; failed writes in six places | no message lost, doubled, reordered or sent twice; every dispatch ends; the queue never wedges; Stop parks it |
| **modelled:** Async write queue (`server/lib/async-write-queue.js`) | queued lines, batch being appended, flush and idle listeners, closed flag | append, drain, flush, close, onIdle | V2 writer, interceptor's exit handlers | appends during a drain, chunked appends, close against a drain | lines of a file in order, none lost at close, callbacks after the bytes |
| **modelled:** Session ownership (`server/lib/v2/session-owner.js`) | one `owner.lock` per session dir | claim, release, liveness probe | V2 writer, session selection, live feed, other processes | create, read, probe and unlink are separate steps of several processes; crashes | one live owner per dir; a dead owner never blocks |
| **modelled in part:** V2 writer, journal, shards (`server/lib/v2/v2-writer.js`, `journal.js`, `shard-manager.js`) | sessions, sequence numbers, in-flight handles, held requests, armed rotation | ingest request, complete, abort, late metadata, rotate, reset | interceptor, write queue, ownership, readers | completions after resets and rotations; crash between renames | sequence numbers unique and increasing; a request and its completion in one shard; rotation eventually happens |
| Conversation log (`conversation-store.js`, `replay.js`) | per-conversation message hashes | ingest (append / set / snapshot), replay | V2 writer, readers | truncation, edits, restarts | replay of what was written is what was sent |
| File locks and JSON stores (`async-file-lock.js`, `json-store.js`) | lock files, in-process chains | locked read-modify-write, sync and async | preferences, tasks, ask store, registry | stale locks, own-pid locks, takeover, timeouts that degrade | one writer at a time, no update lost |
| **modelled in part:** Ask flow (`lib/ask/*`, `routes/ask-perm.js`) | pending map, disk store, listeners, last-poll times | ask, poll, answer, cancel, reap, restart | hook bridge process, browsers, other servers | short polls that die, answers from two browsers, restart, reaper | each question gets one outcome and the bridge learns it |
| **modelled in part:** Scheduled tasks (`scheduled-task-*.js`) | task store with claims, spawn counters | tick, claim, launch, finalise, sweep, run now | chat queue (strict anchors), JSON store, other processes | several schedulers, crash of a claimant, catch-up | each occurrence runs at most once; no claim is stuck |
| Proxy and retries (`lib/proxy/*`, `proxy.js`) | attempts, abort controllers | serial, staggered, racing retries | upstream, interceptor | loser cancellation, stream idle timeout | one response to the client; losers are released |
| IM bridges (`lib/im/*`) | per-platform worker lock, injection slot, queue | receive, inject, reply, lock, reconcile | PTY, chat queue | exclusive worker, mutual exclusion with the chat queue | one worker per platform; no interleaved pastes |
| Others | | | | | see PROJECT.json `components`: readers, conversion, server routes, SDK mode, plugins, watchers, file services, configuration, web client, desktop shell, each with the reason it is not modelled |

The hazards of this code, each at its line with the properties that cover it or the
reason why none does, are `hazards` in PROJECT.json.

### Behaviours that are hard

Within one process everything runs on one event loop: a handler, a timer callback, a
microtask or the continuation of an await is atomic, and what goes wrong goes wrong
between two of them. The recurring shapes are

- a completion callback or timer that meets newer state than the one it was made for
  (chat queue, PTY writes, late metadata of the V2 writer, ask polls);
- one slot shared by several users: the chat queue's dispatch slot, poll timer and
  single-flight flag; the write queue's drain promise; the V2 writer's in-flight count;
- steps of one protocol that fail half-way: refused and failed pastes, failed chunk
  appends, deleted-but-undelivered answers, renames interrupted by a crash;
- processes that share files and lock them with create, read, probe and unlink as
  separate steps (`owner.lock`, `async-file-lock.js`, `im-lock.js`, the task store).

## 2. Plan

| Order | Module | Models | Abstract specification | State of the work |
|---|---|---|---|---|
| 1 | ChatQueue | `chat-queue.js`, whole | MessageFifo | modelled, checked, proved, refinement proved |
| 2 | WriteQueue | `async-write-queue.js`, whole | AppendLog | modelled, checked, proved, refinement proved |
| 3 | SessionClaim | claim file of `session-owner.js` | | modelled, checked, proved |
| 4 | V2Shard | `v2-writer.js`, `journal.js`, `shard-manager.js`, and the reader's choice of a shard (`adapter.js`): one session with its numbers, in-flight counts, cuts, resets and crashes | | modelled in part, checked, proved |
| 5 | AskFlow | `lib/ask/*`, `ask-perm.js`, the handlers of `server.js`: one question, its bridge, browsers of two instances, plugins, reaper, restarts | first outcome wins (`first`) | modelled in part, checked, proved |
| 6 | ScheduledTasks | `scheduled-task-*.js`: one task in several processes | one run per scheduled time (`fired`) | modelled in part, checked, proved |

The order is that of how much goes wrong for a user when it fails: a message or a log line lost, then a question
without its answer, then a task run twice. What is left, and why, is section 10.

## 3. Chat queue

Modules: `ChatQueue` (state, actions, properties), `MessageFifo` (abstract), `MCChatQueue` (its anchors for TLC),
`FifoLemmas`, `ChatQueue_proofs`, `ChatQueueSafety_proofs`.

A message typed while Claude is busy is parked in `_items`. It leaves through
`_dispatch`, the slot of the one message being sent, in one of two ways: an automatic drain
(`_injectHead`: at turn end, by the rescue timer, or when an idle poll succeeds) or the
user's "send now" (interrupt, paste or poll). The paste is a PTY write whose completion
comes later. `clear`, `stop`, Stop and `/resume` cut across all of it.

State: one variable per module-level variable of the source (`items`, `dispatch`,
`injecting`, `rescueTimer`, `pollTimer`, `escTimer`, `suppressDrain`, `gen`), plus
`inflight`, the writes whose completion is still to come (these live in closures in the
code), the anchor of each message, and the promise of each `/resume` call. `fate` and `stops`
are history: what became of each message, and which server run a write belongs to.

| Action | Code |
|---|---|
| Enqueue, RemoveQueued, ClearAll, ClearScope, SendNow | `enqueue`, `remove`, `clear()`, `clear(anchor)`, `sendNow`, in their accepting branches; a refused call changes nothing |
| EscFires | the ESC timer of `sendNow` |
| RescueFires | the callback armed by `enqueue` |
| PollTicks, PollFires, PollTimesOut | `_pollUntilSafe`'s interval: not idle, idle, budget spent |
| WriteCompletes, ResumeCompletes | completion callbacks of `_writeDispatch`, `_injectHead` and `injectResumeCommand` |
| OnTurnEnd, SuppressNextDrain, OnStreamingActivated | Stop hook, Stop button, new turn |
| Stop | `stop()`; a later start reuses the module's state |
| InjectResumeCommand | `injectResumeCommand` |

Inside an action, `_failDispatch` may call `_injectHead` again, which may be refused again:
`InjectHead` stands for the whole chain, rejecting any number of heads whose target is gone.

Abstracted: texts, frames and broadcasts; message ids are arrival numbers, so FIFO order is
increasing order. What a handler reads from its injected probes (streaming, external
injection, open approval or shell) is free at every event, but is one record per handler,
as synchronous code sees it. The verdict on a vanished target is free except where
`_targetGone` fixes it.

Bounds. `MaxItems` 2 is the smallest cap under which the queue and the dispatch slot compete
for the last place; `MaxMessages` 3 lets a message arrive while one is queued and one is
dispatched and another has already gone. `MaxTicks` 1 gives a poll a tick and then a timeout.
`MaxGen` 1 and `MaxStops` 1 give one clear or one stop: a late callback then meets a newer
generation, and nothing distinguishes two outdated generations. One `/resume` call competes
with everything else for the poll and the flag. Three anchors are all that `_targetGone` and
`_matchesScope` tell apart. `CHECK_DEADLOCK FALSE` because a behaviour ends when the bounds
are used up and every message is gone.

`MessageFifo` promises what a browser sees: messages wait in the order they were accepted, up to the cap; those that
leave do so for good and for one reason; and one is sent only when it is at the head or somebody picked it. Its
`waiting` is the snapshot (`getSnapshot`), the dispatched message in its slot, and `picked` the messages that a
send-now is pasting; so a dispatch that fails and comes back is no step of it, and a splice at the wrong index
breaks it. One step it has that reads oddly: a message that was cleared while its paste was under way is sent after
all.

Properties, from shallow to deep: each message is in one place and never comes back (EachMessageInOnePlace); the
queue is a bounded FIFO (ImplementsFifo); each dispatch has exactly one timer or write that will end it and none is
left over (DispatchHasOneOwner); a late completion never matches another dispatch (CompletionsMatchDispatch) and
nothing is pasted after it was sent (NoSecondPaste); a dispatch only moves on, from ESC to poll ticks to paste,
whoever calls meanwhile (DispatchOnlyAdvances); after Stop no path drains by itself (ParkedMeansNoDrain); pastes are
single-flight while the server is not stopped (SingleFlight), the flag is never stuck (InjectingHasWriter), each
dispatch ends (DispatchEnds) and the queue never wedges (QueueNeverWedges).

Fairness: an armed timer fires, an interval ticks until it is cleared, and a PTY write calls
its callback. Nothing is assumed of users, turns or probes. QueueNeverWedges has its own
premises, which say what the environment must do for a parked message to leave: turn ends
that could drain come again and again, pastes do not fail for ever, and Stop is released.

## 4. Async write queue

Modules: `WriteQueue`, `AppendLog` (abstract), `WriteQueue_proofs`.

Entries accepted by `appendTo` are queued; a drain, started in a microtask, takes the whole
queue as a batch, groups it by file, writes each group in chunks with awaited appends, then
calls the entries' `onDone`, and looks at the queue again. `flush` resolves and idle listeners
run when a drain finds the queue empty. Over the high-water mark, and in sync mode,
entries are appended in place. `close` awaits the drain and writes the rest synchronously.

Bytes are numbered in the order they were accepted, so the queue, the batch, the files and what
was lost are sets of numbers and "in order" is "in increasing order". Actions: `Append`,
`Flush`, `OnIdle`, `Close` (calls); `StartDrain` (the microtask); `ChunkWritten(w)` (an append is
over and left `w` on disk: all of the chunk, or a beginning of it when it failed, which ends
its group); `CloseContinues` (after the await). Microtasks come before the next I/O
completion and before a new turn: `CloseOnExit` is a close in a turn of its own, as
the interceptor's exit handlers do it; `CloseFresh` one in the same turn as an append to a
queue that has never drained. A close in the same turn as an append to a queue that has drained
before is not in the model: no caller in the repository performs it, and the code does not
wait for that append (see the end of [Findings](#findings)).

`AppendLog` promises: a file is only appended to, in the order its bytes were accepted, a byte
is settled once (written or lost), callbacks and flushes speak of settled bytes only and do not take it back, and a
closed log owes nothing. `ImplementsLog` is the refinement, with `closed` read as "close() has returned".

Bounds: entries of 1 and 3 bytes with chunks of 2 give an entry that fits, one that
spans chunks and chunks that span entries; `MaxBytes` 5 gives up to five entries or two
long ones; two files give batches of two groups; `HighWater` 3 is reached with one
long entry queued. (As the source's own comment says, the backlog branch that writes in
place cannot be taken while a drain runs, and the counter is zero otherwise; the mutant
DegradesWhileDraining shows what that condition prevents.)

Fairness: microtasks run, an append is over some time, and an awaited close goes on. A flush
or an idle listener may wait for as long as appends keep coming; the bound on bytes
makes them stop, so CallersHearBack reads "once appends stop coming".

## 5. Session ownership

Modules: `SessionClaim`, `SessionClaim_proofs`.

One `owner.lock`, any set of processes. Each file operation and each pid probe is a step of its own
(`Create`, `Write`, `Read`, `Check`, `Probe`, `Recycle`, `Unlink`), because other processes run in
between; `Acquire` and `Release` start a call, `IoError` is a create or write that fails, `Crash`
kills a process anywhere and leaves its file, half-written or not. A call is synchronous, so a
process has one call at a time. `writeFileSync` with `wx` is an exclusive open and a write: the
file exists without content in between, which a claimant takes for a held lock and a reader for
no claim, as the code does.

A process may write to the dir without owning it: an IM worker makes no claims (`BindUnclaimed`), and
a refused claim degrades to writing unclaimed (`v2-writer.js:373-380`). `bound` holds the processes
that have a session there, `claimed` those whose claim succeeded. The resume switch releases the dir
it leaves whether or not it was claimed (`v2-writer.js:281`), so `Release` asks for `bound` alone. It
reads the lock and leaves another's alone; nothing, and a file without content, it unlinks, and by
then the path may hold another process's claim. (`Acquire` sets `bound` also for an adoption or a
resume that is refused; the model releases more often than the code there.)

History: `clear` holds the processes whose call met no lock, its own or a dead one and was left alone
since; `stolen` is set when a process, recycling or releasing, unlinks the file of another live one.

The claim "exactly one winner" fails (run SessionClaimRace): the unlink of a stale lock removes
whatever is there by then. What does hold: without such a theft, by a recycler or by a releaser, there
is one owner and the lock names it at every moment, whatever sessions without a claim come, go and
release; a dead owner never makes an undisturbed call fail; a call is wait-free (CallsAreShort): each of
its steps uses up one of twelve, whatever the other processes do, since an attempt has four steps at the
most and there are three attempts; and so every call returns (CallsReturn).

Three processes are the smallest number with a dead owner and two racers. The proofs are for any number.
Pids are not reused (the source accepts that risk in its comments). Fairness: a live process goes on with the call
it is in. `CHECK_DEADLOCK FALSE` because all processes may be dead.

V2Shard is about one writer of the dir, with a claim or without; which of them writes is not composed
with it. Two remarks without a run: `session-owner.js:54` says that there is no empty-file window, but
there is one, between open and write; and a file left half-written by a crash is refused by
`acquireSessionClaim` for ever, against "can never be locked forever" in line 14, deliberately
according to lines 19-21.

## 6. V2 writer and shards

Modules: `V2Shard`, `V2Shard_proofs`.

The writer of one session dir. A request that comes before a session is known is held in memory (`Hold`); the first
that names one flushes the held ones and goes with them (`Ingest`): they take numbers from the journal, their request
lines are queued, and they are counted in `_inflight`. `Complete` queues the response and done lines and gives the
count back, `Release` only the latter, `EndUnlogged` is a request that ends while it is held or after its handle was
forgotten. `Write` and `Lose` are an append that succeeds or fails: the queue swallows failures.

**Cuts.** Once a shard has `Threshold` prompts the next request arms a cut, which is made when nothing is in flight
and the queue is idle: before that request takes its number (`IngestAfterCut`), in a release (`ReleaseIntoCut`), or
at the end of a drain on which it was parked (`DrainEnds`). There is a second cut inside `_ingestInto`, after
`nextSeq()` (`v2-writer.js:685-690`, `IngestIntoCut`); it is reached when the first was skipped, as on the
converter's staging dir (`staging`), or failed. A cut may fail with nothing moved (the `Balked` actions) and is
tried again.

**Session objects.** Numbers and counts belong to the session object in `_sessions`, not to the dir. `Reset`
(`resetSessions`), with requests open, lines queued and cuts parked or not, and `SwitchAway` (a resume switch) drop
it, and the next request makes another one, whose journal is seeded from the lines on disk (`Seed`). The handles of
the dropped one, its queued lines and its cut parked on `onIdle` live on, so the model numbers the objects and keeps
counter, in-flight count, prompts, latch and parked cut of each: a late completion goes back to the object that
counted it (`objOf`), and a dropped object may still rename the files under its successor. `ForeignReset` is the
part of a reset for another project that touches this session. `CrashOutsideCut` and `CrashInCut` are deaths, the
latter after the shard's directory was made, after it was marked, after its journal was moved, or after its
responses were, before the live `meta.json` was rewritten.

| State | Code |
|---|---|
| `handle`, `pending`, `late`, `counted`, `objOf` | handles of callers, `_pendingNoSid`, `_lateHandles`, the `counted` latch of a handle, its `s` |
| `made`, `bound`, `known` | session objects so far, whether the newest is in `_sessions`, whether `_currentSid` is set |
| `seq`, `inflight`, `prompts`, `armed`, `waiting` | of each object: `journal._seq`, `_inflight`, `_partPrompts`, `_shardArmed`, and the order of the idle callbacks that `_shardRetryQueued` stands for |
| `queue`, `draining` | lines in the write queue, and whether it is idle |
| `disk`, `shard`, `parts`, `cut`, `meta` | lines in their files, the shard each is in (the live files are number `parts` + 1), the archived shards, their `cut.json` markers, `shardPromptsActive` in the live `meta.json` |
| `seqOf` | numbers given |
| `torn`, `hasty`, `stale`, `parted`, `unseen`, `balked` | history, below |

Abstracted: conversations, blobs, prompts and the contents of lines; the write queue is a set of lines, written or
lost in an order that only a file's own lines are bound by, weaker than what AppendLog promises; `Owner` is the
shard that a reader pages to. Not modelled: several sessions in one writer, a rename or the re-made live dir failing
while the process lives, a marker whose write fails, a crash in the second of two cuts that one idle callback round
makes, the files of conversations, claims. `resetConversations` has no caller; `resetSessions` is called on a
workspace switch (`interceptor.js:873, 900`).

Properties: numbers are unique and in order of arrival (NumbersInArrivalOrder), the lines of a request are in one
shard (LinesStayTogether), the markers lead a reader to the shard that has the request (CursorFindsShard), every
counted handle closes exactly once, so that the in-flight counts cover all that can still write and nothing that a
caller has ended (CountCoversOpen), an armed cut is never forgotten (ArmedCutIsComing). They except what the code
really does, each by a history variable and only as far as it reaches:

- `unseen`: requests whose line was still queued when a journal was seeded. Their numbers may be given again, which is
  the finding of run V2ShardReset.
- `parted`: requests that were open when an object other than their own made a cut. Their completion goes to the files
  of the shard that is live then.
- `stale`: shards cut by an object that a newer one had replaced. Its marker is the last number that *it* gave.
- `torn`: shards that a crash left in pieces. A torn shard that got its marker sends readers to what it does not
  have; one that did not get it (a marker of 0) leaves everything after the last marker to the live files, and
  CursorFindsShard excepts just the readers that are sent there. A response may be parted from its request here and
  nowhere else.
- `hasty`: shards cut inside `_ingestInto`. The marker counts the one request that opens the next shard; its own
  number is all that is excepted.
- A number given twice because its line was lost: a new journal numbers on from the lines on disk (`journal.js:22-41`)
  and does not look at the markers. If the last request before a cut lost its lines and the process is restarted,
  its number is given again in a later shard, and the reader of that number is sent to the older one.
- `balked`: an object whose last attempt at a cut failed waits for the next request, not for the queue.

Bounds. Three requests of which any may carry a prompt, with `Threshold` 1, give two cuts made by the writer and one
torn by a crash; `HeldMax` 2 and `LateMax` 1 let a held request be flushed with another and its handle be forgotten
(with the 64 and 64 of the code no flush forgets one by itself). `MaxFaults` 2 gives two of reset, switch, crash,
failed cut and lost line, hence up to three session objects; three faults, and four requests with one, were explored
once and hold as well. The proofs are for any bounds.

## 7. Ask flow

Modules: `AskFlow`, `AskFlow_proofs`.

One question. The hook process of Claude (`bridge`) posts it, is told to poll, polls until it gets an outcome, posts
it once more if the server does not know it, and falls back to the terminal after that. The server keeps an entry in
memory (`mem`) and a row in `ask-store.json` (`row`), which other viewer instances share. A store operation waits for
its turn and the file lock (`ops`), runs (`Store`) and its caller goes on in a later step (`Resume`), with what it
`got`.

| Action | Code |
|---|---|
| Post, Acknowledge, PluginAnswers | `askHook` up to the plugins, and after them |
| PluginResolves | `resolveAsk()` of the plugin interface |
| Poll, Resume, WaitEnds | `askHookResult` up to the store, after it, and the end of its wait |
| Receive, Break, Killed, HangUp | the bridge reads a response, loses its connection, is ended by Claude; `askHookCancel` |
| Say, SayElsewhere | answer and cancel from a browser of this instance and of another one |
| Reap, Sweep, Drop | `reapDeadAskWaiters`, `sweepOrphanedDiskAsks`, the timer of 24 hours and the eviction of old entries |
| Store, StoreFails | `setEntry`, `deleteEntry`, `markAnswered`, `markCancelled`, `consumeIfFinal`, and the errors they swallow |
| Crash | the server dies and starts again; a sweep is due |

Abstracted: questions and answers are who gave them (`by`); the file lock excludes; a persist that `setImmediate`
delays is called at the end of the handler; timers are not timed, but the 90 seconds of silence after which the reaper
takes a bridge for dead outlast the store operations that are waiting (`Silent`). Questions are not dropped while
plugins are asked. Not modelled: bridges in long-poll mode, the limits on retries after server errors, several
questions at once, pruning of the store.

Properties. AnswerSurvives: the very answer whose sender was told that it counted, and not just some outcome, is on
disk, in the hands of the poll's handler, in a response or reported. `lost` is the set of outcomes that were taken
from disk and not delivered after that: the response was cut off, the server died with it, or the row was deleted by
a plugin's late answer or for a dropped question (`ask-store.js:186` deletes before the response is sent). A plugin
that answers a question whose answer has been recorded thus counts as losing that answer, which is what it does.
OnlyFirstOutcomeHeard: of browsers here and elsewhere, reaper, sweep and the bridge's own cancel, the first outcome
recorded is the one the bridge reports, cancels included. It excepts a plugin's answer, an open POST that the server
refuses with a cancel, an outcome that was lost, and `overruled`: a browser's cancel of a question in memory wakes
the bridge whatever the store says (`server.js:2872`). BridgeIsServed: a bridge that waits has somebody to answer
it, its POST is held, its poll listens or is about to look at the row, or a response is on its way.
DeadQuestionCloses: a question whose bridge is gone is closed.

Bounds. Two browsers here and one at another instance, of which two speak, are the fewest for a race within and one
across instances. `MaxFaults` 1 gives one crash, break, failed write, drop or `resolveAsk` on top of kills and reaps
at any moment. Fairness: the event loop goes on (Store, Resume) and its timers fire (WaitEnds, Reap, Sweep). Nothing
makes a plugin return, a browser speak or a bridge poll. DeadQuestionCloses therefore excepts a write that failed
and a sweep that was skipped. A sweep is skipped when another instance runs, and also on Windows, when `lsof` fails,
and with a port range of one's own (`ask-reaper.js:141, 149`, `server.js:1448-1450`); the model has one step for all
of these. `CHECK_DEADLOCK FALSE` because a question ends.

## 8. Scheduled tasks

Modules: `ScheduledTasks`, `MCScheduledTasks` (symmetry), `ScheduledTasks_proofs`.

One task in `preferences.json` and the history of its runs in a file of its own, several viewer processes with a
scheduler each. A call reads the clock (`Tick`, `Ask`, `Start`), waits for the file lock (`calls`) and works on the
task under it (`Locked`): `ClaimTask` claims a due run and advances the schedule in one write, reports what is too
old as missed, or takes over an abandoned claim; `SweepClaims` is that of a scheduler that starts; `Edit` is a
pause, a resume, a save or a new time. A run ends (`Finish`), appends to the history (`Record`) and then writes its
result to the task if it still holds the claim (`Finalize`); either write may fail, and the claim stays
(`EndFails`). Entries of missed and interrupted runs are appended after the lock (`FlushRun`). `Stop` ends a
scheduler and leaves its runs, `Die` a process with all it does.

Abstracted: times are small numbers and a cron expression is the set of times it names; ids of runs are numbers; the
file locks exclude. Not modelled: creating and deleting tasks, changing the kind of a task or the expression of a
recurring one, the entry "skipped, paused" that a resume adds to the history (`scheduled-task-store.js:297-302,
311`; it names no claimed run), the executor, the caps on spawned runs and on the history, the old task format, a
corrupt store.

Properties: a scheduled time is taken by one run at most, on time, late, on demand or as missed, whichever process
ticks, dies or takes over (NoTimeTakenTwice), and the history has one entry for a run with which the result shown on
the task agrees (HistoryAgrees), so that a run that was declared interrupted does not come back as a success. Two runs
of the task overlap only if the older one is overdue: longer under way than a claim lives, or of a process that
started its scheduler anew (OverlapOnlyWhenOverdue); this needs that the process which finds a claim abandoned read
its clock before, and that nobody but the holder gives it back. NoTimeTakenTwice excepts an edit whose clock was read
before the time was taken: it arms it again (a hazard without a property).

Bounds. Two interchangeable processes and two runs let a claim be taken over once; scheduled times 1 and 3 on a clock
up to 3 with a window and a staleness of 1 give runs on time, late, missed and abandoned by age while the process
lives. `MaxCalls` 1 and `MaxFails` 1 give one call of the user or stop and one failed write. `Jitter` is 0, its
effect being only that a run is due later. No liveness is claimed: a run at its time needs a live process whose
scheduler is on. `CHECK_DEADLOCK FALSE` because all processes may be dead.

## Runs

`CHECK_DEADLOCK FALSE` throughout, for the reasons given above. Distinct states are those of a
complete exploration; the violation runs stop at their counterexample.

| Run | Module | Distinct states | Question and answer |
|---|---|---|---|
| ChatQueueSafety | MCChatQueue | 959,164 | Three messages, cap two, one /resume, one clear or stop, every interleaving with timers and completions: no message is lost, doubled or pasted twice; every dispatch has one owner; refinement of MessageFifo |
| ChatQueueLiveness | MCChatQueue | 32,864 | Two messages, no stop/start cycle: pastes are single-flight, dispatches only move on and end, the queue never wedges |
| ChatQueueResume | MCChatQueue | violated | ResumeSettles: a `/resume` that waits for idle is forgotten by `clear()` and never settles |
| ChatQueueStop | MCChatQueue | violated | SingleFlight: a completion from before `stop()` frees the flag of a paste started after it |
| WriteQueue | WriteQueue | 372,736 | Five bytes, two files, failing appends, close from exit handlers: no loss, no stranding, and refinement of AppendLog (order, true reports) |
| SessionClaim | SessionClaim | 156,484 | Three processes claim, write unclaimed, release, fail and die: exclusion unless stolen, visibility, recovery from dead owners, wait-freedom, termination |
| SessionClaimRace | SessionClaim | violated | OneWinner: two processes that judge the same owner dead both win |
| V2Shard | V2Shard | 1,897,689 | Three requests, held, completed, given up, over cuts of both kinds, and two of: lost line, reset or switch at any moment, failed cut, crash, also between renames: numbers, whole requests, markers, counts, armed cuts |
| V2ShardTurns | V2Shard | violated | ShardsHoldWholeTurns: a cut is made before a follow-up of the prompt that armed it |
| V2ShardReset | V2Shard | violated | NumbersGivenOnce: after a reset with a line still queued, the next session object gives its number again |
| AskFlow | AskFlow | 548,203 | One question, three browsers in two instances, plugins, kills and one fault: the very answer that counted is kept, the first outcome is heard, a waiting bridge can be reached, dead questions close |
| ScheduledTasks | MCScheduledTasks | 4,140,831 | One task, two processes, two runs, takeovers and deaths: no time runs twice, history and task agree, runs overlap only when the older is overdue |

Each property of a passing run has a mutant: a definition replaced by a plausible bug (the operators commented
`Mutant:`, listed in PROJECT.json), under which TLC finds the property violated; ImplementsLog, which says several
things at once, has three.

### Findings

1. `injectResumeCommand`'s promise never settles when `clear()` or `stop()` cancels its poll (ChatQueueResume).
2. After stop/start in one process, a late completion breaks single-flight injection (ChatQueueStop).
3. Two processes may both adopt a dead-owned session dir (SessionClaimRace).
4. A cut armed by the last prompt of a shard is made before the next request of any kind, so a shard may begin in
   the middle of a turn, against the comments at `shard-manager.js:38` and `v2-writer.js:565` (V2ShardTurns).
5. A reset does not wait for queued lines: the journal made next on the same files gives their numbers a second time,
   against `journal.js:25-28` (V2ShardReset).

Seen while reading, without a run: `async-write-queue.js:50-52` says that on disk a conversation line comes before
the journal line that refers to it, but a batch writes its groups in the order of their files' first entries, so
[J1, C2, J2] writes J2 before C2 (`v2-writer.js:11-17` documents the weaker order readers rely on). The comment at
`chat-queue.js:121` says that unscoped items never match a scoped filter; with a filter of an instance key alone
they do (line 104), which the model follows. In the write queue: a `close()` in the turn of an append, on a queue
that has drained before, awaits the old drain and returns early (`async-write-queue.js:93-98`, 118, against the
comment at line 100); no caller does so. In the V2 writer: a held request that ends before it is flushed is counted
for ever (`v2-writer.js:614`), a number may be given again that a marker covers, a cut parked by a dropped session
object renames the files under the open requests of the next one (`v2-writer.js:976`), and the cut inside
`_ingestInto` marks a shard with the number of the request that opens the next one (`v2-writer.js:685-690`, against
`shard-manager.js:46-47`), all section 6. In the ask flow: the boot sweep cancels the question of a bridge that
survived the restart (`ask-reaper.js:157`); a browser's cancel overrides the answer of another instance's browser
(`server.js:2872`, against the first-wins comments at `server.js:2887-2889` and `ask-store.js:119`); a browser's
answer that the store refuses ends an open POST with a cancel; `resolveAsk` loses the answer of a bridge that polls
(`server.js:1739`). In the scheduled tasks: an edit that waited for the lock arms a time again that was taken
meanwhile (`scheduled-task-store.js:256`).

## 9. Proofs

Assumptions: `AnchorsAssumption`, `BoundsAssumption` (ChatQueue: the bounds are natural numbers, anchors have the
shape of anchors), `QueueAssumption` (WriteQueue: there is a file, sizes, chunk and mark are positive),
`NoPidAssumption` (SessionClaim: the placeholder is no pid), `ShardAssumption` (V2Shard: bounds are natural numbers,
the threshold is positive), `AskAssumption` (AskFlow: the browsers elsewhere are browsers, and none of the other
parties is one), `TasksAssumption` (ScheduledTasks: the scheduled times are times, bounds and durations are natural
numbers). Nothing else; in particular no bound is fixed. One theorem has a premise of its own: SingleFlight is proved
for `MaxStops = 0`, because with a stop and a start in one process it does not hold (run ChatQueueStop).

**ChatQueue.** `TypeCorrect` is inductive by itself once the index of the dispatch is typed as a natural number,
which needs that removals ahead of it shift it and no others. The safety proof uses

    IInv == TypeOK /\ Numbered /\ EachMessageInOnePlace /\ DispatchHasOneOwner /\ CompletionsMatchDispatch

The last three depend on one another: a failed write may put its message back only because the completion matches the
dispatch; it matches because no other write of that generation exists; none does because each new dispatch starts from
an empty slot whose owner is gone. `Numbered` (exactly the accepted ids have a fate) is what makes an enqueued id new.
NoSecondPaste follows from it in one state; InjectingHasWriter is an induction of its own; ParkedMeansNoDrain is a
fact about steps. Order and cap are an induction on top of `IInv`, `Arranged`: the queue is ascending, the index of
the dispatch splits it into what is older and what is newer than the dispatched message, and the two together stay
within the cap. A message that comes back is inserted at that index, so the order is that of arrival again; removals
ahead of the index shift it. From there the refinement (`ImplementsFifoHolds`) takes one thing more,
`DrainsTakeHeads`: the message that a drain is pasting was the head, index 0, and nothing comes ahead of it, so that
what a completion sends is the head of the snapshot or was picked. The invariant is `Ordered`, the conjunction of the
three; each step is then shown to be an Accept, a Leave or a stutter of MessageFifo. SnapshotInArrivalOrder and
CapCountsDispatch, which the refinement implies, are theorems of their own and no longer checked by a run.
DispatchOnlyAdvances is proved with `DispatchRank` as the measure: for each action, either the dispatch is another, or
the timer, poll and writes that own it are untouched, or the rank decreases. What DispatchEnds adds to it is only that
timers fire and writes complete. SingleFlight is the invariant `OneFlight`: a paste under way has set the flag, and
there is one. `FifoLemmas` holds what InsertAt, RemoveAt and dropping heads do to the set of a duplicate-free sequence
and to its order; `InjectHeadEffect`, `ReinsertedLemma` and the `*Place` lemmas turn the shared operators into set
equations, and each action then has one lemma.

**WriteQueue.** All safety invariants, AppendsInOrder and the refinement `Spec => ImplementsLog`. The checked
invariants are not inductive: `Ordered` (what is queued is later than everything not queued; what is left of a file's
group is later than what the file holds) is needed for order, `FlushesGrow` (who waits now asked for no less than who
was answered before) for the flushes of AppendLog, `Phases` (no batch between drains; a close that awaits an old drain
finds the queue idle; sync mode never drains) for close.

**SessionClaim.** `Exclusion` says that, until a theft, the lock is that of every claimant and the torn file that of
whoever is about to write it, so that anybody else who unlinks it, recycling or releasing with a claim or without,
steals it; `ClearCalls` follows an undisturbed call step by step; `CallersLive` and `IdleStartsOver` are
bookkeeping. CallsAreShort is proved with the measure `Rank`, attempts left times four and the steps left of this
one; it is what CallsReturn rests on, apart from the fairness.

**V2Shard.** No theorem assumes when a reset comes. The checked properties rest on `Trace`: what has a line or a
handle was given a number that the newest session object has counted up to, or that its seed has seen on disk,
unless it is `unseen` (`Arrivals`, `Objs`, `Numbers`). `Handles` keeps the handles of held requests apart from those
of callers and counted; `Live` says that what may still write has its lines in the live files unless it is `parted`,
which is why no other cut parts them: an object's own cut finds none of its requests open (`OpenIsCounted`) and the
queue empty. CursorFindsShard is a second induction on top, `Marks`: the marker of a shard is not before what the
shard and those ahead hold (`Covers`) and is before all that came after its cut (`Beyond`), with the exceptions of
section 6; it needs that numbers are given without gaps, so that a marker beyond a later request's number names
another request that had it before (`Given`), and that what is not logged yet has none (`Fresh`). The half of
CountCoversOpen that says nothing stays counted, `OverIsReturned`, is an induction of its own; it says nothing of
held requests, which a foreign reset or an early end may leave counted (hazard at `v2-writer.js:614`).

**AskFlow.** The invariant follows an outcome through the places it can be in, `Kept`: the row, what the store
returned, the response, the result, or `lost`. `Survival` says that the first outcome and every answer that counted
are in one of them, and `Delivered` that what a browser, the reaper, the sweep or the bridge wrote and is on its way
is the first outcome. They need that one response at most is on its way and belongs to one request of the bridge
(`OneRequest`, `OnePoll`), so that no outcome is replaced by another; that an operation in the queue says what its
browser said (`Queued`), that between `Store` and `Resume` the row is what was just written (`Served`), and that a
row has an outcome only after one was written (`Recorded`). BridgeIsServed is an induction on top of `IInv`: what
takes the held POST, the listener or the look in the queue away leaves a response or a listener behind.

**ScheduledTasks.** NoTimeTakenTwice is inductive with `Ahead`: the next time of the task is after every time taken,
so a claim takes new ones. HistoryAgrees needs `Ids` (run ids are new) and `ClaimedRun` (a run whose claim stands was
not declared interrupted, and has at most its own entry in the history). OverlapOnlyWhenOverdue is a second induction,
`Sole`: no call has a clock or a scheduler start that is still to come (`CallsAreOld`), neither has a claim
(`ClaimIsKnown`), a run that is not overdue still has its claim, and no run is later than the claim
(`RunsHaveClaims`). Every action that replaces or drops a claim then finds all runs overdue.

Every invariant and action property that a passing run checks is also a theorem. Only model-checked: liveness
(DispatchEnds, QueueNeverWedges, EveryByteSettles, CallersHearBack, CallsReturn, DeadQuestionCloses), which is outside
what the proof system handles, as are ENABLED and induction over recursive definitions. For DispatchEnds and
CallsReturn the measure is proved, and what is left to the runs is fairness; none of the modules uses a recursive
operator.

## 10. Not modelled

Of the components modelled in part, sections 6 to 8 say what is left out. Not modelled at all:

- **V2 conversation log and replay** (`server/lib/v2/conversation-store.js`, `server/lib/v2/replay.js`). What ingest
  writes and replay folds are message lists and hashes: a property about them is about data, not order, and the
  package's own round-trip tests compare the two on it.
- **V2 readers** (`server/lib/v2/adapter.js`, `server/lib/v2/live-feed.js`, `server/lib/v2/session-select.js`, ...).
  Read-side synthesis of the log: data transformation over files. The choice of the shard a page is read from is
  Owner in V2Shard.
- **V1 to V2 conversion** (`server/lib/v2/convert.js`, `server/lib/v2/convert-manager.js`,
  `server/lib/v2/convert-worker.js`, ...). One-off migration of old logs.
- **File locks and JSON stores** (`server/lib/async-file-lock.js`, `server/lib/json-store.js`,
  `server/lib/prefs-store.js`, ...). The lock is taken by age of the file, against a clock, and the exclusion it
  gives depends on how long a holder is silent; AskFlow and ScheduledTasks take it as exclusive, and the hazards at
  its lines say where it is not.
- **Permission bridges** (`server/lib/ask/perm-bridge.js`, `server/lib/ask/perm-request-bridge.js`,
  `server/lib/approval-policy.js`, ...). Long-poll variants of the ask flow without its disk store; policy decisions
  are pure functions.
- **IM bridges** (`server/lib/im/im-bridge-core.js`, `server/lib/im/im-lock.js`,
  `server/lib/im/im-process-manager.js`, ...). im-lock repeats the protocol of SessionClaim with a create of its own
  (see the hazard at its line); the platform adapters are network clients. What the chat queue sees of a bridge (it
  may hold the PTY at any time) is in ChatQueue's probes.
- **HTTP proxy and retries** (`server/proxy.js`, `server/lib/proxy/proxy-retry.js`,
  `server/lib/proxy/proxy-errors.js`, ...). Serial, staggered and racing retries with cancellation of the losers;
  every attempt is a network exchange of the vendor's HTTP stack.
- **Interceptor** (`server/interceptor.js`, `server/lib/interceptor-core.js`, `server/lib/log-stream.js`). Captures
  API traffic and feeds the V2 writer: its calls are the requests of V2Shard, which come, end and are given up at
  any time.
- **Server and WebSocket routing** (`server/server.js`, `server/lib/ws-mux.js`, `server/lib/ws-backpressure.js`,
  ...). Wiring of the other components, and streams with back-pressure. The handlers of questions are in AskFlow.
- **PTY management** (`server/pty-manager.js`, `server/scratch-pty-manager.js`,
  `server/lib/pty-flood-coalescer.js`). Native terminal I/O. ChatQueue models a PTY write by what its caller sees:
  refused at once, or a later completion that succeeds or fails.
- **SDK mode** (`server/lib/sdk-manager.js`, `server/lib/sdk-adapter.js`, `server/lib/sdk-session-index.js`). Drives
  the vendor's agent SDK; its own queue replaces the chat queue in that mode.
- **Plugins** (`server/lib/plugin-loader.js`, `server/lib/plugin-runtime.js`, `server/lib/plugin-manager.js`, ...).
  Hosting of third-party code. That plugins may resolve or answer a question is in AskFlow.
- **Watchers and hook bridges** (`server/lib/log-watcher.js`, `server/lib/resume-watchdog.js`,
  `server/lib/turn-end-bridge.js`, ...). Polling and one-shot notifications; turn ends enter ChatQueue as OnTurnEnd,
  which may come at any time and repeatedly.
- **Core library** (`packages/core/delta-reconstructor.js`, `packages/core/session-boundary.js`,
  `packages/core/contentFilter.js`, ...). Pure functions over request data.
- **File, git and search services** (`server/routes/files-fs.js`, `server/routes/files-content.js`,
  `server/routes/git.js`, ...). File system and subprocess I/O behind HTTP.
- **Accounts, configuration and prompts** (`server/lib/auth.js`, `server/lib/credential-vault.js`,
  `server/lib/launch-config.js`, ...). Configuration data; its writers go through the JSON store.
- **Web client** (`apps/web/utils/wsMuxTransport.js`, `apps/web/components/chat/controllers/askFlowController.js`).
  Mostly rendering; the ask controller is the browser side of AskFlow, the transport that of the stream mux.
- **Desktop shell** (`apps/electron/electron/main.js`, `apps/electron/electron/tab-worker.js`). Electron windows and
  child processes around the same server.

The two that would add most are the file locks, whose exclusion AskFlow and ScheduledTasks take for granted (a holder
silent for longer than the stale limit breaks it, see the hazards at `async-file-lock.js`), and two V2 writers of one
session dir during a handover of the claim (the hazard at `v2-writer.js:303`).
