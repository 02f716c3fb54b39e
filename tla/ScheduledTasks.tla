---------------------------- MODULE ScheduledTasks ----------------------------
(***************************************************************************)
(* One scheduled task and the viewer processes that may run it             *)
(* (src/packages/app/server/lib/scheduled-task-scheduler.js,               *)
(* scheduled-task-store.js, scheduled-task-runs-store.js).                 *)
(*                                                                         *)
(* The task with its schedule and the claim of the process that runs it is *)
(* in preferences.json, the history of runs in a file of its own; each is  *)
(* changed under a file lock.  A call reads the clock before it waits for  *)
(* the lock (calls), works on the task under it (one action), and appends  *)
(* what it has for the history afterwards (flushes).                       *)
(*                                                                         *)
(* Times are small numbers; a recurring schedule is the set Occurs of the  *)
(* times its cron expression names.                                        *)
(***************************************************************************)
EXTENDS Integers, Sequences, FiniteSets

CONSTANTS
  Procs,    \* viewer processes; one that dies does not come back
  Occurs,   \* the times of the recurring schedule
  Jitter,   \* how long after its time a recurring task is due
  Window,   \* CATCH_UP_WINDOW_MS: what is missed longer is not run
  Stale,    \* STALE_CLAIM_MS: a claim of this age counts as abandoned
  MaxTime,  \* bound: the clock
  MaxRuns,  \* bound: claims made
  MaxCalls, \* bound: edits, runs on demand, scheduler stops
  MaxFails  \* bound: failed writes of the history and the task

ASSUME TasksAssumption ==
  /\ Occurs \subseteq 1..MaxTime /\ MaxTime \in Nat /\ Jitter \in Nat
  /\ Window \in Nat /\ Stale \in Nat
  /\ MaxRuns \in Nat /\ MaxCalls \in Nat /\ MaxFails \in Nat

VARIABLES
  clock,
  task,     \* kind, at, enabled, next, claim and last of the stored task
  history,  \* the runs file, oldest first
  alive,    \* processes that live
  on,       \* those whose scheduler runs
  gen,      \* how often a process started its scheduler (_instanceId)
  calls,    \* calls that read the clock and wait for the lock
  jobs,     \* claimed runs under way
  flushes,  \* entries on their way to the history
  runs,     \* run ids given out
  fired,    \* history: <<time, run>> of the scheduled times taken by a run
  asked,    \* how many user calls there were
  fails     \* how many writes failed

procs == <<alive, on, gen>>
vars == <<clock, task, history, procs, calls, jobs, flushes, runs, fired, asked, fails>>

Never == 0                 \* no next run
NoRun == [run |-> 0, status |-> "none"]
NoClaim == [run |-> 0, at |-> 0, proc |-> "none", gen |-> 0]

Times == 1..MaxTime
Success(status) == status = "dispatched"

-----------------------------------------------------------------------------
(* The schedule *)

\* nextBaseFor(): the first scheduled time after t.
NextAfter(t) ==
  LET later == IF task.kind = "once" THEN {task.at} \cap (t + 1)..MaxTime
               ELSE {o \in Occurs : o > t}
  IN IF later = {} THEN Never ELSE CHOOSE o \in later : \A x \in later : o <= x

JitterOf == IF task.kind = "once" THEN 0 ELSE Jitter
Due(now) == task.next # Never /\ task.next + JitterOf <= now

\* The scheduled times that a run at now stands for: the due one and those
\* missed since.
Taken(now) == IF task.kind = "once" THEN {task.at}
              ELSE {o \in Occurs : task.next <= o /\ o <= now}

\* The latest of them is too old: it is reported as missed.
TooLate(now) ==
  IF task.kind = "once" THEN now - task.at > Window
  ELSE {o \in Occurs : now - Window < o /\ o <= now} = {}

-----------------------------------------------------------------------------
(* Claims *)

Held == task.claim # NoClaim
\* The claim is that of a live process and not too old.
Active(now) == Held /\ task.claim.proc \in alive /\ now - task.claim.at < Stale

\* The entry that the history has of the claimed run, if any.
Ended == {i \in DOMAIN history : history[i].run = task.claim.run}

\* A once task whose run is in the history gets its result from there.
Restores == task.kind = "once" /\ Ended # {}

\* _reclaimClaim(): the task without its claim.
Reclaimed ==
  IF Held /\ Restores
  THEN LET e == history[CHOOSE i \in Ended : TRUE] IN
       [task EXCEPT !.claim = NoClaim, !.last = e,
                    !.enabled = @ /\ Success(e.status)]
  ELSE [task EXCEPT !.claim = NoClaim]

Flush(p, run, status) == [proc |-> p, entry |-> [run |-> run, status |-> status]]

Interrupted(p) ==
  IF Held /\ ~Restores THEN {Flush(p, task.claim.run, "interrupted")} ELSE {}

\* The claim and the run that a call makes; it names the scheduler that made it.
Claim(c) == [run |-> runs + 1, at |-> c.now, proc |-> c.proc, gen |-> c.gen]
Job(c) == [run |-> runs + 1, at |-> c.now, proc |-> c.proc, stage |-> "running",
           status |-> "none"]

\* Mutant: the schedule is advanced when the run ends, not when it is claimed.
Unadvanced(now) == task.next

\* The next time after a claim: past all that the claim stands for.
Advanced(now) == IF task.kind = "once" THEN Never ELSE NextAfter(now)

Fires(now) == fired' = fired \cup {<<o, runs + 1>> : o \in Taken(now)}

\* claimTask() on demand: also of a disabled task; a due time is used up.
ClaimManual(c) ==
  LET used == Reclaimed.enabled /\ Due(c.now) IN
  /\ task' = [Reclaimed EXCEPT !.claim = Claim(c),
                               !.next = IF used THEN Advanced(c.now) ELSE @]
  /\ IF used THEN Fires(c.now) ELSE UNCHANGED fired
  /\ jobs' = jobs \cup {Job(c)}
  /\ flushes' = flushes \cup Interrupted(c.proc)
  /\ runs' = runs + 1

\* claimTask() of a tick: a due task is claimed and its schedule advanced in one
\* write, or its times are given up as missed.
ClaimDue(c) ==
  /\ Reclaimed.enabled /\ Due(c.now)
  /\ Fires(c.now) /\ runs' = runs + 1
  /\ IF TooLate(c.now)
     THEN /\ task' = [Reclaimed EXCEPT !.enabled = task.kind # "once",
                                       !.next = Advanced(c.now)]
          /\ flushes' = flushes \cup Interrupted(c.proc)
                                \cup {Flush(c.proc, runs + 1, "missed")}
          /\ UNCHANGED jobs
     ELSE /\ task' = [Reclaimed EXCEPT !.claim = Claim(c), !.next = Advanced(c.now)]
          /\ flushes' = flushes \cup Interrupted(c.proc)
          /\ jobs' = jobs \cup {Job(c)}

\* A tick that comes too late has at most cleared an abandoned claim.
ClaimNothing(c) ==
  /\ ~(Reclaimed.enabled /\ Due(c.now))
  /\ task' = Reclaimed /\ flushes' = flushes \cup Interrupted(c.proc)
  /\ UNCHANGED <<jobs, runs, fired>>

Refused == UNCHANGED <<task, jobs, flushes, runs, fired>>

\* Mutant: a run on demand does not look at the claim.
ManualTakesOver(c) ==
  IF c.do = "now" THEN runs < MaxRuns /\ ClaimManual(c)
  ELSE IF Active(c.now) THEN Refused
  ELSE \/ runs < MaxRuns /\ ClaimDue(c)
       \/ ClaimNothing(c)

ClaimTask(c) ==
  IF Active(c.now) THEN Refused
  ELSE IF c.do = "now" THEN runs < MaxRuns /\ ClaimManual(c)
  ELSE \/ runs < MaxRuns /\ ClaimDue(c)
       \/ ClaimNothing(c)

\* sweepStaleClaims(): claims of dead processes, of an earlier scheduler of this
\* one, and old ones.
SweepClaims(c) ==
  IF ~Held \/ (Active(c.now) /\ ~(task.claim.proc = c.proc /\ task.claim.gen # c.gen))
  THEN Refused
  ELSE /\ task' = Reclaimed /\ flushes' = flushes \cup Interrupted(c.proc)
       /\ UNCHANGED <<jobs, runs, fired>>

-----------------------------------------------------------------------------
(* Edits *)

\* The next time is computed anew from the time the edit came in; what was taken
\* after that may be taken again.
Rearm(t, now) ==
  /\ task' = [t EXCEPT !.next = NextAfter(now)]
  /\ fired' = {f \in fired : f[1] <= now}

\* updateTask(): the schedule is sent with every save; a new time of a once task
\* lies in the future.
Edit(c) ==
  /\ \/ /\ c.do = "pause" /\ task.enabled
        /\ task' = [task EXCEPT !.enabled = FALSE] /\ UNCHANGED fired
     \/ c.do = "resume" /\ ~task.enabled /\ Rearm([task EXCEPT !.enabled = TRUE], c.now)
     \/ c.do = "save" /\ Rearm(task, c.now)
     \/ /\ c.do = "move" /\ task.kind = "once"
        /\ \E at \in Times :
             /\ at > c.now /\ fired' = {f \in fired : f[1] <= c.now}
             /\ task' = [task EXCEPT !.at = at, !.next = at]
  /\ UNCHANGED <<jobs, flushes, runs>>

-----------------------------------------------------------------------------
(* The processes *)

Busy(p) == \E c \in calls : c.proc = p /\ c.do = "tick"

Call(p, do) == [proc |-> p, do |-> do, now |-> clock, gen |-> gen[p]]

\* A tick that sees the task due, with the clock it read; one at a time.
Tick(p) ==
  /\ p \in on /\ ~Busy(p) /\ task.enabled /\ Due(clock)
  /\ calls' = calls \cup {Call(p, "tick")}
  /\ UNCHANGED <<clock, task, history, procs, jobs, flushes, runs, fired, asked, fails>>

\* The user edits the task, or runs it now where a scheduler runs.
Ask(p, do) ==
  /\ p \in alive /\ (do = "now" => p \in on) /\ asked < MaxCalls
  /\ asked' = asked + 1
  /\ calls' = calls \cup {Call(p, do)}
  /\ UNCHANGED <<clock, task, history, procs, jobs, flushes, runs, fired, fails>>

\* The scheduler starts and sweeps.
Start(p) ==
  /\ p \in alive \ on
  /\ on' = on \cup {p} /\ gen' = [gen EXCEPT ![p] = @ + 1]
  /\ calls' = calls \cup {[Call(p, "sweep") EXCEPT !.gen = gen[p] + 1]}
  /\ UNCHANGED <<clock, task, history, alive, jobs, flushes, runs, fired, asked, fails>>

\* Runs under way and calls made go on.
Stop(p) ==
  /\ p \in on /\ on' = on \ {p}
  /\ asked < MaxCalls /\ asked' = asked + 1
  /\ UNCHANGED <<clock, task, history, alive, gen, calls, jobs, flushes, runs, fired, fails>>

\* A call gets the lock.  A move to a time in the past is refused.
Locked(c) ==
  /\ c \in calls /\ calls' = calls \ {c}
  /\ \/ c.do \in {"tick", "now"} /\ ClaimTask(c)
     \/ c.do = "sweep" /\ SweepClaims(c)
     \/ Edit(c)
     \/ c.do = (IF task.enabled THEN "resume" ELSE "pause") /\ Refused
     \/ c.do = "move" /\ Refused
  /\ UNCHANGED <<clock, history, procs, asked, fails>>

\* The executor is done.  A run that lost its claim records nothing.
Finish(j, status) ==
  /\ j \in jobs /\ j.stage = "running"
  /\ ~\E f \in flushes : f.proc = j.proc /\ f.entry.run < j.run
  /\ jobs' = (jobs \ {j}) \cup
       (IF task.claim.run = j.run THEN {[j EXCEPT !.stage = "ended", !.status = status]}
        ELSE {})
  /\ UNCHANGED <<clock, task, history, procs, calls, flushes, runs, fired, asked, fails>>

\* Mutant: an entry is appended even if the run has one.
AppendAlways(entry) == Append(history, entry)

\* appendRuns(): one entry for a run.
Appended(entry) ==
  IF \E i \in DOMAIN history : history[i].run = entry.run THEN history
  ELSE Append(history, entry)

\* finalizeTask(), first half: the history before the task.
Record(j) ==
  /\ j \in jobs /\ j.stage = "ended"
  /\ history' = Appended([run |-> j.run, status |-> j.status])
  /\ jobs' = (jobs \ {j}) \cup {[j EXCEPT !.stage = "recorded"]}
  /\ UNCHANGED <<clock, task, procs, calls, flushes, runs, fired, asked, fails>>

\* The append, or the write of the task after it, fails: the claim is kept.
EndFails(j) ==
  /\ j \in jobs /\ j.stage \in {"ended", "recorded"} /\ fails < MaxFails
  /\ jobs' = jobs \ {j} /\ fails' = fails + 1
  /\ UNCHANGED <<clock, task, history, procs, calls, flushes, runs, fired, asked>>

\* Mutant: the run that ends takes the claim for its own.
AnyClaim(j) == Held

OwnClaim(j) == task.claim.run = j.run

\* finalizeTask(), second half: only the run that holds the claim writes its result
\* and gives the claim back; a once task that did not succeed is disabled.
Finalize(j) ==
  /\ j \in jobs /\ j.stage = "recorded" /\ jobs' = jobs \ {j}
  /\ IF OwnClaim(j)
     THEN task' = [task EXCEPT !.claim = NoClaim,
                               !.last = [run |-> j.run, status |-> j.status],
                               !.enabled = @ /\ (task.kind = "once" => Success(j.status))]
     ELSE UNCHANGED task
  /\ UNCHANGED <<clock, history, procs, calls, flushes, runs, fired, asked, fails>>

\* _flushRuns(): a failure is reported and forgotten.
FlushRun(f) ==
  /\ f \in flushes /\ flushes' = flushes \ {f}
  /\ \/ history' = Appended(f.entry) /\ UNCHANGED fails
     \/ fails < MaxFails /\ fails' = fails + 1 /\ UNCHANGED history
  /\ UNCHANGED <<clock, task, procs, calls, jobs, runs, fired, asked>>

\* A process dies with all it was doing.
Die(p) ==
  /\ p \in alive /\ alive' = alive \ {p} /\ on' = on \ {p}
  /\ calls' = {c \in calls : c.proc # p} /\ jobs' = {j \in jobs : j.proc # p}
  /\ flushes' = {f \in flushes : f.proc # p}
  /\ UNCHANGED <<clock, task, history, gen, runs, fired, asked, fails>>

Pass ==
  /\ clock < MaxTime /\ clock' = clock + 1
  /\ UNCHANGED <<task, history, procs, calls, jobs, flushes, runs, fired, asked, fails>>

-----------------------------------------------------------------------------
Init ==
  /\ clock = 0 /\ history = <<>> /\ alive = Procs /\ on = {} /\ gen = [p \in Procs |-> 0]
  /\ \E kind \in {"once", "recurring"}, first \in Occurs :
       /\ kind = "recurring" => \A o \in Occurs : first <= o
       /\ task = [kind |-> kind, at |-> first, enabled |-> TRUE, next |-> first,
                  claim |-> NoClaim, last |-> NoRun]
  /\ calls = {} /\ jobs = {} /\ flushes = {} /\ runs = 0 /\ fired = {}
  /\ asked = 0 /\ fails = 0

Next ==
  \/ Pass
  \/ \E p \in Procs : Tick(p) \/ Start(p) \/ Stop(p) \/ Die(p)
  \/ \E p \in Procs, do \in {"now", "pause", "resume", "save", "move"} : Ask(p, do)
  \/ \E c \in calls : Locked(c)
  \/ \E j \in jobs, status \in {"dispatched", "failed"} : Finish(j, status)
  \/ \E j \in jobs : Record(j) \/ EndFails(j) \/ Finalize(j)
  \/ \E f \in flushes : FlushRun(f)

Spec == Init /\ [][Next]_vars

-----------------------------------------------------------------------------
\* A scheduled time is taken by one run, be it on time, late, on demand or given
\* up as missed, whichever process ticks, dies or takes over a claim; only an
\* edit that read the clock before that time may arm it again.
NoTimeTakenTwice ==
  \A f, g \in fired : f[1] = g[1] => f[2] = g[2]

\* The history has one entry for a run, and the result that the task shows is the
\* entry of the run that it came from: a run that was declared interrupted does
\* not come back as a success.
HistoryAgrees ==
  /\ \A i, k \in DOMAIN history : history[i].run = history[k].run => i = k
  /\ task.last # NoRun => \E i \in DOMAIN history : history[i] = task.last

\* A claim older than the limit, or one from before its process started its
\* scheduler anew, may be taken over while its run goes on.
Overdue(j) == clock - j.at >= Stale \/ gen[j.proc] > 1

\* claimTask() is "the multi-process mutual-exclusion point": two runs of a task
\* overlap only if the older one is overdue, however many processes tick, run it
\* on demand, read their clocks early, die or sweep (scheduled-task-store.js:364).
OverlapOnlyWhenOverdue ==
  \A j, k \in jobs : j.run < k.run => Overdue(j)
=============================================================================
