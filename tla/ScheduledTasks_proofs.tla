------------------------- MODULE ScheduledTasks_proofs -------------------------
(***************************************************************************)
(* Proofs about ScheduledTasks: a scheduled time is taken by one run       *)
(* (NoTimeTakenTwice), the history agrees with the task (HistoryAgrees),   *)
(* and runs overlap only when the older is overdue                         *)
(* (OverlapOnlyWhenOverdue).                                               *)
(*                                                                         *)
(* The first follows from Ahead: the next time lies after all those taken, *)
(* which claims and edits both see to.  The second follows from what is    *)
(* known of the run that holds the claim: nobody is about to report it as  *)
(* interrupted, and its job knows whether the history has its entry.  The  *)
(* third: a run that is not overdue still has its claim, for who takes it  *)
(* over, read the clock before, and no run is later than the claim.        *)
(***************************************************************************)
EXTENDS ScheduledTasks, WellFoundedInduction, TLAPS

Statuses == {"none", "dispatched", "failed", "interrupted", "missed"}
Stages == {"running", "ended", "recorded"}
Entries == [run : Nat, status : Statuses]
Claims == [run : Nat, at : Nat, proc : Procs \cup {"none"}, gen : Nat]
Tasks == [kind : {"once", "recurring"}, at : Times, enabled : BOOLEAN, next : Nat,
          claim : Claims, last : Entries]
Jobs == [run : Nat, at : Nat, proc : Procs, stage : Stages, status : Statuses]
Flushes == [proc : Procs, entry : Entries]
Dos == {"tick", "sweep", "now", "pause", "resume", "save", "move"}
Calls == [proc : Procs, do : Dos, now : Nat, gen : Nat]

Types ==
  /\ clock \in Nat /\ runs \in Nat
  /\ task \in Tasks /\ history \in Seq(Entries)
  /\ alive \subseteq Procs /\ on \subseteq Procs /\ gen \in [Procs -> Nat]
  /\ calls \subseteq Calls /\ jobs \subseteq Jobs /\ flushes \subseteq Flushes
  /\ fired \subseteq Times \X Nat

\* The next time of a once task is its time; any next time lies after those taken.
Ahead ==
  task.next # Never => /\ task.kind = "once" => task.next = task.at
                       /\ \A f \in fired : f[1] < task.next

\* Run ids are not given out twice; no id is that of no run.
Ids ==
  /\ \A j \in jobs : j.run \in 1..runs
  /\ \A f \in flushes : f.entry.run \in 1..runs
  /\ \A i \in DOMAIN history : history[i].run \in 1..runs
  /\ task.claim = NoClaim \/ task.claim.run \in 1..runs
  /\ \A j, k \in jobs : j.run = k.run => j = k

\* The entry of a claimed run is in the history only after its job put it there.
ClaimedRun ==
  /\ \A f \in flushes : f.entry.run # task.claim.run
  /\ \A j \in jobs : j.run = task.claim.run =>
       IF j.stage = "recorded"
       THEN \E i \in DOMAIN history : history[i] = [run |-> j.run, status |-> j.status]
       ELSE \A i \in DOMAIN history : history[i].run # j.run

IInv == Types /\ Ahead /\ NoTimeTakenTwice /\ Ids /\ ClaimedRun /\ HistoryAgrees

-----------------------------------------------------------------------------
(* The schedule *)

LEMMA NextAfterFact ==
  ASSUME NEW t \in Nat, Types
  PROVE  NextAfter(t) \in Nat /\ (NextAfter(t) # Never => NextAfter(t) > t)
                             /\ (NextAfter(t) # Never /\ task.kind = "once" => NextAfter(t) = task.at)
<1> DEFINE later == IF task.kind = "once" THEN {task.at} \cap (t + 1)..MaxTime
                    ELSE {o \in Occurs : o > t}
<1>1. later \subseteq Nat /\ \A o \in later : o > t
  <2>1. CASE task.kind = "once"
    <3>1. later \subseteq (t + 1)..MaxTime
      BY <2>1
    <3> HIDE DEF later
    <3>2. \A o \in (t + 1)..MaxTime : o \in Nat /\ o > t
      BY TasksAssumption
    <3> QED
      BY <3>1, <3>2
  <2>2. CASE task.kind # "once"
    <3>1. later = {o \in Occurs : o > t}
      BY <2>2
    <3>2. Occurs \subseteq Nat
      BY TasksAssumption
    <3> HIDE DEF later
    <3> QED
      BY <3>1, <3>2
  <2> QED
    BY <2>1, <2>2
<1>2. task.kind = "once" => \A o \in later : o = task.at
  OBVIOUS
<1>3. NextAfter(t) = IF later = {} THEN Never ELSE CHOOSE o \in later : \A x \in later : o <= x
  BY DEF NextAfter
<1> HIDE DEF later
<1>4. CASE later = {}
  BY <1>3, <1>4 DEF Never
<1>5. CASE later # {}
  <2>1. PICK o \in later : \A x \in later : ~ (<<x, o>> \in OpToRel(<, Nat))
    BY <1>1, <1>5, NatLessThanWellFounded, WFMin
  <2>2. \A x \in later : o <= x
    <3> SUFFICES ASSUME NEW x \in later, x < o PROVE FALSE
      BY <1>1
    <3>1. x \in Nat /\ o \in Nat
      BY <1>1
    <3>2. <<x, o>> \in OpToRel(<, Nat)
      BY <3>1 DEF OpToRel
    <3> QED
      BY <2>1, <3>2
  <2>3. NextAfter(t) \in later
    BY <1>3, <1>5, <2>2
  <2> QED
    BY <1>1, <1>2, <2>3
<1> QED
  BY <1>4, <1>5

LEMMA AdvancedFact ==
  ASSUME NEW now \in Nat, Types
  PROVE  Advanced(now) \in Nat /\ (Advanced(now) # Never => Advanced(now) > now /\ task.kind # "once")
BY NextAfterFact DEF Advanced, Never, Types, Tasks

\* What a run at a due time takes was not taken before, and none of it is later.
LEMMA TakenFact ==
  ASSUME NEW now \in Nat, Types, Ahead, Due(now)
  PROVE  \A o \in Taken(now) : /\ o \in Times /\ o <= now
                                /\ \A f \in fired : f[1] # o
<1>1. task.next # Never /\ task.next <= now /\ task.next \in Nat /\ task.kind \in {"once", "recurring"}
  <2>1. task.next \in Nat /\ JitterOf \in Nat /\ task.kind \in {"once", "recurring"}
    BY TasksAssumption DEF JitterOf, Types, Tasks
  <2> QED
    BY <2>1 DEF Due
<1>2. \A f \in fired : f[1] < task.next /\ f[1] \in Nat
  <2>1. \A f \in fired : f[1] \in Times
    BY DEF Types
  <2> QED
    BY <1>1, <2>1 DEF Ahead, Times
<1>3. CASE task.kind = "once"
  <2>1. Taken(now) = {task.at} /\ task.at = task.next /\ task.at \in Times
    BY <1>1, <1>3 DEF Taken, Ahead, Types, Tasks
  <2> QED
    BY <1>1, <1>2, <2>1
<1>4. CASE task.kind # "once"
  <2>1. Taken(now) = {o \in Occurs : task.next <= o /\ o <= now}
    BY <1>4 DEF Taken
  <2>2. Occurs \subseteq Times /\ \A o \in Times : o \in Nat
    BY TasksAssumption DEF Times
  <2> QED
    BY <1>1, <1>2, <2>1, <2>2
<1> QED
  BY <1>3, <1>4

-----------------------------------------------------------------------------
(* Claims *)

LEMMA ReclaimedFact ==
  ASSUME Types
  PROVE  /\ Reclaimed \in Tasks
         /\ Reclaimed.kind = task.kind /\ Reclaimed.at = task.at
         /\ Reclaimed.next = task.next /\ Reclaimed.claim = NoClaim
         /\ \/ Reclaimed.last = task.last
            \/ \E i \in DOMAIN history : Reclaimed.last = history[i]
<1>1. task \in Tasks /\ NoClaim \in Claims
  BY DEF Types, NoClaim, Claims
<1>2. CASE Held /\ Restores
  <2>1. PICK i \in Ended : i = CHOOSE k \in Ended : TRUE
    BY <1>2 DEF Restores
  <2>2. i \in DOMAIN history
    BY DEF Ended
  <2>3. history[i] \in Entries
    BY <2>2 DEF Types
  <2>4. Reclaimed = [task EXCEPT !.claim = NoClaim, !.last = history[i],
                                !.enabled = @ /\ Success(history[i].status)]
    BY <1>2, <2>1 DEF Reclaimed
  <2>5. (task.enabled /\ Success(history[i].status)) \in BOOLEAN
    OBVIOUS
  <2> QED
    BY <1>1, <2>2, <2>3, <2>4, <2>5 DEF Tasks
<1>3. CASE ~(Held /\ Restores)
  <2>1. Reclaimed = [task EXCEPT !.claim = NoClaim]
    BY <1>3 DEF Reclaimed
  <2> QED
    BY <1>1, <2>1 DEF Tasks
<1> QED
  BY <1>2, <1>3

\* The entry of an interrupted run is that of the claim that was held.
LEMMA InterruptedFact ==
  ASSUME Types, Ids, NEW p \in Procs
  PROVE  /\ Interrupted(p) \subseteq Flushes
         /\ \A f \in Interrupted(p) : f.entry.run \in 1..runs
<1>1. CASE Held /\ ~Restores
  <2>1. Interrupted(p) = {[proc |-> p, entry |-> [run |-> task.claim.run, status |-> "interrupted"]]}
    BY <1>1 DEF Interrupted, Flush
  <2>2. task.claim.run \in 1..runs /\ runs \in Nat
    BY <1>1 DEF Held, Ids, Types
  <2>3. task.claim.run \in Nat
    BY <2>2
  <2>4. [run |-> task.claim.run, status |-> "interrupted"] \in Entries
    BY <2>3 DEF Entries, Statuses
  <2> QED
    BY <2>1, <2>2, <2>4 DEF Flushes
<1>2. CASE ~(Held /\ ~Restores)
  BY <1>2 DEF Interrupted
<1> QED
  BY <1>1, <1>2

-----------------------------------------------------------------------------
(* What steps do to the times *)

LEMMA TimesKept ==
  ASSUME Types, Ahead, NoTimeTakenTwice, fired' = fired,
         task'.kind = task.kind, task'.at = task.at, task'.next = task.next
  PROVE  Ahead' /\ NoTimeTakenTwice'
BY DEF Ahead, NoTimeTakenTwice, Never

LEMMA TimesTaken ==
  ASSUME Types, Ahead, NoTimeTakenTwice, NEW now \in Nat, Due(now), Fires(now),
         task'.kind = task.kind, task'.next = Advanced(now)
  PROVE  Ahead' /\ NoTimeTakenTwice' /\ fired' \subseteq Times \X Nat
<1>1. \A o \in Taken(now) : /\ o \in Times /\ o <= now
                            /\ \A f \in fired : f[1] # o
  BY TakenFact
<1>2. fired' = fired \cup {<<o, runs + 1>> : o \in Taken(now)}
  BY DEF Fires
<1>3. fired \subseteq Times \X Nat /\ runs + 1 \in Nat /\ task.next \in Nat
  BY DEF Types, Tasks
<1>4. \A f \in fired' : f \in fired \/ (f[1] \in Taken(now) /\ f[2] = runs + 1 /\ f \in Times \X Nat)
  BY <1>1, <1>2, <1>3
<1>5. NoTimeTakenTwice'
  BY <1>1, <1>4 DEF NoTimeTakenTwice
<1>6. Advanced(now) \in Nat /\ (Advanced(now) # Never => Advanced(now) > now /\ task.kind # "once")
  BY AdvancedFact
<1>7. task.next # Never /\ task.next <= now
  <2>1. JitterOf \in Nat
    BY TasksAssumption DEF JitterOf
  <2> QED
    BY <1>3, <2>1 DEF Due
<1>8. \A f \in fired : f[1] \in Nat /\ f[1] <= now
  <2>1. \A f \in fired : f[1] \in Nat /\ f[1] < task.next
    BY <1>3, <1>7 DEF Ahead, Times
  <2> QED
    BY <1>3, <1>7, <2>1
<1>9. \A f \in fired' : f[1] \in Nat /\ f[1] <= now
  BY <1>1, <1>4, <1>8 DEF Times
<1>10. Ahead'
  BY <1>6, <1>9 DEF Ahead, Never
<1> QED
  BY <1>3, <1>4, <1>5, <1>10

LEMMA TimesArmed ==
  ASSUME Types, NoTimeTakenTwice, NEW now \in Nat,
         fired' = {f \in fired : f[1] <= now},
         task'.next \in Nat, task'.next # Never => task'.next > now,
         task'.next # Never /\ task'.kind = "once" => task'.next = task'.at
  PROVE  Ahead' /\ NoTimeTakenTwice' /\ fired' \subseteq Times \X Nat
<1>1. fired \subseteq Times \X Nat
  BY DEF Types
<1>2. \A f \in fired' : f \in fired /\ f[1] \in Nat /\ f[1] <= now
  BY <1>1 DEF Times
<1>3. Ahead'
  BY <1>2 DEF Ahead, Never
<1> QED
  BY <1>1, <1>2, <1>3 DEF NoTimeTakenTwice

-----------------------------------------------------------------------------
(* What steps do to the runs *)

\* The claim is gone, and what is reported is old or of a new run.
LEMMA ClaimCleared ==
  ASSUME Types, Ids, ClaimedRun, runs' \in Nat, runs' >= runs, task'.claim = NoClaim,
         jobs' = jobs, history' = history,
         \A f \in flushes' : f \in flushes \/ f.entry.run \in 1..runs'
  PROVE  Ids' /\ ClaimedRun'
<1>1. runs \in Nat /\ task'.claim.run = 0
  BY DEF Types, NoClaim
<1>2. \A r \in 1..runs : r \in 1..runs' /\ r # 0
  BY <1>1
<1>3. \A f \in flushes' : f.entry.run \in 1..runs' /\ f.entry.run # 0
  BY <1>2 DEF Ids
<1>4. \A j \in jobs' : j.run \in 1..runs' /\ j.run # 0
  BY <1>2 DEF Ids
<1>5. \A i \in DOMAIN history' : history'[i].run \in 1..runs'
  BY <1>2 DEF Ids
<1>6. ClaimedRun'
  BY <1>1, <1>3, <1>4 DEF ClaimedRun
<1>7. Ids'
  BY <1>3, <1>4, <1>5 DEF Ids
<1> QED
  BY <1>6, <1>7

\* A new run holds the claim: nobody knows of it but its job.
LEMMA ClaimTaken ==
  ASSUME Types, Ids, ClaimedRun, NEW c, runs' = runs + 1,
         task'.claim = Claim(c), jobs' = jobs \cup {Job(c)},
         history' = history, \A f \in flushes' : f \in flushes \/ f.entry.run \in 1..runs
  PROVE  Ids' /\ ClaimedRun'
<1>1. runs \in Nat /\ task'.claim.run = runs + 1
  BY DEF Types, Claim
<1>2. \A r \in 1..runs : r \in 1..runs' /\ r # runs + 1
  BY <1>1
<1>3. runs + 1 \in 1..runs'
  BY <1>1
<1>4. Job(c).run = runs + 1 /\ Job(c).stage = "running"
  BY DEF Job
<1>5. \A f \in flushes' : f.entry.run \in 1..runs' /\ f.entry.run # runs + 1
  BY <1>2 DEF Ids
<1>6. \A j \in jobs : j.run \in 1..runs' /\ j.run # runs + 1
  BY <1>2 DEF Ids
<1>7. \A i \in DOMAIN history' : history'[i].run \in 1..runs' /\ history'[i].run # runs + 1
  BY <1>2 DEF Ids
<1>8. \A j \in jobs' : j \in jobs \/ j = Job(c)
  OBVIOUS
<1>9. ClaimedRun'
  BY <1>1, <1>4, <1>5, <1>6, <1>7, <1>8 DEF ClaimedRun
<1>10. \A j, k \in jobs' : j.run = k.run => j = k
  BY <1>4, <1>6, <1>8 DEF Ids
<1>11. Ids'
  BY <1>1, <1>3, <1>4, <1>5, <1>6, <1>7, <1>8, <1>10 DEF Ids
<1> QED
  BY <1>9, <1>11

LEMMA HistoryKept ==
  ASSUME HistoryAgrees, history' = history,
         task'.last = task.last \/ \E i \in DOMAIN history : task'.last = history[i]
  PROVE  HistoryAgrees'
BY DEF HistoryAgrees

-----------------------------------------------------------------------------
(* Calls under the lock *)

Frame(c) == calls' = calls \ {c} /\ UNCHANGED <<clock, history, procs, asked, fails>>

LEMMA FrameTypes ==
  ASSUME Types, NEW c, Frame(c), task' \in Tasks, jobs' \subseteq Jobs,
         flushes' \subseteq Flushes, runs' \in Nat, fired' \subseteq Times \X Nat
  PROVE  Types'
BY DEF Types, Frame, procs

LEMMA CallFact ==
  ASSUME Types, NEW c \in calls
  PROVE  c.proc \in Procs /\ c.now \in Nat /\ c.gen \in Nat /\ c.do \in Dos
BY DEF Types, Calls

LEMMA ClaimFact ==
  ASSUME Types, NEW c \in calls
  PROVE  Claim(c) \in Claims /\ Job(c) \in Jobs
<1>1. runs + 1 \in Nat
  BY DEF Types
<1> QED
  BY <1>1, CallFact DEF Claim, Claims, Job, Jobs, Stages, Statuses

LEMMA RefusedKeeps ==
  ASSUME IInv, NEW c, Frame(c), Refused
  PROVE  IInv'
<1>1. Types'
  BY FrameTypes DEF IInv, Refused, Types
<1>2. Ahead' /\ NoTimeTakenTwice'
  BY TimesKept DEF IInv, Refused
<1>3. Ids' /\ ClaimedRun' /\ HistoryAgrees'
  BY DEF IInv, Refused, Frame, Ids, ClaimedRun, HistoryAgrees
<1> QED
  BY <1>1, <1>2, <1>3 DEF IInv

LEMMA ManualKeeps ==
  ASSUME IInv, NEW c \in calls, Frame(c), ClaimManual(c)
  PROVE  IInv'
<1> DEFINE now == c.now
           p == c.proc
           used == Reclaimed.enabled /\ Due(now)
           next == IF used THEN Advanced(now) ELSE task.next
<1>0. /\ Types /\ Ids /\ Ahead /\ NoTimeTakenTwice /\ ClaimedRun /\ HistoryAgrees
      /\ now \in Nat /\ p \in Procs
  BY CallFact DEF IInv
<1>1. /\ Reclaimed \in Tasks
      /\ Reclaimed.kind = task.kind /\ Reclaimed.at = task.at
      /\ Reclaimed.next = task.next
      /\ Reclaimed.last = task.last \/ \E i \in DOMAIN history : Reclaimed.last = history[i]
  BY <1>0, ReclaimedFact
<1>2. /\ task' = [Reclaimed EXCEPT !.claim = Claim(c), !.next = next]
      /\ IF used THEN Fires(now) ELSE fired' = fired
      /\ jobs' = jobs \cup {Job(c)}
      /\ flushes' = flushes \cup Interrupted(p) /\ runs' = runs + 1
  BY <1>1 DEF ClaimManual
<1>3. next \in Nat
  BY <1>0, AdvancedFact DEF Types, Tasks
<1>4. Claim(c) \in Claims /\ Job(c) \in Jobs
  BY <1>0, ClaimFact
<1> HIDE DEF next
<1>5. /\ task' \in Tasks /\ task'.kind = task.kind /\ task'.at = task.at
      /\ task'.next = next /\ task'.claim = Claim(c) /\ task'.last = Reclaimed.last
  BY <1>1, <1>2, <1>3, <1>4 DEF Tasks
<1>6. Interrupted(p) \subseteq Flushes /\ \A f \in Interrupted(p) : f.entry.run \in 1..runs
  BY <1>0, InterruptedFact
<1>7. Ahead' /\ NoTimeTakenTwice' /\ fired' \subseteq Times \X Nat
  <2>1. CASE used
    BY <1>0, <1>2, <1>5, <2>1, TimesTaken DEF next
  <2>2. CASE ~used
    BY <1>0, <1>2, <1>5, <2>2, TimesKept DEF next, Types
  <2> QED
    BY <2>1, <2>2
<1>8. Types'
  BY <1>0, <1>2, <1>4, <1>5, <1>6, <1>7, FrameTypes DEF Types
<1>9. history' = history
  BY DEF Frame
<1>10. \A f \in flushes' : f \in flushes \/ f.entry.run \in 1..runs
  BY <1>2, <1>6
<1>11. Ids' /\ ClaimedRun'
  BY <1>0, <1>2, <1>5, <1>9, <1>10, ClaimTaken
<1>12. HistoryAgrees'
  BY <1>0, <1>1, <1>5, <1>9, HistoryKept
<1> QED
  BY <1>7, <1>8, <1>11, <1>12 DEF IInv

LEMMA DueKeeps ==
  ASSUME IInv, NEW c \in calls, Frame(c), ClaimDue(c)
  PROVE  IInv'
<1> DEFINE now == c.now
           p == c.proc
<1>0. /\ Types /\ Ids /\ Ahead /\ NoTimeTakenTwice /\ ClaimedRun /\ HistoryAgrees
      /\ now \in Nat /\ p \in Procs
  BY CallFact DEF IInv
<1>1. /\ Reclaimed \in Tasks
      /\ Reclaimed.kind = task.kind /\ Reclaimed.at = task.at
      /\ Reclaimed.next = task.next /\ Reclaimed.claim = NoClaim
      /\ Reclaimed.last = task.last \/ \E i \in DOMAIN history : Reclaimed.last = history[i]
  BY <1>0, ReclaimedFact
<1>2. Due(now) /\ Fires(now) /\ runs' = runs + 1
  BY DEF ClaimDue
<1>3. Advanced(now) \in Nat
  BY <1>0, AdvancedFact
<1>4. Claim(c) \in Claims /\ Job(c) \in Jobs
  BY <1>0, ClaimFact
<1>5. Interrupted(p) \subseteq Flushes /\ \A f \in Interrupted(p) : f.entry.run \in 1..runs
  BY <1>0, InterruptedFact
<1>6. history' = history
  BY DEF Frame
<1>7. runs \in Nat /\ runs' \in Nat /\ runs' >= runs
  BY <1>0, <1>2 DEF Types
<1>8. CASE TooLate(now)
  <2> DEFINE missed == Flush(p, runs + 1, "missed")
  <2>1. /\ task' = [Reclaimed EXCEPT !.enabled = (task.kind # "once"), !.next = Advanced(now)]
        /\ flushes' = flushes \cup Interrupted(p) \cup {missed} /\ jobs' = jobs
    BY <1>8 DEF ClaimDue
  <2>2. missed \in Flushes /\ missed.entry.run = runs + 1
    BY <1>0, <1>7 DEF Flush, Flushes, Entries, Statuses
  <2> HIDE DEF missed
  <2>3. (task.kind # "once") \in BOOLEAN
    OBVIOUS
  <2>4. /\ task' \in Tasks /\ task'.kind = task.kind /\ task'.at = task.at
        /\ task'.next = Advanced(now) /\ task'.claim = NoClaim /\ task'.last = Reclaimed.last
    BY <1>1, <1>3, <2>1, <2>3 DEF Tasks
  <2>5. Ahead' /\ NoTimeTakenTwice' /\ fired' \subseteq Times \X Nat
    BY <1>0, <1>2, <2>4, TimesTaken
  <2>6. flushes' \subseteq Flushes
    BY <1>0, <1>5, <2>1, <2>2 DEF Types
  <2>7. Types'
    BY <1>0, <1>7, <2>1, <2>4, <2>5, <2>6, FrameTypes DEF Types
  <2>8. \A f \in flushes' : f \in flushes \/ f.entry.run \in 1..runs'
    <3>1. \A r \in 1..runs : r \in 1..runs'
      BY <1>7
    <3>2. runs + 1 \in 1..runs'
      BY <1>2, <1>7
    <3> QED
      BY <1>5, <2>1, <2>2, <3>1, <3>2
  <2>9. Ids' /\ ClaimedRun'
    BY <1>0, <1>6, <1>7, <2>1, <2>4, <2>8, ClaimCleared
  <2>10. HistoryAgrees'
    BY <1>0, <1>1, <1>6, <2>4, HistoryKept
  <2> QED
    BY <2>5, <2>7, <2>9, <2>10 DEF IInv
<1>9. CASE ~TooLate(now)
  <2>1. /\ task' = [Reclaimed EXCEPT !.claim = Claim(c), !.next = Advanced(now)]
        /\ flushes' = flushes \cup Interrupted(p) /\ jobs' = jobs \cup {Job(c)}
    BY <1>9 DEF ClaimDue
  <2>2. /\ task' \in Tasks /\ task'.kind = task.kind /\ task'.at = task.at
        /\ task'.next = Advanced(now) /\ task'.claim = Claim(c)
        /\ task'.last = Reclaimed.last
    BY <1>1, <1>3, <1>4, <2>1 DEF Tasks
  <2>3. Ahead' /\ NoTimeTakenTwice' /\ fired' \subseteq Times \X Nat
    BY <1>0, <1>2, <2>2, TimesTaken
  <2>4. Types'
    BY <1>0, <1>4, <1>5, <1>7, <2>1, <2>2, <2>3, FrameTypes DEF Types
  <2>5. Ids' /\ ClaimedRun'
    BY <1>0, <1>2, <1>5, <1>6, <2>1, <2>2, ClaimTaken
  <2>6. HistoryAgrees'
    BY <1>0, <1>1, <1>6, <2>2, HistoryKept
  <2> QED
    BY <2>3, <2>4, <2>5, <2>6 DEF IInv
<1> QED
  BY <1>8, <1>9

\* Clearing a claim, which a late tick and the sweep do.
LEMMA ClearingKeeps ==
  ASSUME IInv, NEW c, Frame(c), NEW p \in Procs, task' = Reclaimed,
         flushes' = flushes \cup Interrupted(p), UNCHANGED <<jobs, runs, fired>>
  PROVE  IInv'
<1>0. Types /\ Ids /\ Ahead /\ NoTimeTakenTwice /\ ClaimedRun /\ HistoryAgrees
  BY DEF IInv
<1>1. /\ task' \in Tasks
      /\ task'.kind = task.kind /\ task'.at = task.at
      /\ task'.next = task.next /\ task'.claim = NoClaim
      /\ task'.last = task.last \/ \E i \in DOMAIN history : task'.last = history[i]
  BY <1>0, ReclaimedFact
<1>2. Interrupted(p) \subseteq Flushes /\ \A f \in Interrupted(p) : f.entry.run \in 1..runs
  BY <1>0, InterruptedFact
<1>3. history' = history
  BY DEF Frame
<1>4. Types'
  BY <1>0, <1>1, <1>2, FrameTypes DEF Types
<1>5. Ahead' /\ NoTimeTakenTwice'
  BY <1>0, <1>1, TimesKept
<1>6. Ids' /\ ClaimedRun'
  BY <1>0, <1>1, <1>2, <1>3, ClaimCleared DEF Types
<1>7. HistoryAgrees'
  BY <1>0, <1>1, <1>3, HistoryKept
<1> QED
  BY <1>4, <1>5, <1>6, <1>7 DEF IInv

\* An edit leaves the claim and the last result alone.
LEMMA EditedKeeps ==
  ASSUME IInv, NEW c, Frame(c), task' \in Tasks,
         task'.claim = task.claim, task'.last = task.last,
         Ahead' /\ NoTimeTakenTwice' /\ fired' \subseteq Times \X Nat,
         UNCHANGED <<jobs, flushes, runs>>
  PROVE  IInv'
<1>1. Types'
  BY FrameTypes DEF IInv, Types
<1>2. Ids' /\ ClaimedRun' /\ HistoryAgrees'
  BY DEF IInv, Frame, Ids, ClaimedRun, HistoryAgrees
<1> QED
  BY <1>1, <1>2 DEF IInv

LEMMA RearmFact ==
  ASSUME Types, NoTimeTakenTwice, NEW t \in Tasks, NEW now \in Nat, Rearm(t, now),
         t.kind = task.kind, t.at = task.at, t.claim = task.claim, t.last = task.last
  PROVE  /\ task' \in Tasks /\ task'.claim = task.claim /\ task'.last = task.last
         /\ Ahead' /\ NoTimeTakenTwice' /\ fired' \subseteq Times \X Nat
<1> DEFINE next == NextAfter(now)
<1>1. next \in Nat /\ (next # Never => next > now)
      /\ (next # Never /\ task.kind = "once" => next = task.at)
  BY NextAfterFact
<1>2. task' = [t EXCEPT !.next = next] /\ fired' = {f \in fired : f[1] <= now}
  BY DEF Rearm
<1> HIDE DEF next
<1>3. /\ task' \in Tasks /\ task'.claim = task.claim /\ task'.last = task.last
      /\ task'.next = next /\ task'.kind = task.kind /\ task'.at = task.at
  BY <1>1, <1>2 DEF Tasks
<1>4. Ahead' /\ NoTimeTakenTwice' /\ fired' \subseteq Times \X Nat
  BY <1>1, <1>2, <1>3, TimesArmed
<1> QED
  BY <1>3, <1>4

LEMMA EditKeeps ==
  ASSUME IInv, NEW c \in calls, Frame(c), Edit(c)
  PROVE  IInv'
<1>0. Types /\ Ahead /\ NoTimeTakenTwice /\ c.now \in Nat /\ task \in Tasks
      /\ fired \subseteq Times \X Nat /\ UNCHANGED <<jobs, flushes, runs>>
  BY CallFact DEF IInv, Types, Edit
<1>1. CASE task' = [task EXCEPT !.enabled = FALSE] /\ UNCHANGED fired
  <2>1. /\ task' \in Tasks /\ task'.claim = task.claim /\ task'.last = task.last
        /\ task'.kind = task.kind /\ task'.at = task.at /\ task'.next = task.next
    BY <1>0, <1>1 DEF Tasks
  <2>2. Ahead' /\ NoTimeTakenTwice'
    BY <1>0, <1>1, <2>1, TimesKept
  <2> QED
    BY <1>0, <1>1, <2>1, <2>2, EditedKeeps
<1>2. CASE Rearm([task EXCEPT !.enabled = TRUE], c.now)
  <2> DEFINE t == [task EXCEPT !.enabled = TRUE]
  <2>1. t \in Tasks /\ t.kind = task.kind /\ t.at = task.at /\ t.claim = task.claim
        /\ t.last = task.last
    BY <1>0 DEF Tasks
  <2> HIDE DEF t
  <2>2. Rearm(t, c.now)
    BY <1>2 DEF t
  <2> QED
    BY <1>0, <2>1, <2>2, RearmFact, EditedKeeps
<1>3. CASE Rearm(task, c.now)
  BY <1>0, <1>3, RearmFact, EditedKeeps
<1>4. ASSUME NEW at \in Times, at > c.now, fired' = {f \in fired : f[1] <= c.now},
             task' = [task EXCEPT !.at = at, !.next = at]
      PROVE  IInv'
  <2>1. at \in Nat
    BY DEF Times
  <2>2. /\ task' \in Tasks /\ task'.claim = task.claim /\ task'.last = task.last
        /\ task'.kind = task.kind /\ task'.at = at /\ task'.next = at
    BY <1>0, <1>4, <2>1 DEF Tasks
  <2>3. Ahead' /\ NoTimeTakenTwice' /\ fired' \subseteq Times \X Nat
    BY <1>0, <1>4, <2>1, <2>2, TimesArmed
  <2> QED
    BY <1>0, <2>2, <2>3, EditedKeeps
<1> QED
  BY <1>1, <1>2, <1>3, <1>4 DEF Edit

LEMMA LockedKeeps ==
  ASSUME IInv, NEW c \in calls, Locked(c)
  PROVE  IInv'
<1>1. Frame(c) /\ c.proc \in Procs /\ c.now \in Nat
  BY CallFact DEF IInv, Locked, Frame
<1>2. CASE ClaimTask(c)
  BY <1>1, <1>2, RefusedKeeps, ManualKeeps, DueKeeps, ClearingKeeps DEF ClaimTask, ClaimNothing
<1>3. CASE SweepClaims(c)
  BY <1>1, <1>3, RefusedKeeps, ClearingKeeps DEF SweepClaims
<1>4. CASE Edit(c)
  BY <1>1, <1>4, EditKeeps
<1>5. CASE Refused
  BY <1>1, <1>5, RefusedKeeps
<1> QED
  BY <1>2, <1>3, <1>4, <1>5 DEF Locked

-----------------------------------------------------------------------------
(* Runs that end *)

\* The task, the times and the ids given out stay as they are.
LEMMA TaskKept ==
  ASSUME IInv, UNCHANGED <<task, fired, runs>>
  PROVE  Ahead' /\ NoTimeTakenTwice'
BY TimesKept DEF IInv

LEMMA FinishKeeps ==
  ASSUME IInv, NEW j \in jobs, NEW status \in {"dispatched", "failed"}, Finish(j, status)
  PROVE  IInv'
<1> DEFINE k == [j EXCEPT !.stage = "ended", !.status = status]
<1>1. /\ j.stage = "running"
      /\ jobs' = (jobs \ {j}) \cup (IF task.claim.run = j.run THEN {k} ELSE {})
      /\ UNCHANGED <<clock, task, history, procs, calls, flushes, runs, fired>>
  BY DEF Finish
<1>2. j \in Jobs
  BY DEF IInv, Types
<1>3. k \in Jobs /\ k.run = j.run /\ k.stage = "ended"
  BY <1>2 DEF Jobs, Stages, Statuses
<1> HIDE DEF k
<1>4. \A x \in jobs' : (x \in jobs /\ x # j) \/ x = k
  BY <1>1
<1>5. Types'
  BY <1>1, <1>3, <1>4 DEF IInv, Types, procs
<1>6. Ids'
  BY <1>1, <1>3, <1>4 DEF IInv, Ids
<1>7. ClaimedRun'
  BY <1>1, <1>3, <1>4 DEF IInv, ClaimedRun
<1>8. HistoryAgrees'
  BY <1>1 DEF IInv, HistoryAgrees
<1> QED
  BY <1>1, <1>5, <1>6, <1>7, <1>8, TaskKept DEF IInv

\* What an append to the history does.
LEMMA AppendedFact ==
  ASSUME IInv, NEW e \in Entries, e.run \in 1..runs, history' = Appended(e),
         UNCHANGED <<task, runs>>
  PROVE  /\ history' \in Seq(Entries) /\ HistoryAgrees'
         /\ \A i \in DOMAIN history' : history'[i].run \in 1..runs
         /\ \A i \in DOMAIN history' : history'[i] = e \/ \E k \in DOMAIN history : history'[i] = history[k]
         /\ \A i \in DOMAIN history : i \in DOMAIN history' /\ history'[i] = history[i]
         /\ (\A i \in DOMAIN history : history[i].run # e.run)
              => \E i \in DOMAIN history' : history'[i] = e
<1>1. history \in Seq(Entries) /\ HistoryAgrees
      /\ \A i \in DOMAIN history : history[i].run \in 1..runs
  BY DEF IInv, Types, Ids
<1>2. CASE \E i \in DOMAIN history : history[i].run = e.run
  <2>1. history' = history
    BY <1>2 DEF Appended
  <2> QED
    BY <1>1, <1>2, <2>1 DEF HistoryAgrees
<1>3. CASE ~ \E i \in DOMAIN history : history[i].run = e.run
  <2>1. history' = Append(history, e)
    BY <1>3 DEF Appended
  <2>2. /\ history' \in Seq(Entries) /\ DOMAIN history = 1..Len(history)
        /\ DOMAIN history' = 1..(Len(history) + 1) /\ Len(history) \in Nat
        /\ \A i \in 1..Len(history) : history'[i] = history[i]
        /\ history'[Len(history) + 1] = e
    BY <1>1, <2>1
  <2>3. /\ \A i \in DOMAIN history : i \in DOMAIN history' /\ history'[i] = history[i]
        /\ \A i \in DOMAIN history' : i \in DOMAIN history \/ i = Len(history) + 1
        /\ Len(history) + 1 \in DOMAIN history'
    BY <2>2
  <2>4. \A i \in DOMAIN history' : \/ i = Len(history) + 1 /\ history'[i] = e
                                   \/ i \in DOMAIN history /\ history'[i] = history[i]
    BY <2>2, <2>3
  <2>5. \A i, k \in DOMAIN history' : history'[i].run = history'[k].run => i = k
    BY <1>1, <1>3, <2>4 DEF HistoryAgrees
  <2>6. HistoryAgrees'
    BY <1>1, <2>3, <2>5 DEF HistoryAgrees
  <2> QED
    BY <1>1, <2>2, <2>3, <2>4, <2>6
<1> QED
  BY <1>2, <1>3

LEMMA RecordKeeps ==
  ASSUME IInv, NEW j \in jobs, Record(j)
  PROVE  IInv'
<1> DEFINE k == [j EXCEPT !.stage = "recorded"]
           e == [run |-> j.run, status |-> j.status]
<1>1. /\ j.stage = "ended" /\ history' = Appended(e) /\ jobs' = (jobs \ {j}) \cup {k}
      /\ UNCHANGED <<clock, task, procs, calls, flushes, runs, fired>>
  BY DEF Record
<1>2. j \in Jobs /\ j.run \in 1..runs
  BY DEF IInv, Types, Ids
<1>3. k \in Jobs /\ k.run = j.run /\ k.stage = "recorded" /\ k.status = j.status
  BY <1>2 DEF Jobs, Stages
<1>4. e \in Entries /\ e.run = j.run /\ e = [run |-> k.run, status |-> k.status]
  BY <1>2, <1>3 DEF Entries, Jobs
<1> HIDE DEF k, e
<1>5. /\ history' \in Seq(Entries) /\ HistoryAgrees'
      /\ \A i \in DOMAIN history' : history'[i].run \in 1..runs
      /\ \A i \in DOMAIN history' : history'[i] = e \/ \E x \in DOMAIN history : history'[i] = history[x]
      /\ \A i \in DOMAIN history : i \in DOMAIN history' /\ history'[i] = history[i]
      /\ (\A i \in DOMAIN history : history[i].run # e.run)
           => \E i \in DOMAIN history' : history'[i] = e
  BY <1>1, <1>2, <1>4, AppendedFact
<1>6. \A x \in jobs' : (x \in jobs /\ x # j) \/ x = k
  BY <1>1
<1>7. \A x \in jobs : x # j => x.run # j.run
  BY DEF IInv, Ids
<1>8. Types'
  BY <1>1, <1>3, <1>5, <1>6 DEF IInv, Types, procs
<1>9. Ids'
  BY <1>1, <1>3, <1>5, <1>6 DEF IInv, Ids
<1>10. ClaimedRun'
  <2>1. \A f \in flushes' : f.entry.run # task'.claim.run
    BY <1>1 DEF IInv, ClaimedRun
  <2>2. ASSUME NEW x \in jobs', x.run = task'.claim.run
        PROVE  IF x.stage = "recorded"
               THEN \E i \in DOMAIN history' : history'[i] = [run |-> x.run, status |-> x.status]
               ELSE \A i \in DOMAIN history' : history'[i].run # x.run
    <3>1. CASE x = k
      <4>1. \A i \in DOMAIN history : history[i].run # e.run
        BY <1>1, <1>3, <1>4, <2>2, <3>1 DEF IInv, ClaimedRun
      <4> QED
        BY <1>3, <1>4, <1>5, <3>1, <4>1
    <3>2. CASE x \in jobs /\ x # j
      <4>1. IF x.stage = "recorded"
            THEN \E i \in DOMAIN history : history[i] = [run |-> x.run, status |-> x.status]
            ELSE \A i \in DOMAIN history : history[i].run # x.run
        BY <1>1, <2>2, <3>2 DEF IInv, ClaimedRun
      <4>2. x.run # e.run
        BY <1>4, <1>7, <3>2
      <4> QED
        BY <1>5, <4>1, <4>2
    <3> QED
      BY <1>6, <3>1, <3>2
  <2> QED
    BY <2>1, <2>2 DEF ClaimedRun
<1> QED
  BY <1>1, <1>5, <1>8, <1>9, <1>10, TaskKept DEF IInv

LEMMA FlushKeeps ==
  ASSUME IInv, NEW f \in flushes, FlushRun(f)
  PROVE  IInv'
<1>1. /\ flushes' = flushes \ {f}
      /\ history' = Appended(f.entry) \/ history' = history
      /\ UNCHANGED <<clock, task, procs, calls, jobs, runs, fired>>
  BY DEF FlushRun
<1>2. f.entry \in Entries /\ f.entry.run \in 1..runs /\ f.entry.run # task.claim.run
  BY DEF IInv, Types, Ids, Flushes, ClaimedRun
<1>3. /\ history' \in Seq(Entries) /\ HistoryAgrees'
      /\ \A i \in DOMAIN history' : history'[i].run \in 1..runs
      /\ \A i \in DOMAIN history' :
           history'[i] = f.entry \/ \E x \in DOMAIN history : history'[i] = history[x]
      /\ \A i \in DOMAIN history : i \in DOMAIN history' /\ history'[i] = history[i]
  <2>1. CASE history' = Appended(f.entry)
    BY <1>1, <1>2, <2>1, AppendedFact
  <2>2. CASE history' = history
    BY <1>1, <2>2 DEF IInv, Types, Ids, HistoryAgrees
  <2> QED
    BY <1>1, <2>1, <2>2
<1>4. Types'
  BY <1>1, <1>3 DEF IInv, Types, procs
<1>5. Ids'
  BY <1>1, <1>3 DEF IInv, Ids
<1>6. ClaimedRun'
  BY <1>1, <1>2, <1>3 DEF IInv, ClaimedRun
<1> QED
  BY <1>1, <1>3, <1>4, <1>5, <1>6, TaskKept DEF IInv

LEMMA FinalizeKeeps ==
  ASSUME IInv, NEW j \in jobs, Finalize(j)
  PROVE  IInv'
<1>1. /\ j.stage = "recorded" /\ jobs' = jobs \ {j}
      /\ UNCHANGED <<clock, history, procs, calls, flushes, runs, fired>>
  BY DEF Finalize
<1>2. j \in Jobs /\ j.run \in 1..runs /\ runs \in Nat
  BY DEF IInv, Types, Ids
<1>3. CASE OwnClaim(j)
  <2> DEFINE kept == task.enabled /\ (task.kind = "once" => Success(j.status))
             e == [run |-> j.run, status |-> j.status]
  <2>1. task' = [task EXCEPT !.claim = NoClaim, !.last = e, !.enabled = kept]
    BY <1>3 DEF Finalize
  <2>2. e \in Entries /\ kept \in BOOLEAN /\ NoClaim \in Claims /\ task \in Tasks
    BY <1>2 DEF Entries, Jobs, NoClaim, Claims, IInv, Types
  <2>3. \E i \in DOMAIN history : history[i] = e
    BY <1>1, <1>3 DEF IInv, ClaimedRun, OwnClaim
  <2> HIDE DEF e, kept
  <2>4. /\ task' \in Tasks /\ task'.claim = NoClaim /\ task'.last = e
        /\ task'.kind = task.kind /\ task'.at = task.at /\ task'.next = task.next
    BY <2>1, <2>2 DEF Tasks
  <2>5. Types'
    BY <1>1, <2>4 DEF IInv, Types, procs
  <2>6. Ahead' /\ NoTimeTakenTwice'
    BY <1>1, <2>4, TimesKept DEF IInv
  <2>7. Ids'
    BY <1>1, <2>4 DEF IInv, Ids
  <2>8. task'.claim.run = 0 /\ \A r \in 1..runs : r # 0
    BY <1>2, <2>4 DEF NoClaim
  <2>9. ClaimedRun'
    BY <1>1, <2>8 DEF IInv, Ids, ClaimedRun
  <2>10. HistoryAgrees'
    BY <1>1, <2>3, <2>4 DEF IInv, HistoryAgrees
  <2> QED
    BY <2>5, <2>6, <2>7, <2>9, <2>10 DEF IInv
<1>4. CASE ~OwnClaim(j)
  <2>1. task' = task
    BY <1>4 DEF Finalize
  <2>2. Types'
    BY <1>1, <2>1 DEF IInv, Types, procs
  <2>3. Ids' /\ ClaimedRun' /\ HistoryAgrees'
    BY <1>1, <2>1 DEF IInv, Ids, ClaimedRun, HistoryAgrees
  <2> QED
    BY <1>1, <2>1, <2>2, <2>3, TaskKept DEF IInv
<1> QED
  BY <1>3, <1>4

\* Jobs and reports may be dropped at any time.
LEMMA DroppedKeeps ==
  ASSUME IInv, jobs' \subseteq jobs, flushes' \subseteq flushes,
         UNCHANGED <<task, history, runs, fired>>, Types'
  PROVE  IInv'
<1>1. Ids' /\ ClaimedRun' /\ HistoryAgrees'
  BY DEF IInv, Ids, ClaimedRun, HistoryAgrees
<1> QED
  BY <1>1, TaskKept DEF IInv

LEMMA ProcessKeeps ==
  ASSUME IInv, NEW p \in Procs,
         Tick(p) \/ Start(p) \/ Stop(p) \/ Die(p) \/ \E do \in Dos \ {"tick", "sweep"} : Ask(p, do)
  PROVE  IInv'
<1>1. Types /\ clock \in Nat /\ gen \in [Procs -> Nat] /\ gen[p] \in Nat /\ gen[p] + 1 \in Nat
  BY DEF IInv, Types
<1>2. \A do \in Dos : Call(p, do) \in Calls /\ [Call(p, do) EXCEPT !.gen = gen[p] + 1] \in Calls
  BY <1>1 DEF Call, Calls
<1>3. "tick" \in Dos /\ "sweep" \in Dos
  BY DEF Dos
<1>4. CASE Tick(p)
  <2>1. Types'
    BY <1>1, <1>2, <1>3, <1>4 DEF Types, Tick, procs
  <2> QED
    BY <1>4, <2>1, DroppedKeeps DEF Tick
<1>5. CASE Start(p)
  <2>1. [gen EXCEPT ![p] = @ + 1] \in [Procs -> Nat]
    BY <1>1
  <2>2. calls' \subseteq Calls
    BY <1>1, <1>2, <1>3, <1>5 DEF Start, Types
  <2>3. Types'
    BY <1>1, <1>5, <2>1, <2>2 DEF Types, Start
  <2> QED
    BY <1>5, <2>3, DroppedKeeps DEF Start
<1>6. CASE Stop(p)
  <2>1. Types'
    BY <1>1, <1>6 DEF Types, Stop
  <2> QED
    BY <1>6, <2>1, DroppedKeeps DEF Stop
<1>7. CASE Die(p)
  <2>1. Types' /\ jobs' \subseteq jobs /\ flushes' \subseteq flushes
    BY <1>1, <1>7 DEF Types, Die
  <2> QED
    BY <1>7, <2>1, DroppedKeeps DEF Die
<1>8. CASE \E do \in Dos \ {"tick", "sweep"} : Ask(p, do)
  <2>1. Types'
    BY <1>1, <1>2, <1>8 DEF Types, Ask, procs
  <2> QED
    BY <1>8, <2>1, DroppedKeeps DEF Ask
<1> QED
  BY <1>4, <1>5, <1>6, <1>7, <1>8

-----------------------------------------------------------------------------
LEMMA InitHolds ==
  ASSUME Init
  PROVE  IInv
<1>1. PICK kind \in {"once", "recurring"}, first \in Occurs :
        task = [kind |-> kind, at |-> first, enabled |-> TRUE, next |-> first,
                claim |-> NoClaim, last |-> NoRun]
  BY DEF Init
<1>2. first \in Times /\ first \in Nat
  BY TasksAssumption DEF Times
<1>3. NoClaim \in Claims /\ NoRun \in Entries /\ NoClaim.run = 0
  BY DEF NoClaim, NoRun, Claims, Entries, Statuses
<1>4. task \in Tasks /\ task.next = first /\ task.at = first /\ task.claim = NoClaim /\ task.last = NoRun
  BY <1>1, <1>2, <1>3 DEF Tasks
<1>5. /\ clock = 0 /\ history = <<>> /\ alive = Procs /\ on = {} /\ gen = [p \in Procs |-> 0]
      /\ calls = {} /\ jobs = {} /\ flushes = {} /\ runs = 0 /\ fired = {}
  BY DEF Init
<1>6. history \in Seq(Entries) /\ DOMAIN history = {}
  BY <1>5
<1>7. Types
  BY <1>4, <1>5, <1>6 DEF Types
<1>8. Ahead /\ NoTimeTakenTwice
  BY <1>4, <1>5 DEF Ahead, NoTimeTakenTwice
<1>9. Ids /\ ClaimedRun /\ HistoryAgrees
  BY <1>4, <1>5, <1>6 DEF Ids, ClaimedRun, HistoryAgrees
<1> QED
  BY <1>7, <1>8, <1>9 DEF IInv

LEMMA NextKeeps ==
  ASSUME IInv, [Next]_vars
  PROVE  IInv'
<1>1. CASE Pass
  <2>1. Types'
    BY <1>1 DEF IInv, Types, Pass, procs
  <2> QED
    BY <1>1, <2>1, DroppedKeeps DEF Pass
<1>2. CASE \E p \in Procs : Tick(p) \/ Start(p) \/ Stop(p) \/ Die(p)
  BY <1>2, ProcessKeeps
<1>3. CASE \E p \in Procs, do \in {"now", "pause", "resume", "save", "move"} : Ask(p, do)
  <2>1. \A do \in {"now", "pause", "resume", "save", "move"} : do \in Dos \ {"tick", "sweep"}
    BY DEF Dos
  <2> QED
    BY <1>3, <2>1, ProcessKeeps
<1>4. CASE \E c \in calls : Locked(c)
  BY <1>4, LockedKeeps
<1>5. CASE \E j \in jobs, status \in {"dispatched", "failed"} : Finish(j, status)
  BY <1>5, FinishKeeps
<1>6. CASE \E j \in jobs : Record(j) \/ Finalize(j)
  BY <1>6, RecordKeeps, FinalizeKeeps
<1>7. CASE \E j \in jobs : EndFails(j)
  <2>1. Types' /\ jobs' \subseteq jobs
    BY <1>7 DEF IInv, Types, EndFails, procs
  <2> QED
    BY <1>7, <2>1, DroppedKeeps DEF EndFails
<1>8. CASE \E f \in flushes : FlushRun(f)
  BY <1>8, FlushKeeps
<1>9. CASE UNCHANGED vars
  <2>1. Types'
    BY <1>9 DEF IInv, Types, vars, procs
  <2> QED
    BY <1>9, <2>1, DroppedKeeps DEF vars
<1> QED
  BY <1>1, <1>2, <1>3, <1>4, <1>5, <1>6, <1>7, <1>8, <1>9 DEF Next

\* The invariants above hold in every state of every run of the scheduler.
THEOREM TasksInvariant == Spec => []IInv
<1>1. Init => IInv
  BY InitHolds
<1>2. IInv /\ [Next]_vars => IInv'
  BY NextKeeps
<1> QED
  BY <1>1, <1>2, PTL DEF Spec

\* However many processes tick, run on demand, die and take over claims, a
\* scheduled time is taken by one run (claimTask() advances the schedule in the
\* write that claims).
THEOREM TimesTakenOnce == Spec => []NoTimeTakenTwice
<1>1. IInv => NoTimeTakenTwice
  BY DEF IInv
<1> QED
  BY <1>1, TasksInvariant, PTL

\* The history has one entry for a run, and the result a task shows is that entry
\* (finalizeTask() and _reclaimClaim(), whatever comes between their two writes).
THEOREM HistoryTrue == Spec => []HistoryAgrees
<1>1. IInv => HistoryAgrees
  BY DEF IInv
<1> QED
  BY <1>1, TasksInvariant, PTL

-----------------------------------------------------------------------------
(* Runs that overlap *)

\* Calls have read the clock before, in a scheduler that was started.
CallsAreOld ==
  /\ on \subseteq alive /\ \A p \in on : gen[p] >= 1
  /\ \A c \in calls : c.now <= clock
  /\ \A c \in calls : c.do \in {"tick", "now", "sweep"} =>
       c.proc \in alive /\ c.gen \in 1..gen[c.proc]

\* A claim names its process and a scheduler that this process has started.
ClaimIsKnown ==
  Held => task.claim.proc \in Procs /\ task.claim.gen \in 1..gen[task.claim.proc]

\* A run that is not overdue has the claim, and no later run is under way.
RunsHaveClaims ==
  /\ \A j \in jobs : j.proc \in alive
  /\ \A j \in jobs : Overdue(j) \/ (/\ task.claim.run = j.run /\ task.claim.at = j.at
                                    /\ task.claim.proc = j.proc)
  /\ Held => \A j \in jobs : j.run <= task.claim.run

Sole == IInv /\ CallsAreOld /\ ClaimIsKnown /\ RunsHaveClaims

\* What a run holds is a claim.
LEMMA HolderHolds ==
  ASSUME IInv, NEW j \in jobs, task.claim.run = j.run
  PROVE  Held
BY DEF IInv, Types, Ids, Held, NoClaim

LEMMA OverdueStays ==
  ASSUME IInv, IInv', clock' >= clock, \A p \in Procs : gen'[p] >= gen[p],
         NEW j \in Jobs, Overdue(j)
  PROVE  Overdue(j)'
<1>1. clock \in Nat /\ clock' \in Nat /\ j.at \in Nat /\ j.proc \in Procs /\ Stale \in Nat
  BY TasksAssumption DEF IInv, Types, Jobs
<1>2. gen[j.proc] \in Nat /\ gen'[j.proc] \in Nat /\ gen'[j.proc] >= gen[j.proc]
  BY <1>1 DEF IInv, Types
<1> QED
  BY <1>1, <1>2 DEF Overdue

\* A call that takes a claim over finds its run overdue: the process of the run
\* lives, so it was for its age, or for a scheduler started since.
LEMMA LosersAreOverdue ==
  ASSUME Sole, NEW c \in calls, c.do \in {"tick", "now", "sweep"},
         \/ ~Active(c.now)
         \/ c.do = "sweep" /\ task.claim.proc = c.proc /\ task.claim.gen # c.gen
  PROVE  \A j \in jobs : Overdue(j)
<1> SUFFICES ASSUME NEW j \in jobs, ~Overdue(j)
             PROVE  FALSE
  OBVIOUS
<1>1. task.claim.run = j.run /\ task.claim.at = j.at /\ task.claim.proc = j.proc
      /\ j.proc \in alive
  BY DEF Sole, RunsHaveClaims
<1>2. Held
  BY <1>1, HolderHolds DEF Sole
<1>3. /\ clock \in Nat /\ j.at \in Nat /\ j.proc \in Procs /\ Stale \in Nat
      /\ c.now \in Nat /\ c.now <= clock /\ gen[j.proc] \in Nat
  BY TasksAssumption, CallFact DEF Sole, IInv, Types, Jobs, CallsAreOld
<1>4. clock - j.at < Stale /\ gen[j.proc] <= 1
  BY <1>3 DEF Overdue
<1>5. CASE ~Active(c.now)
  <2>1. ~(c.now - j.at < Stale)
    BY <1>1, <1>2, <1>5 DEF Active
  <2> QED
    BY <1>3, <1>4, <2>1
<1>6. CASE c.do = "sweep" /\ task.claim.proc = c.proc /\ task.claim.gen # c.gen
  <2>1. c.gen \in 1..gen[j.proc] /\ task.claim.gen \in 1..gen[j.proc]
    BY <1>1, <1>2, <1>6 DEF Sole, CallsAreOld, ClaimIsKnown
  <2> QED
    BY <1>3, <1>4, <1>6, <2>1
<1> QED
  BY <1>5, <1>6

\* Neither processes nor clock move, and a call is answered.
LEMMA AnsweredKeeps ==
  ASSUME CallsAreOld, NEW c, Frame(c)
  PROVE  CallsAreOld'
BY DEF CallsAreOld, Frame, procs

\* The claim, if there still is one, is that of before.
LEMMA ClaimStays ==
  ASSUME Sole, IInv', NEW c, Frame(c), jobs' = jobs, task'.claim = task.claim
  PROVE  Sole'
<1>1. CallsAreOld'
  BY AnsweredKeeps DEF Sole
<1>2. ClaimIsKnown'
  BY DEF Sole, ClaimIsKnown, Held, Frame, procs
<1>3. RunsHaveClaims'
  BY DEF Sole, RunsHaveClaims, Held, Overdue, Frame, procs
<1> QED
  BY <1>1, <1>2, <1>3 DEF Sole

LEMMA ClaimGoes ==
  ASSUME Sole, IInv', NEW c, Frame(c), jobs' = jobs, task'.claim = NoClaim,
         \A j \in jobs : Overdue(j)
  PROVE  Sole'
<1>1. CallsAreOld'
  BY AnsweredKeeps DEF Sole
<1>2. ClaimIsKnown'
  BY DEF ClaimIsKnown, Held
<1>3. RunsHaveClaims'
  BY DEF Sole, RunsHaveClaims, Held, Overdue, Frame, procs
<1> QED
  BY <1>1, <1>2, <1>3 DEF Sole

LEMMA ClaimChanges ==
  ASSUME Sole, IInv', NEW c \in calls, c.do \in {"tick", "now"}, Frame(c),
         jobs' = jobs \cup {Job(c)}, task'.claim = Claim(c),
         \A j \in jobs : Overdue(j)
  PROVE  Sole'
<1>1. CallsAreOld'
  BY AnsweredKeeps DEF Sole
<1>2. /\ c.proc \in alive /\ c.proc \in Procs /\ c.gen \in 1..gen[c.proc]
      /\ alive' = alive /\ gen' = gen /\ clock' = clock
  BY CallFact DEF Sole, CallsAreOld, IInv, Frame, procs
<1>3. ClaimIsKnown'
  BY <1>2 DEF ClaimIsKnown, Claim
<1>4. /\ Job(c).run = runs + 1 /\ Job(c).at = c.now /\ Job(c).proc = c.proc
      /\ Claim(c).run = runs + 1 /\ Claim(c).at = c.now /\ Claim(c).proc = c.proc
  BY DEF Job, Claim
<1>5. \A j \in jobs' : (j \in jobs /\ Overdue(j)') \/ j = Job(c)
  BY <1>2 DEF Overdue
<1>6. \A j \in jobs : j.run \in 1..runs /\ runs \in Nat
  BY DEF Sole, IInv, Types, Ids
<1>7. \A j \in jobs' : j.run <= runs + 1
  <2>1. runs \in Nat
    BY DEF Sole, IInv, Types
  <2> QED
    BY <1>4, <1>5, <1>6, <2>1
<1>8. RunsHaveClaims'
  BY <1>2, <1>4, <1>5, <1>7 DEF Sole, RunsHaveClaims
<1> QED
  BY <1>1, <1>3, <1>8 DEF Sole

LEMMA ManualKeepsSole ==
  ASSUME Sole, IInv', NEW c \in calls, c.do = "now", Frame(c), ClaimManual(c), ~Active(c.now)
  PROVE  Sole'
<1> DEFINE next == IF Reclaimed.enabled /\ Due(c.now) THEN Advanced(c.now) ELSE Reclaimed.next
<1>1. /\ task' = [Reclaimed EXCEPT !.claim = Claim(c), !.next = next]
      /\ jobs' = jobs \cup {Job(c)}
  BY DEF ClaimManual
<1> HIDE DEF next
<1>2. Reclaimed \in Tasks
  BY ReclaimedFact DEF Sole, IInv
<1>3. task'.claim = Claim(c)
  BY <1>1, <1>2 DEF Tasks
<1>4. \A j \in jobs : Overdue(j)
  BY LosersAreOverdue
<1> QED
  BY <1>1, <1>3, <1>4, ClaimChanges

LEMMA DueKeepsSole ==
  ASSUME Sole, IInv', NEW c \in calls, c.do = "tick", Frame(c), ClaimDue(c), ~Active(c.now)
  PROVE  Sole'
<1>1. Reclaimed \in Tasks /\ Reclaimed.claim = NoClaim
  BY ReclaimedFact DEF Sole, IInv
<1>2. \A j \in jobs : Overdue(j)
  BY LosersAreOverdue
<1>3. CASE TooLate(c.now)
  <2>1. /\ task' = [Reclaimed EXCEPT !.enabled = (task.kind # "once"), !.next = Advanced(c.now)]
        /\ jobs' = jobs
    BY <1>3 DEF ClaimDue
  <2>2. task'.claim = NoClaim
    BY <1>1, <2>1 DEF Tasks
  <2> QED
    BY <1>2, <2>1, <2>2, ClaimGoes
<1>4. CASE ~TooLate(c.now)
  <2>1. /\ task' = [Reclaimed EXCEPT !.claim = Claim(c), !.next = Advanced(c.now)]
        /\ jobs' = jobs \cup {Job(c)}
    BY <1>4 DEF ClaimDue
  <2>2. task'.claim = Claim(c)
    BY <1>1, <2>1 DEF Tasks
  <2> QED
    BY <1>2, <2>1, <2>2, ClaimChanges
<1> QED
  BY <1>3, <1>4

\* An edit leaves the claim alone.
LEMMA EditKeepsClaim ==
  ASSUME Types, NEW c \in calls, Edit(c)
  PROVE  task'.claim = task.claim /\ jobs' = jobs
<1>1. task \in Tasks /\ jobs' = jobs
  BY DEF Types, Edit
<1>2. CASE task' = [task EXCEPT !.enabled = FALSE]
  BY <1>1, <1>2 DEF Tasks
<1>3. CASE Rearm([task EXCEPT !.enabled = TRUE], c.now)
  BY <1>1, <1>3 DEF Rearm, Tasks
<1>4. CASE Rearm(task, c.now)
  BY <1>1, <1>4 DEF Rearm, Tasks
<1>5. CASE \E at \in Times : task' = [task EXCEPT !.at = at, !.next = at]
  BY <1>1, <1>5 DEF Tasks
<1> QED
  BY <1>1, <1>2, <1>3, <1>4, <1>5 DEF Edit

LEMMA LockedKeepsSole ==
  ASSUME Sole, IInv', NEW c \in calls, Locked(c)
  PROVE  Sole'
<1>1. Frame(c) /\ Types
  BY DEF Sole, IInv, Locked, Frame
<1>2. Reclaimed.claim = NoClaim
  BY <1>1, ReclaimedFact
<1>3. ASSUME Refused
      PROVE  Sole'
  BY <1>1, <1>3, ClaimStays DEF Refused
<1>4. ASSUME task' = Reclaimed, jobs' = jobs, \A j \in jobs : Overdue(j)
      PROVE  Sole'
  BY <1>1, <1>2, <1>4, ClaimGoes
<1>5. CASE c.do \in {"tick", "now"} /\ ClaimTask(c)
  <2>1. CASE Active(c.now)
    BY <1>3, <1>5, <2>1 DEF ClaimTask
  <2>2. CASE ~Active(c.now) /\ c.do = "now"
    BY <1>1, <1>5, <2>2, ManualKeepsSole DEF ClaimTask
  <2>3. CASE ~Active(c.now) /\ c.do = "tick" /\ ClaimDue(c)
    BY <1>1, <2>3, DueKeepsSole
  <2>4. CASE ~Active(c.now) /\ c.do = "tick" /\ ClaimNothing(c)
    <3>1. \A j \in jobs : Overdue(j)
      BY <2>4, LosersAreOverdue
    <3> QED
      BY <1>4, <2>4, <3>1 DEF ClaimNothing
  <2> QED
    BY <1>5, <2>1, <2>2, <2>3, <2>4 DEF ClaimTask
<1>6. CASE c.do = "sweep" /\ SweepClaims(c)
  <2>1. CASE ~Held \/ (Active(c.now) /\ ~(task.claim.proc = c.proc /\ task.claim.gen # c.gen))
    BY <1>3, <1>6, <2>1 DEF SweepClaims
  <2>2. CASE ~(~Held \/ (Active(c.now) /\ ~(task.claim.proc = c.proc /\ task.claim.gen # c.gen)))
    <3>1. \A j \in jobs : Overdue(j)
      BY <1>6, <2>2, LosersAreOverdue
    <3> QED
      BY <1>4, <1>6, <2>2, <3>1 DEF SweepClaims
  <2> QED
    BY <2>1, <2>2
<1>7. CASE Edit(c)
  BY <1>1, <1>7, EditKeepsClaim, ClaimStays
<1>8. CASE Refused
  BY <1>3, <1>8
<1> QED
  BY <1>5, <1>6, <1>7, <1>8 DEF Locked

\* The claim stays, and whoever runs ran before, under the same id.
LEMMA RunsGoOn ==
  ASSUME Sole, IInv', UNCHANGED <<clock, task, procs, calls>>,
         \A j \in jobs' : \E k \in jobs : j.run = k.run /\ j.at = k.at /\ j.proc = k.proc
  PROVE  Sole'
<1>1. CallsAreOld' /\ ClaimIsKnown'
  BY DEF Sole, CallsAreOld, ClaimIsKnown, Held, procs
<1>2. RunsHaveClaims'
  BY DEF Sole, RunsHaveClaims, Held, Overdue, procs
<1> QED
  BY <1>1, <1>2 DEF Sole

LEMMA JobKeepsSole ==
  ASSUME Sole, IInv', NEW j \in jobs,
         \/ \E status \in {"dispatched", "failed"} : Finish(j, status)
         \/ Record(j) \/ EndFails(j)
  PROVE  Sole'
<1>1. j \in Jobs
  BY DEF Sole, IInv, Types
<1>2. CASE \E status \in {"dispatched", "failed"} : Finish(j, status)
  <2>1. PICK status \in {"dispatched", "failed"} : Finish(j, status)
    BY <1>2
  <2> DEFINE k == [j EXCEPT !.stage = "ended", !.status = status]
  <2>2. k.run = j.run /\ k.at = j.at /\ k.proc = j.proc
    BY <1>1 DEF Jobs
  <2>3. jobs' \subseteq jobs \cup {k} /\ UNCHANGED <<clock, task, procs, calls>>
    BY <2>1 DEF Finish
  <2> QED
    BY <2>2, <2>3, RunsGoOn
<1>3. CASE Record(j)
  <2> DEFINE k == [j EXCEPT !.stage = "recorded"]
  <2>1. k.run = j.run /\ k.at = j.at /\ k.proc = j.proc
    BY <1>1 DEF Jobs
  <2>2. jobs' \subseteq jobs \cup {k} /\ UNCHANGED <<clock, task, procs, calls>>
    BY <1>3 DEF Record
  <2> QED
    BY <2>1, <2>2, RunsGoOn
<1>4. CASE EndFails(j)
  BY <1>4, RunsGoOn DEF EndFails
<1> QED
  BY <1>2, <1>3, <1>4

\* A run that gives its claim back leaves only overdue ones behind.
LEMMA FinalizeKeepsSole ==
  ASSUME Sole, IInv', NEW j \in jobs, Finalize(j)
  PROVE  Sole'
<1>1. jobs' = jobs \ {j} /\ UNCHANGED <<clock, procs, calls>>
  BY DEF Finalize
<1>2. CASE ~OwnClaim(j)
  BY <1>1, <1>2, RunsGoOn DEF Finalize
<1>3. CASE OwnClaim(j)
  <2>1. task'.claim = NoClaim
    BY <1>3 DEF Finalize, Sole, IInv, Types, Tasks
  <2>2. \A k \in jobs' : k \in jobs /\ Overdue(k)
    BY <1>1, <1>3 DEF OwnClaim, Sole, IInv, Ids, RunsHaveClaims
  <2>3. RunsHaveClaims'
    BY <1>1, <2>1, <2>2 DEF Sole, RunsHaveClaims, Held, Overdue, procs
  <2>4. CallsAreOld' /\ ClaimIsKnown'
    BY <1>1, <2>1 DEF Sole, CallsAreOld, ClaimIsKnown, Held, procs
  <2> QED
    BY <2>3, <2>4 DEF Sole
<1> QED
  BY <1>2, <1>3

\* Time passes, and processes start their schedulers, stop them and die.
LEMMA TimeKeepsSole ==
  ASSUME Sole, IInv', UNCHANGED task, jobs' \subseteq jobs,
         clock' >= clock, \A p \in Procs : gen'[p] >= gen[p],
         \A j \in jobs' : j.proc \in alive', CallsAreOld'
  PROVE  Sole'
<1>1. \A j \in jobs : j \in Jobs
  BY DEF Sole, IInv, Types
<1>2. \A j \in jobs : Overdue(j) => Overdue(j)'
  BY <1>1, OverdueStays DEF Sole
<1>3. RunsHaveClaims'
  BY <1>2 DEF Sole, RunsHaveClaims, Held
<1>4. ClaimIsKnown'
  <2> SUFFICES ASSUME Held
               PROVE  task.claim.proc \in Procs /\ task.claim.gen \in 1..gen'[task.claim.proc]
    BY DEF ClaimIsKnown, Held
  <2>1. task.claim.proc \in Procs /\ task.claim.gen \in 1..gen[task.claim.proc]
    BY DEF Sole, ClaimIsKnown
  <2>2. /\ gen[task.claim.proc] \in Nat /\ gen'[task.claim.proc] \in Nat
        /\ gen'[task.claim.proc] >= gen[task.claim.proc]
    BY <2>1 DEF Sole, IInv, Types
  <2> QED
    BY <2>1, <2>2
<1> QED
  BY <1>3, <1>4 DEF Sole

LEMMA ProcessKeepsSole ==
  ASSUME Sole, IInv', NEW p \in Procs,
         Tick(p) \/ Start(p) \/ Stop(p) \/ Die(p)
           \/ \E do \in Dos \ {"tick", "sweep"} : Ask(p, do)
  PROVE  Sole'
<1>1. /\ clock \in Nat /\ gen \in [Procs -> Nat] /\ \A q \in Procs : gen[q] \in Nat
      /\ CallsAreOld /\ \A j \in jobs : j.proc \in alive
      /\ on \subseteq Procs /\ calls \subseteq Calls
  BY DEF Sole, IInv, Types, RunsHaveClaims
<1>2. ASSUME NEW do \in Dos, calls' = calls \cup {Call(p, do)}, p \in alive,
             do \in {"tick", "now", "sweep"} => p \in on,
             UNCHANGED <<clock, task, jobs, alive, on, gen>>
      PROVE  Sole'
  <2>1. /\ Call(p, do).proc = p /\ Call(p, do).do = do /\ Call(p, do).now = clock
        /\ Call(p, do).gen = gen[p]
    BY DEF Call
  <2>2. p \in on => gen[p] \in 1..gen[p]
    BY <1>1 DEF CallsAreOld
  <2>3. CallsAreOld'
    BY <1>1, <1>2, <2>1, <2>2 DEF CallsAreOld
  <2>4. clock' >= clock /\ \A q \in Procs : gen'[q] >= gen[q]
    BY <1>1, <1>2
  <2> QED
    BY <1>1, <1>2, <2>3, <2>4, TimeKeepsSole
<1>3. CASE Tick(p)
  <2>1. "tick" \in Dos /\ p \in on /\ p \in alive
    BY <1>1, <1>3 DEF Dos, Tick, CallsAreOld
  <2>2. calls' = calls \cup {Call(p, "tick")} /\ UNCHANGED <<clock, task, jobs, alive, on, gen>>
    BY <1>3 DEF Tick, procs
  <2> QED
    BY <1>2, <2>1, <2>2
<1>4. CASE \E do \in Dos \ {"tick", "sweep"} : Ask(p, do)
  <2>1. PICK do \in Dos \ {"tick", "sweep"} : Ask(p, do)
    BY <1>4
  <2>2. /\ calls' = calls \cup {Call(p, do)} /\ UNCHANGED <<clock, task, jobs, alive, on, gen>>
        /\ p \in alive /\ (do = "now" => p \in on)
    BY <2>1 DEF Ask, procs
  <2> QED
    BY <1>2, <2>2
<1>5. CASE Start(p)
  <2> DEFINE s == [Call(p, "sweep") EXCEPT !.gen = gen[p] + 1]
  <2>1. /\ p \in alive /\ on' = on \cup {p} /\ gen' = [gen EXCEPT ![p] = @ + 1]
        /\ calls' = calls \cup {s} /\ UNCHANGED <<clock, task, alive, jobs>>
    BY <1>5 DEF Start
  <2>2. s.proc = p /\ s.now = clock /\ s.gen = gen[p] + 1
    BY DEF Call
  <2> HIDE DEF s
  <2>3. gen'[p] = gen[p] + 1 /\ \A q \in Procs : gen'[q] \in Nat /\ gen'[q] >= gen[q]
    BY <1>1, <2>1
  <2>4. on' \subseteq alive' /\ \A q \in on' : gen'[q] >= 1
    <3>1. \A q \in on : gen[q] >= 1 /\ q \in Procs
      BY <1>1 DEF CallsAreOld
    <3>2. \A q \in on : gen'[q] >= 1
      BY <1>1, <2>3, <3>1
    <3>3. gen'[p] >= 1
      BY <1>1, <2>3
    <3> QED
      BY <1>1, <2>1, <3>2, <3>3 DEF CallsAreOld
  <2>5. \A c \in calls' : c.now <= clock'
    BY <1>1, <2>1, <2>2 DEF CallsAreOld
  <2>6. ASSUME NEW c \in calls', c.do \in {"tick", "now", "sweep"}
        PROVE  c.proc \in alive' /\ c.gen \in 1..gen'[c.proc]
    <3>1. CASE c = s
      BY <1>1, <2>1, <2>2, <2>3, <3>1
    <3>2. CASE c \in calls
      <4>1. c.proc \in alive /\ c.gen \in 1..gen[c.proc] /\ c.proc \in Procs
        BY <1>1, <2>6, <3>2 DEF CallsAreOld, Calls
      <4>2. gen[c.proc] \in Nat /\ gen'[c.proc] \in Nat /\ gen'[c.proc] >= gen[c.proc]
        BY <1>1, <2>3, <4>1
      <4> QED
        BY <2>1, <4>1, <4>2
    <3> QED
      BY <2>1, <3>1, <3>2
  <2>7. CallsAreOld'
    BY <2>4, <2>5, <2>6 DEF CallsAreOld
  <2> QED
    BY <1>1, <2>1, <2>3, <2>7, TimeKeepsSole
<1>6. CASE Stop(p)
  <2>1. CallsAreOld'
    BY <1>1, <1>6 DEF Stop, CallsAreOld
  <2>2. \A q \in Procs : gen'[q] >= gen[q]
    BY <1>1, <1>6 DEF Stop
  <2> QED
    BY <1>1, <1>6, <2>1, <2>2, TimeKeepsSole DEF Stop
<1>7. CASE Die(p)
  <2>1. CallsAreOld'
    BY <1>1, <1>7 DEF Die, CallsAreOld
  <2>2. \A q \in Procs : gen'[q] >= gen[q]
    BY <1>1, <1>7 DEF Die
  <2>3. jobs' \subseteq jobs /\ \A j \in jobs' : j.proc \in alive'
    BY <1>1, <1>7 DEF Die
  <2> QED
    BY <1>1, <1>7, <2>1, <2>2, <2>3, TimeKeepsSole DEF Die
<1> QED
  BY <1>3, <1>4, <1>5, <1>6, <1>7

LEMMA InitSole ==
  ASSUME Init
  PROVE  Sole
<1>1. IInv
  BY InitHolds
<1>2. on = {} /\ calls = {} /\ jobs = {} /\ task.claim = NoClaim
  BY DEF Init
<1> QED
  BY <1>1, <1>2 DEF Sole, CallsAreOld, ClaimIsKnown, RunsHaveClaims, Held

LEMMA NextKeepsSole ==
  ASSUME Sole, [Next]_vars
  PROVE  Sole'
<1>1. IInv'
  BY NextKeeps DEF Sole
<1>2. clock \in Nat /\ \A q \in Procs : gen[q] \in Nat
  BY DEF Sole, IInv, Types
<1>3. CASE Pass
  <2>1. clock' = clock + 1 /\ clock' >= clock /\ UNCHANGED <<task, alive, on, gen, calls, jobs>>
    BY <1>2, <1>3 DEF Pass, procs
  <2>2. \A c \in calls : c.now \in Nat
    BY CallFact DEF Sole, IInv
  <2>3. CallsAreOld'
    BY <1>2, <2>1, <2>2 DEF Sole, CallsAreOld
  <2> QED
    BY <1>1, <1>2, <2>1, <2>3, TimeKeepsSole DEF Sole, RunsHaveClaims
<1>4. CASE \E p \in Procs : Tick(p) \/ Start(p) \/ Stop(p) \/ Die(p)
  BY <1>1, <1>4, ProcessKeepsSole
<1>5. CASE \E p \in Procs, do \in {"now", "pause", "resume", "save", "move"} : Ask(p, do)
  <2>1. \A do \in {"now", "pause", "resume", "save", "move"} : do \in Dos \ {"tick", "sweep"}
    BY DEF Dos
  <2> QED
    BY <1>1, <1>5, <2>1, ProcessKeepsSole
<1>6. CASE \E c \in calls : Locked(c)
  BY <1>1, <1>6, LockedKeepsSole
<1>7. CASE \E j \in jobs, status \in {"dispatched", "failed"} : Finish(j, status)
  BY <1>1, <1>7, JobKeepsSole
<1>8. CASE \E j \in jobs : Record(j) \/ EndFails(j)
  BY <1>1, <1>8, JobKeepsSole
<1>9. CASE \E j \in jobs : Finalize(j)
  BY <1>1, <1>9, FinalizeKeepsSole
<1>10. CASE \E f \in flushes : FlushRun(f)
  BY <1>1, <1>10, RunsGoOn DEF FlushRun
<1>11. CASE UNCHANGED vars
  BY <1>1, <1>11, RunsGoOn DEF vars
<1> QED
  BY <1>3, <1>4, <1>5, <1>6, <1>7, <1>8, <1>9, <1>10, <1>11 DEF Next

\* A run that is not overdue holds the claim, and no run is later than the claim.
LEMMA SoleIsExclusive ==
  ASSUME Sole
  PROVE  OverlapOnlyWhenOverdue
<1> SUFFICES ASSUME NEW j \in jobs, NEW k \in jobs, j.run < k.run, ~Overdue(j)
             PROVE  FALSE
  BY DEF OverlapOnlyWhenOverdue
<1>1. task.claim.run = j.run /\ Held
  BY HolderHolds DEF Sole, RunsHaveClaims
<1>2. k.run <= j.run
  BY <1>1 DEF Sole, RunsHaveClaims
<1>3. j.run \in Nat /\ k.run \in Nat
  BY DEF Sole, IInv, Types, Jobs
<1> QED
  BY <1>2, <1>3

\* The claim is a mutual exclusion over processes as far as it can be one: two
\* runs of a task overlap only if the older has held its claim for the limit, or
\* its process has started its scheduler anew.
THEOREM RunsOverlapOnlyWhenOverdue == Spec => []OverlapOnlyWhenOverdue
<1>1. Init => Sole
  BY InitSole
<1>2. Sole /\ [Next]_vars => Sole'
  BY NextKeepsSole
<1>3. Sole => OverlapOnlyWhenOverdue
  BY SoleIsExclusive
<1> QED
  BY <1>1, <1>2, <1>3, PTL DEF Spec
=============================================================================
