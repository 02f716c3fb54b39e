----------------------------- MODULE SessionClaim -----------------------------
(***************************************************************************)
(* The owner.lock of a session directory, by which the viewer processes    *)
(* that share a log directory agree on who writes its journal              *)
(* (src/packages/app/server/lib/v2/session-owner.js).                      *)
(*                                                                         *)
(* Each file operation and each pid probe is a step of its own: between    *)
(* two of them other processes run, claim, release and crash.  A call is   *)
(* synchronous, so a process has at most one under way.  A process whose   *)
(* claim is refused may write to the dir all the same, unclaimed.  A dead  *)
(* process's pid is not reused (the source accepts that risk).             *)
(***************************************************************************)
EXTENDS Integers

CONSTANTS
  Pids,      \* the processes, by pid
  NoPid      \* no process

ASSUME NoPidAssumption == NoPid \notin Pids

VARIABLES
  lock,      \* owner.lock: who created the file (NoPid: there is none), and whether its content is there
  alive,     \* processes that run
  bound,     \* those that have a session in the dir, with a claim or without
  claimed,   \* those that have the dir in their _claimedDirs
  pc,        \* the next step of a process's call, or "idle"
  attempt,   \* attempt of its loop
  seen,      \* holder: the pid it read
  clear,     \* history: processes whose call nothing has stood in the way of
  stolen     \* history: a process has unlinked the file of another live process

vars == <<lock, alive, bound, claimed, pc, attempt, seen, clear, stolen>>

NoFile == [by |-> NoPid, written |-> FALSE]
Torn(p) == [by |-> p, written |-> FALSE]
LockOf(p) == [by |-> p, written |-> TRUE]

MaxClaimAttempts == 3
Steps == {"idle", "create", "write", "read", "check", "probe", "recycle", "unlink"}

-----------------------------------------------------------------------------
(* Steps *)

Running(p, step) == p \in alive /\ pc[p] = step
Goto(p, step) == pc' = [pc EXCEPT ![p] = step]

\* The call of p is over.
Done(p) ==
  /\ Goto(p, "idle")
  /\ attempt' = [attempt EXCEPT ![p] = 1]
  /\ seen' = [seen EXCEPT ![p] = NoPid]

Won(p) == Done(p) /\ claimed' = claimed \cup {p}
Refuse(p) == Done(p) /\ UNCHANGED claimed

\* Mutant: attempts are not counted.
RetriesForEver(p) == Goto(p, "create") /\ UNCHANGED <<attempt, seen, claimed>>

\* Mutant: there is no further attempt after a stale lock is removed.
GivesUp(p) == Refuse(p)

\* Mutant: one attempt too many.
RetryOnceMore(p) ==
  \/ /\ attempt[p] <= MaxClaimAttempts
     /\ attempt' = [attempt EXCEPT ![p] = @ + 1]
     /\ seen' = [seen EXCEPT ![p] = NoPid]
     /\ Goto(p, "create")
     /\ UNCHANGED claimed
  \/ attempt[p] > MaxClaimAttempts /\ Refuse(p)

\* The next attempt, if there is one left.
Retry(p) ==
  \/ /\ attempt[p] < MaxClaimAttempts
     /\ attempt' = [attempt EXCEPT ![p] = @ + 1]
     /\ seen' = [seen EXCEPT ![p] = NoPid]
     /\ Goto(p, "create")
     /\ UNCHANGED claimed
  \/ attempt[p] = MaxClaimAttempts /\ Refuse(p)

\* acquireSessionClaim(): on adoption, on a resume, for every new session and
\* after every rotation, whether or not the process has the claim already.  The
\* session is bound to the dir whatever comes of it.  (Not if an adoption or a
\* resume is refused: that process may release the dir here, and not in the code.)
Acquire(p) ==
  /\ Running(p, "idle")
  /\ Goto(p, "create")
  /\ bound' = bound \cup {p}
  /\ clear' = IF lock = NoFile \/ (lock.written /\ lock.by \notin alive \ {p})
                THEN clear \cup {p} ELSE clear \ {p}
  /\ UNCHANGED <<lock, alive, claimed, attempt, seen, stolen>>

\* The exclusive open of writeFileSync.
Create(p) ==
  /\ Running(p, "create")
  /\ \/ /\ lock = NoFile
        /\ lock' = Torn(p)
        /\ Goto(p, "write")
        /\ clear' = clear \cap {p}
     \/ /\ lock # NoFile
        /\ Goto(p, "read")
        /\ UNCHANGED <<lock, clear>>
  /\ UNCHANGED <<alive, bound, claimed, attempt, seen, stolen>>

\* Its write, which goes to the file p created, wherever that is now.
Write(p) ==
  /\ Running(p, "write")
  /\ lock' = IF lock = Torn(p) THEN LockOf(p) ELSE lock
  /\ Won(p)
  /\ clear' = clear \cap {p}
  /\ UNCHANGED <<alive, bound, stolen>>

\* Mutant: an error of the write is taken for a claim.
ErrorIgnored(p) ==
  /\ Running(p, "create") \/ Running(p, "write")
  /\ Won(p)
  /\ clear' = clear \ {p}
  /\ UNCHANGED <<lock, alive, bound, stolen>>

\* Either fails, and leaves what there is.
IoError(p) ==
  /\ Running(p, "create") \/ Running(p, "write")
  /\ Refuse(p)
  /\ clear' = clear \ {p}
  /\ UNCHANGED <<lock, alive, bound, stolen>>

\* readSessionClaim(): a process that finds its own pid is done.
Read(p) ==
  /\ Running(p, "read")
  /\ \/ lock = LockOf(p) /\ Won(p)
     \/ /\ lock.written /\ lock.by # p
        /\ seen' = [seen EXCEPT ![p] = lock.by]
        /\ Goto(p, "probe")
        /\ UNCHANGED <<attempt, claimed>>
     \/ /\ ~lock.written
        /\ Goto(p, "check")
        /\ UNCHANGED <<attempt, seen, claimed>>
  /\ UNCHANGED <<lock, alive, bound, clear, stolen>>

\* Mutant: a file without content is removed as stale (as im-lock.js does).
TornIsStale(p) ==
  /\ Running(p, "check")
  /\ lock' = NoFile
  /\ Retry(p)
  /\ clear' = clear \cap {p}
  /\ UNCHANGED <<alive, bound, stolen>>

\* existsSync(): there was nothing to read, because the file is gone or because
\* it has no content yet.
Check(p) ==
  /\ Running(p, "check")
  /\ \/ lock = NoFile /\ Retry(p)
     \/ lock # NoFile /\ Refuse(p)
  /\ UNCHANGED <<lock, alive, bound, clear, stolen>>

\* isPidAlive() of the holder.
Probe(p) ==
  /\ Running(p, "probe")
  /\ \/ seen[p] \in alive /\ Refuse(p)
     \/ /\ seen[p] \notin alive
        /\ Goto(p, "recycle")
        /\ UNCHANGED <<claimed, attempt, seen>>
  /\ UNCHANGED <<lock, alive, bound, clear, stolen>>

\* The unlink of a stale lock: of whatever is there by now.
Recycle(p) ==
  /\ Running(p, "recycle")
  /\ lock' = NoFile
  /\ stolen' = (stolen \/ lock.by \in alive)
  /\ clear' = clear \cap {p}
  /\ Retry(p)
  /\ UNCHANGED <<alive, bound>>

-----------------------------------------------------------------------------
(* Sessions without a claim, release and death *)

\* A process that makes no claims (an IM worker) binds a session to the dir.
BindUnclaimed(p) ==
  /\ Running(p, "idle")
  /\ bound' = bound \cup {p}
  /\ UNCHANGED <<lock, alive, claimed, pc, attempt, seen, clear, stolen>>

\* The session goes elsewhere, or its process closes.
Leave(p) == bound' = bound \ {p} /\ claimed' = claimed \ {p}

\* releaseSessionClaim() of a dir that was bound, claimed or not: it reads the
\* lock first, and leaves that of another process alone.  A file without content
\* reads as no claim at all.
Release(p) ==
  /\ Running(p, "idle") /\ p \in bound
  /\ \/ /\ lock.written /\ lock.by # p
        /\ Leave(p)
        /\ UNCHANGED pc
     \/ /\ ~(lock.written /\ lock.by # p)
        /\ Goto(p, "unlink")
        /\ UNCHANGED <<bound, claimed>>
  /\ UNCHANGED <<lock, alive, attempt, seen, clear, stolen>>

\* Its unlink: of whatever is there by now.
Unlink(p) ==
  /\ Running(p, "unlink")
  /\ lock' = NoFile
  /\ stolen' = (stolen \/ lock.by \in alive \ {p})
  /\ Leave(p)
  /\ Goto(p, "idle")
  /\ clear' = {}
  /\ UNCHANGED <<alive, attempt, seen>>

\* A process dies, in the middle of a call or not; its file stays.
Crash(p) ==
  /\ p \in alive
  /\ alive' = alive \ {p}
  /\ Leave(p)
  /\ clear' = clear \ {p}
  /\ Done(p)
  /\ UNCHANGED <<lock, stolen>>

Init ==
  /\ lock = NoFile
  /\ alive = Pids
  /\ bound = {} /\ claimed = {}
  /\ pc = [p \in Pids |-> "idle"]
  /\ attempt = [p \in Pids |-> 1]
  /\ seen = [p \in Pids |-> NoPid]
  /\ clear = {}
  /\ stolen = FALSE

\* The steps of a call that is under way.
Step(p) ==
  \/ Create(p) \/ Write(p) \/ IoError(p)
  \/ Read(p) \/ Check(p) \/ Probe(p) \/ Recycle(p)
  \/ Unlink(p)

Next == \E p \in Pids : Step(p) \/ Acquire(p) \/ BindUnclaimed(p) \/ Release(p) \/ Crash(p)

Spec == Init /\ [][Next]_vars

\* Processes that race for a dir nobody releases.
RaceSpec == Init /\ [][\E p \in Pids : Step(p) \/ Acquire(p) \/ Crash(p)]_vars

\* Calls are synchronous: a live process goes on with the one it is in.
FairSpec == Spec /\ \A p \in Pids : WF_vars(Step(p))

-----------------------------------------------------------------------------
(* Properties *)

TypeOK ==
  /\ lock \in [by : Pids \cup {NoPid}, written : BOOLEAN]
  /\ lock.by = NoPid => ~lock.written
  /\ alive \subseteq Pids /\ bound \subseteq alive /\ claimed \subseteq bound
  /\ clear \subseteq alive
  /\ pc \in [Pids -> Steps]
  /\ attempt \in [Pids -> 1..MaxClaimAttempts]
  /\ seen \in [Pids -> Pids \cup {NoPid}]
  /\ stolen \in BOOLEAN

\* What the header of acquireSessionClaim says: of processes racing for a
\* dead-owned dir exactly one wins (lines 48-50).
OneWinner == \A p, q \in claimed : p = q

\* A second live owner takes a process that unlinks the file of another live one:
\* a recycler that finds a claim made since it read the dead one, or a releaser
\* that read nothing where a claim was being made.  No crash, refused claim, failed
\* write or half-written file leads to two owners otherwise (lines 73-96, 112-118).
OneOwnerUnlessStolen == stolen \/ OneWinner

\* Until then the lock names its live owner, so every other process is kept out
\* and no reader takes the dir for unowned, whatever sessions without a claim
\* release meanwhile (lines 85-92, 112-118, 129-134).
OwnerIsVisible == stolen \/ \A p \in claimed : lock = LockOf(p)

\* A dead owner never blocks: a call that found no lock, its own or a dead one,
\* and that no other process disturbed, wins (lines 12-13, 94-96).
ClearCallWins ==
  [][\A p \in alive' : p \in clear' /\ pc[p] # "idle" /\ pc'[p] = "idle" => p \in claimed']_vars

\* How many steps a call may still take.
StepsLeft(step) ==
  CASE step = "create" -> 4 [] step = "read" -> 3 [] step = "probe" -> 2 [] OTHER -> 1

Rank(p) ==
  IF pc[p] = "idle" THEN 0 ELSE (MaxClaimAttempts - attempt[p]) * 4 + StepsLeft(pc[p])

CallsShrink ==
  \A p \in Pids : pc[p] # "idle" =>
    Rank(p)' < Rank(p) \/ UNCHANGED <<pc[p], attempt[p], seen[p]>>

\* A call is wait-free: each step of its own brings its end nearer and no step of
\* another process puts it off, so it is over after twelve of its own at the most,
\* whatever the others create, recycle and release meanwhile (lines 33, 73-101).
CallsAreShort == [][CallsShrink]_vars

\* Every call returns, however the others claim, release and recycle around it:
\* the caller is the writer's synchronous ingest (lines 73, 91, 95).
CallsReturn == \A p \in Pids : pc[p] # "idle" ~> pc[p] = "idle"
=============================================================================
