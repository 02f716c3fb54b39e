------------------------- MODULE SessionClaim_proofs -------------------------
(***************************************************************************)
(* The claim protocol for any number of processes.  The inductive          *)
(* invariant says what the lock holds while a process is between its steps: *)
(* as long as no claim has been stolen, an owner's claim is there, and a   *)
(* process that writes finds the file it created; and a call nothing stands in the way of   *)
(* meets, step after step, no lock, its own or a dead one.  Whatever it    *)
(* meets, each of its steps uses up one of a bounded number.               *)
(***************************************************************************)
EXTENDS SessionClaim, TLAPS

CallersLive == \A p \in Pids : pc[p] # "idle" => p \in alive

\* A call is made for a session that is bound to the dir.
CallersBound == \A p \in Pids : pc[p] # "idle" => p \in bound

IdleStartsOver == \A p \in Pids : pc[p] \in {"idle", "unlink"} => attempt[p] = 1

Exclusion ==
  ~stolen =>
    /\ \A p \in claimed : lock = LockOf(p)
    /\ \A p \in Pids : pc[p] = "write" => lock = Torn(p)

\* Nothing is there, or a claim of p itself or of a dead process.
NoRival(p) == lock.written /\ lock.by \notin alive \ {p}

ClearCalls ==
  \A p \in clear :
    /\ pc[p] = "create" => lock = NoFile \/ (NoRival(p) /\ attempt[p] = 1)
    /\ pc[p] = "write" => lock = Torn(p)
    /\ pc[p] = "read" => NoRival(p) /\ attempt[p] = 1
    /\ pc[p] # "check"
    /\ pc[p] = "probe" => seen[p] \notin alive /\ attempt[p] = 1
    /\ pc[p] = "recycle" => attempt[p] = 1

IInv == TypeOK /\ CallersLive /\ CallersBound /\ IdleStartsOver /\ Exclusion /\ ClearCalls

USE NoPidAssumption DEF Running, MaxClaimAttempts, Steps

-----------------------------------------------------------------------------
(* Steps *)

LEMMA Files ==
  /\ NoFile \in [by : Pids \cup {NoPid}, written : BOOLEAN]
  /\ NoFile.by = NoPid /\ NoFile.written = FALSE
  /\ \A p \in Pids :
       /\ Torn(p) \in [by : Pids \cup {NoPid}, written : BOOLEAN]
       /\ LockOf(p) \in [by : Pids \cup {NoPid}, written : BOOLEAN]
       /\ Torn(p).by = p /\ Torn(p).written = FALSE
       /\ LockOf(p).by = p /\ LockOf(p).written = TRUE
BY DEF NoFile, Torn, LockOf

LEMMA FilesDiffer ==
  /\ \A p \in Pids : Torn(p) # NoFile /\ LockOf(p) # NoFile
  /\ \A p, q \in Pids : Torn(p) # LockOf(q) /\ (p # q => Torn(p) # Torn(q) /\ LockOf(p) # LockOf(q))
<1>1. \A p \in Pids : p # NoPid
  OBVIOUS
<1>2. ASSUME NEW p \in Pids PROVE Torn(p) # NoFile /\ LockOf(p) # NoFile
  <2>1. Torn(p).by # NoFile.by /\ LockOf(p).by # NoFile.by
    BY <1>1, Files
  <2> QED
    BY <2>1
<1>3. ASSUME NEW p \in Pids, NEW q \in Pids
      PROVE  Torn(p) # LockOf(q) /\ (p # q => Torn(p) # Torn(q) /\ LockOf(p) # LockOf(q))
  <2>1. Torn(p).by = p /\ Torn(q).by = q /\ LockOf(p).by = p /\ LockOf(q).by = q
    BY Files
  <2>2. Torn(p).written # LockOf(q).written
    BY Files
  <2> QED
    BY <2>1, <2>2
<1> QED
  BY <1>2, <1>3

LEMMA InitIInv == Init => IInv
<1> SUFFICES ASSUME Init PROVE IInv
  OBVIOUS
<1>1. TypeOK
  <2>1. lock \in [by : Pids \cup {NoPid}, written : BOOLEAN] /\ ~lock.written
    BY DEF Init, NoFile
  <2>2. attempt \in [Pids -> 1..MaxClaimAttempts]
    BY DEF Init
  <2> QED
    BY <2>1, <2>2 DEF Init, TypeOK
<1>2. CallersLive /\ CallersBound /\ IdleStartsOver /\ Exclusion /\ ClearCalls
  BY DEF Init, CallersLive, CallersBound, IdleStartsOver, Exclusion, ClearCalls
<1> QED
  BY <1>1, <1>2 DEF IInv

LEMMA AcquireIInv ==
  ASSUME IInv, NEW p \in Pids, Acquire(p)
  PROVE  IInv'
<1>1. TypeOK'
  BY DEF IInv, TypeOK, Acquire, Goto, NoFile, Torn, LockOf
<1>2. CallersLive' /\ CallersBound' /\ IdleStartsOver'
  BY DEF IInv, TypeOK, CallersLive, CallersBound, IdleStartsOver, Acquire, Goto
<1>3. Exclusion'
  BY DEF IInv, TypeOK, CallersLive, Exclusion, Acquire, Goto, NoFile, Torn, LockOf
<1>4. ClearCalls'
  <2>1. /\ UNCHANGED <<lock, alive, attempt, seen>>
        /\ pc'[p] = "create" /\ \A q \in Pids \ {p} : pc'[q] = pc[q]
        /\ clear' \ {p} \subseteq clear /\ clear' \subseteq Pids
    BY DEF IInv, TypeOK, Acquire, Goto
  <2>2. p \in clear' => lock = NoFile \/ NoRival(p)
    BY DEF Acquire, NoRival
  <2>3. attempt[p] = 1
    BY DEF IInv, Acquire, IdleStartsOver
  <2>4. ASSUME NEW q \in clear', q # p
        PROVE  /\ pc[q] = "create" => lock = NoFile \/ (NoRival(q) /\ attempt[q] = 1)
               /\ pc[q] = "write" => lock = Torn(q)
               /\ pc[q] = "read" => NoRival(q) /\ attempt[q] = 1
               /\ pc[q] # "check"
               /\ pc[q] = "probe" => seen[q] \notin alive /\ attempt[q] = 1
               /\ pc[q] = "recycle" => attempt[q] = 1
    BY <2>1, <2>4 DEF IInv, ClearCalls
  <2> QED
    BY <2>1, <2>2, <2>3, <2>4 DEF ClearCalls, NoRival
<1> QED
  BY <1>1, <1>2, <1>3, <1>4 DEF IInv

LEMMA CreateIInv ==
  ASSUME IInv, NEW p \in Pids, Create(p)
  PROVE  IInv'
<1>1. TypeOK'
  <2>1. lock' \in [by : Pids \cup {NoPid}, written : BOOLEAN] /\ (lock'.by = NoPid => ~lock'.written)
    BY Files DEF IInv, TypeOK, Create
  <2>2. pc' \in [Pids -> Steps]
    BY DEF IInv, TypeOK, Create, Goto
  <2>3. clear' \subseteq alive'
    BY DEF IInv, TypeOK, Create
  <2>4. attempt' \in [Pids -> 1..MaxClaimAttempts] /\ UNCHANGED <<alive, bound, claimed, attempt, seen, stolen>>
    BY DEF IInv, TypeOK, Create
  <2> QED
    BY <2>1, <2>2, <2>3, <2>4 DEF IInv, TypeOK
<1>2. CallersLive' /\ CallersBound' /\ IdleStartsOver'
  BY DEF IInv, TypeOK, CallersLive, CallersBound, IdleStartsOver, Create, Goto
<1>3. Exclusion'
  BY DEF IInv, TypeOK, CallersLive, Exclusion, Create, Goto, NoFile, Torn, LockOf
<1>4. ClearCalls'
  BY DEF IInv, TypeOK, CallersLive, ClearCalls, NoRival, Create, Goto, NoFile, Torn, LockOf
<1> QED
  BY <1>1, <1>2, <1>3, <1>4 DEF IInv

LEMMA WriteIInv ==
  ASSUME IInv, NEW p \in Pids, Write(p)
  PROVE  IInv'
<1>1. TypeOK'
  BY DEF IInv, TypeOK, CallersBound, Write, Goto, Won, Done, NoFile, Torn, LockOf
<1>2. CallersLive' /\ CallersBound' /\ IdleStartsOver'
  BY DEF IInv, TypeOK, CallersLive, CallersBound, IdleStartsOver, Write, Goto, Won, Done
<1>3. Exclusion'
  <2> SUFFICES ASSUME ~stolen PROVE Exclusion'
    BY DEF Write, Exclusion
  <2>1. lock = Torn(p) /\ lock' = LockOf(p) /\ claimed' = claimed \cup {p}
    BY DEF IInv, Exclusion, Write, Won
  <2>2. claimed = {}
    BY <2>1, FilesDiffer DEF IInv, TypeOK, Exclusion
  <2>3. pc'[p] = "idle" /\ \A q \in Pids \ {p} : pc'[q] = pc[q]
    BY DEF IInv, TypeOK, Write, Won, Done, Goto
  <2>4. \A q \in Pids \ {p} : pc[q] # "write"
    BY <2>1, <2>2, FilesDiffer DEF IInv, Exclusion
  <2> QED
    BY <2>1, <2>2, <2>3, <2>4 DEF Exclusion
<1>4. ClearCalls'
  <2>1. clear' \subseteq {p}
    BY DEF Write
  <2>2. pc'[p] = "idle"
    BY DEF IInv, TypeOK, Write, Won, Done, Goto
  <2> QED
    BY <2>1, <2>2 DEF ClearCalls
<1> QED
  BY <1>1, <1>2, <1>3, <1>4 DEF IInv

LEMMA IoErrorIInv ==
  ASSUME IInv, NEW p \in Pids, IoError(p)
  PROVE  IInv'
<1>1. TypeOK'
  BY DEF IInv, TypeOK, IoError, Goto, Refuse, Done, NoFile, Torn, LockOf
<1>2. CallersLive' /\ CallersBound' /\ IdleStartsOver'
  BY DEF IInv, TypeOK, CallersLive, CallersBound, IdleStartsOver, IoError, Goto, Refuse, Done
<1>3. Exclusion'
  BY DEF IInv, TypeOK, CallersLive, Exclusion, IoError, Goto, Refuse, Done, NoFile, Torn, LockOf
<1>4. ClearCalls'
  BY DEF IInv, TypeOK, CallersLive, ClearCalls, NoRival, IoError, Goto, Refuse, Done, NoFile, Torn, LockOf
<1> QED
  BY <1>1, <1>2, <1>3, <1>4 DEF IInv

LEMMA ReadIInv ==
  ASSUME IInv, NEW p \in Pids, Read(p)
  PROVE  IInv'
<1>1. TypeOK'
  <2>1. claimed' \subseteq bound'
    <3>1. claimed' \subseteq claimed \cup {p}
      BY DEF Read, Won
    <3>2. bound' = bound /\ claimed \subseteq bound
      BY DEF IInv, TypeOK, Read
    <3>3. p \in bound
      BY DEF IInv, CallersBound, Read
    <3> QED
      BY <3>1, <3>2, <3>3
  <2>2. /\ pc' \in [Pids -> Steps] /\ attempt' \in [Pids -> 1..MaxClaimAttempts]
        /\ seen' \in [Pids -> Pids \cup {NoPid}]
    BY DEF IInv, TypeOK, Read, Goto, Won, Done
  <2>3. UNCHANGED <<lock, alive, bound, clear, stolen>>
    BY DEF Read
  <2> QED
    BY <2>1, <2>2, <2>3 DEF IInv, TypeOK
<1>2. CallersLive' /\ CallersBound' /\ IdleStartsOver'
  BY DEF IInv, TypeOK, CallersLive, CallersBound, IdleStartsOver, Read, Goto, Won, Done
<1>3. Exclusion'
  BY DEF IInv, TypeOK, CallersLive, Exclusion, Read, Goto, Won, Done, NoFile, Torn, LockOf
<1>4. ClearCalls'
  BY DEF IInv, TypeOK, CallersLive, ClearCalls, NoRival, Read, Goto, Won, Done, NoFile, Torn, LockOf
<1> QED
  BY <1>1, <1>2, <1>3, <1>4 DEF IInv

LEMMA CheckIInv ==
  ASSUME IInv, NEW p \in Pids, Check(p)
  PROVE  IInv'
<1>1. TypeOK'
  BY DEF IInv, TypeOK, Check, Goto, Retry, Refuse, Done, NoFile, Torn, LockOf
<1>2. CallersLive' /\ CallersBound' /\ IdleStartsOver'
  BY DEF IInv, TypeOK, CallersLive, CallersBound, IdleStartsOver, Check, Goto, Retry, Refuse, Done
<1>3. Exclusion'
  BY DEF IInv, TypeOK, CallersLive, Exclusion, Check, Goto, Retry, Refuse, Done, NoFile, Torn, LockOf
<1>4. ClearCalls'
  BY DEF IInv, TypeOK, CallersLive, ClearCalls, NoRival, Check, Goto, Retry, Refuse, Done, NoFile, Torn, LockOf
<1> QED
  BY <1>1, <1>2, <1>3, <1>4 DEF IInv

LEMMA ProbeIInv ==
  ASSUME IInv, NEW p \in Pids, Probe(p)
  PROVE  IInv'
<1>1. TypeOK'
  BY DEF IInv, TypeOK, Probe, Goto, Refuse, Done, NoFile, Torn, LockOf
<1>2. CallersLive' /\ CallersBound' /\ IdleStartsOver'
  BY DEF IInv, TypeOK, CallersLive, CallersBound, IdleStartsOver, Probe, Goto, Refuse, Done
<1>3. Exclusion'
  BY DEF IInv, TypeOK, CallersLive, Exclusion, Probe, Goto, Refuse, Done, NoFile, Torn, LockOf
<1>4. ClearCalls'
  BY DEF IInv, TypeOK, CallersLive, ClearCalls, NoRival, Probe, Goto, Refuse, Done, NoFile, Torn, LockOf
<1> QED
  BY <1>1, <1>2, <1>3, <1>4 DEF IInv

LEMMA RecycleIInv ==
  ASSUME IInv, NEW p \in Pids, Recycle(p)
  PROVE  IInv'
<1>1. TypeOK'
  BY DEF IInv, TypeOK, Recycle, Goto, Retry, Refuse, Done, NoFile, Torn, LockOf
<1>2. CallersLive' /\ CallersBound' /\ IdleStartsOver'
  BY DEF IInv, TypeOK, CallersLive, CallersBound, IdleStartsOver, Recycle, Goto, Retry, Refuse, Done
<1>3. Exclusion'
  <2> SUFFICES ASSUME ~stolen' PROVE Exclusion'
    BY DEF Exclusion
  <2>1. ~stolen /\ lock.by \notin alive
    BY DEF Recycle
  <2>2. claimed = {}
    BY <2>1, Files DEF IInv, TypeOK, Exclusion
  <2>3. pc'[p] \in {"idle", "create"} /\ \A q \in Pids \ {p} : pc'[q] = pc[q]
    BY DEF IInv, TypeOK, Recycle, Retry, Refuse, Done, Goto
  <2>4. \A q \in Pids : pc[q] # "write"
    BY <2>1, <2>2, Files DEF IInv, CallersLive, Exclusion
  <2>5. claimed' = claimed
    BY DEF Recycle, Retry, Refuse
  <2> QED
    BY <2>2, <2>3, <2>4, <2>5 DEF Exclusion
<1>4. ClearCalls'
  <2>1. clear' \subseteq {p} /\ lock' = NoFile
    BY DEF Recycle
  <2>2. pc'[p] \in {"idle", "create"}
    BY DEF IInv, TypeOK, Recycle, Retry, Refuse, Done, Goto
  <2> QED
    BY <2>1, <2>2 DEF ClearCalls
<1> QED
  BY <1>1, <1>2, <1>3, <1>4 DEF IInv

LEMMA BindUnclaimedIInv ==
  ASSUME IInv, NEW p \in Pids, BindUnclaimed(p)
  PROVE  IInv'
<1>1. TypeOK'
  BY DEF IInv, TypeOK, BindUnclaimed
<1>2. CallersLive' /\ CallersBound' /\ IdleStartsOver' /\ Exclusion' /\ ClearCalls'
  BY DEF IInv, CallersLive, CallersBound, IdleStartsOver, Exclusion, ClearCalls, NoRival, BindUnclaimed
<1> QED
  BY <1>1, <1>2 DEF IInv

LEMMA ReleaseIInv ==
  ASSUME IInv, NEW p \in Pids, Release(p)
  PROVE  IInv'
<1>1. TypeOK'
  BY DEF IInv, TypeOK, Release, Leave, Goto, NoFile, Torn, LockOf
<1>2. CallersLive' /\ CallersBound' /\ IdleStartsOver'
  BY DEF IInv, TypeOK, CallersLive, CallersBound, IdleStartsOver, Release, Leave, Goto
<1>3. Exclusion'
  BY DEF IInv, TypeOK, CallersLive, Exclusion, Release, Leave, Goto, NoFile, Torn, LockOf
<1>4. ClearCalls'
  BY DEF IInv, TypeOK, CallersLive, ClearCalls, NoRival, Release, Goto, NoFile, Torn, LockOf
<1> QED
  BY <1>1, <1>2, <1>3, <1>4 DEF IInv

LEMMA UnlinkIInv ==
  ASSUME IInv, NEW p \in Pids, Unlink(p)
  PROVE  IInv'
<1>1. TypeOK'
  BY DEF IInv, TypeOK, Unlink, Leave, Goto, NoFile, Torn, LockOf
<1>2. CallersLive' /\ CallersBound' /\ IdleStartsOver'
  BY DEF IInv, TypeOK, CallersLive, CallersBound, IdleStartsOver, Unlink, Leave, Goto
<1>3. Exclusion'
  <2> SUFFICES ASSUME ~stolen' PROVE Exclusion'
    BY DEF Exclusion
  <2>1. /\ ~stolen /\ lock.by \notin alive \ {p}
        /\ claimed' = claimed \ {p} /\ pc'[p] = "idle" /\ \A q \in Pids \ {p} : pc'[q] = pc[q]
    BY DEF IInv, TypeOK, Unlink, Leave, Goto
  <2>2. claimed \ {p} = {}
    BY <2>1, Files DEF IInv, TypeOK, Exclusion
  <2>3. \A q \in Pids \ {p} : pc[q] # "write"
    BY <2>1, Files DEF IInv, CallersLive, Exclusion
  <2> QED
    BY <2>1, <2>2, <2>3 DEF Exclusion
<1>4. ClearCalls'
  BY DEF IInv, TypeOK, CallersLive, ClearCalls, NoRival, Unlink, Goto, NoFile, Torn, LockOf
<1> QED
  BY <1>1, <1>2, <1>3, <1>4 DEF IInv

LEMMA CrashIInv ==
  ASSUME IInv, NEW p \in Pids, Crash(p)
  PROVE  IInv'
<1>1. TypeOK'
  BY DEF IInv, TypeOK, Crash, Leave, Goto, Done, NoFile, Torn, LockOf
<1>2. CallersLive' /\ CallersBound' /\ IdleStartsOver'
  BY DEF IInv, TypeOK, CallersLive, CallersBound, IdleStartsOver, Crash, Leave, Goto, Done
<1>3. Exclusion'
  BY DEF IInv, TypeOK, CallersLive, Exclusion, Crash, Leave, Goto, Done, NoFile, Torn, LockOf
<1>4. ClearCalls'
  BY DEF IInv, TypeOK, CallersLive, ClearCalls, NoRival, Crash, Goto, Done, NoFile, Torn, LockOf
<1> QED
  BY <1>1, <1>2, <1>3, <1>4 DEF IInv

-----------------------------------------------------------------------------
(* Theorems *)

LEMMA NextIInv ==
  ASSUME IInv, [Next]_vars
  PROVE  IInv'
<1>1. CASE UNCHANGED vars
  BY <1>1 DEF vars, IInv, TypeOK, CallersLive, CallersBound, IdleStartsOver, Exclusion, ClearCalls, NoRival
<1>2. ASSUME NEW p \in Pids, Step(p) \/ Acquire(p) \/ BindUnclaimed(p) \/ Release(p) \/ Crash(p)
      PROVE  IInv'
  BY <1>2, AcquireIInv, CreateIInv, WriteIInv, IoErrorIInv, ReadIInv, CheckIInv,
     ProbeIInv, RecycleIInv, BindUnclaimedIInv, ReleaseIInv, UnlinkIInv, CrashIInv DEF Step
<1> QED
  BY <1>1, <1>2 DEF Next

THEOREM IInvHolds == Spec => []IInv
BY InitIInv, NextIInv, PTL DEF Spec

\* Every variable keeps its type; the attempts stay within their bound and only
\* live processes claim.
THEOREM TypeCorrect == Spec => []TypeOK
BY IInvHolds, PTL DEF IInv

\* Two live owners take a process that unlinked the file of another live one, as
\* a recycler that came late or as a releaser that read nothing (lines 73-96,
\* 112-118).
THEOREM OneOwnerUnlessStolenHolds == Spec => []OneOwnerUnlessStolen
<1>1. IInv => OneOwnerUnlessStolen
  <2> SUFFICES ASSUME IInv, ~stolen, NEW p \in claimed, NEW q \in claimed PROVE p = q
    BY DEF OneOwnerUnlessStolen, OneWinner
  <2>1. p \in Pids /\ q \in Pids /\ LockOf(p) = LockOf(q)
    BY DEF IInv, TypeOK, Exclusion
  <2> QED
    BY <2>1, FilesDiffer
<1> QED
  BY <1>1, IInvHolds, PTL

\* Until then the lock names its live owner (lines 85-92, 129-134).
THEOREM OwnerIsVisibleHolds == Spec => []OwnerIsVisible
<1>1. IInv => OwnerIsVisible
  BY DEF IInv, Exclusion, OwnerIsVisible
<1> QED
  BY <1>1, IInvHolds, PTL

\* A call that finds no lock, its own or a dead one, and is left alone, wins:
\* a dead owner never blocks the dir (lines 12-13, 94-96).
THEOREM ClearCallWinsHolds == Spec => ClearCallWins
<1> DEFINE Wins == \A p \in alive' : p \in clear' /\ pc[p] # "idle" /\ pc'[p] = "idle" => p \in claimed'
<1>1. ASSUME IInv, [Next]_vars PROVE [Wins]_vars
  <2> SUFFICES ASSUME ~UNCHANGED vars,
                      NEW q \in alive', q \in clear', pc[q] # "idle", pc'[q] = "idle"
               PROVE  q \in claimed'
    OBVIOUS
  <2>1. PICK p \in Pids : Step(p) \/ Acquire(p) \/ BindUnclaimed(p) \/ Release(p) \/ Crash(p)
    BY <1>1 DEF Next
  <2>2. q \in Pids /\ pc \in [Pids -> Steps] /\ attempt \in [Pids -> 1..3] /\ q \in alive
    <3>1. alive' \subseteq alive
      BY <2>1 DEF Step, Acquire, Create, Write, IoError, Read, Check, Probe, Recycle,
           BindUnclaimed, Release, Unlink, Crash
    <3>2. pc \in [Pids -> Steps]
      BY <1>1 DEF IInv, TypeOK
    <3> QED
      BY <1>1, <3>1, <3>2 DEF IInv, TypeOK
  <2>3. q = p
    BY <2>1, <2>2 DEF Step, Acquire, Create, Write, IoError, Read, Check, Probe, Recycle,
         BindUnclaimed, Release, Unlink, Crash, Goto, Won, Refuse, Retry, Done
  <2>4. CASE Write(p) \/ Read(p)
    BY <2>2, <2>3, <2>4 DEF Write, Read, Won, Goto
  <2>5. CASE IoError(p) \/ Unlink(p) \/ Crash(p)
    BY <2>3, <2>5 DEF IoError, Unlink, Crash
  <2>6. CASE Create(p) \/ Acquire(p) \/ BindUnclaimed(p) \/ Release(p)
    BY <2>2, <2>3, <2>6 DEF Create, Acquire, BindUnclaimed, Release, Goto
  <2>7. CASE Check(p) \/ Probe(p) \/ Recycle(p)
    <3>1. q \in clear
      BY <2>7 DEF Check, Probe, Recycle
    <3>2. CASE Check(p)
      BY <1>1, <2>3, <3>1, <3>2 DEF Check, IInv, ClearCalls
    <3>3. CASE Probe(p)
      BY <1>1, <2>2, <2>3, <3>1, <3>3 DEF Probe, Goto, IInv, ClearCalls
    <3>4. CASE Recycle(p)
      BY <1>1, <2>2, <2>3, <3>1, <3>4 DEF Recycle, Retry, Goto, IInv, ClearCalls
    <3> QED
      BY <2>7, <3>2, <3>3, <3>4
  <2> QED
    BY <2>1, <2>4, <2>5, <2>6, <2>7 DEF Step
<1> QED
  BY <1>1, IInvHolds, PTL DEF Spec, ClearCallWins

\* Calls are wait-free: every step of a call lowers its rank, and what the other
\* processes do leaves it alone (lines 33, 73-101).
THEOREM CallsAreShortHolds == Spec => CallsAreShort
<1>1. ASSUME IInv, [Next]_vars PROVE [CallsShrink]_vars
  <2> SUFFICES ASSUME ~UNCHANGED vars, NEW q \in Pids, pc[q] # "idle"
               PROVE  Rank(q)' < Rank(q) \/ UNCHANGED <<pc[q], attempt[q], seen[q]>>
    BY DEF CallsShrink
  <2>1. PICK p \in Pids : Step(p) \/ Acquire(p) \/ BindUnclaimed(p) \/ Release(p) \/ Crash(p)
    BY <1>1 DEF Next
  <2>2. /\ pc \in [Pids -> Steps] /\ attempt \in [Pids -> 1..3]
        /\ seen \in [Pids -> Pids \cup {NoPid}]
    BY <1>1 DEF IInv, TypeOK
  <2>3. CASE q # p
    BY <2>1, <2>2, <2>3 DEF Step, Acquire, Create, Write, IoError, Read, Check, Probe, Recycle,
         BindUnclaimed, Release, Unlink, Crash, Goto, Won, Refuse, Retry, Done
  <2>4. CASE q = p
    <3>1. /\ attempt[p] \in 1..3 /\ pc[p] \in Steps \ {"idle"}
          /\ Rank(p) = (3 - attempt[p]) * 4 + StepsLeft(pc[p])
      BY <2>2, <2>4 DEF Rank
    <3>2. StepsLeft(pc[p]) \in 1..4
      BY DEF StepsLeft
    <3>3. CASE pc'[p] = "idle"
      BY <2>4, <3>1, <3>2, <3>3 DEF Rank
    <3>4. CASE Create(p) /\ pc'[p] # "idle"
      <4>1. pc[p] = "create" /\ pc'[p] \in {"write", "read"} /\ attempt'[p] = attempt[p]
        BY <2>2, <3>4 DEF Create, Goto
      <4> QED
        BY <2>4, <3>1, <4>1 DEF Rank, StepsLeft
    <3>5. CASE Read(p) /\ pc'[p] # "idle"
      <4>1. pc[p] = "read" /\ pc'[p] \in {"probe", "check"} /\ attempt'[p] = attempt[p]
        BY <2>2, <3>5 DEF Read, Goto, Won, Done
      <4> QED
        BY <2>4, <3>1, <4>1 DEF Rank, StepsLeft
    <3>6. CASE Probe(p) /\ pc'[p] # "idle"
      <4>1. pc[p] = "probe" /\ pc'[p] = "recycle" /\ attempt'[p] = attempt[p]
        BY <2>2, <3>6 DEF Probe, Goto, Refuse, Done
      <4> QED
        BY <2>4, <3>1, <4>1 DEF Rank, StepsLeft
    <3>7. CASE (Check(p) \/ Recycle(p)) /\ pc'[p] # "idle"
      <4>1. /\ pc[p] \in {"check", "recycle"} /\ pc'[p] = "create"
            /\ attempt'[p] = attempt[p] + 1
        BY <2>2, <3>7 DEF Check, Recycle, Retry, Goto, Refuse, Done
      <4> QED
        BY <2>4, <3>1, <4>1 DEF Rank, StepsLeft
    <3>8. ~Acquire(p) /\ ~BindUnclaimed(p) /\ ~Release(p)
      BY <2>4 DEF Acquire, BindUnclaimed, Release
    <3>9. Write(p) \/ IoError(p) \/ Unlink(p) \/ Crash(p) => pc'[p] = "idle"
      BY <2>2 DEF Write, IoError, Unlink, Crash, Won, Refuse, Done, Goto
    <3> QED
      BY <2>1, <3>3, <3>4, <3>5, <3>6, <3>7, <3>8, <3>9 DEF Step
  <2> QED
    BY <2>3, <2>4
<1> QED
  BY <1>1, IInvHolds, PTL DEF Spec, CallsAreShort

=============================================================================
