------------------------------ MODULE ChatQueue ------------------------------
(***************************************************************************)
(* The server-side busy queue of chat-composer messages                    *)
(* (src/packages/app/server/lib/chat-queue.js).                            *)
(*                                                                         *)
(* A message typed while Claude is mid-run is parked in a FIFO and pasted  *)
(* into the PTY later: at turn end, by the stale-busy rescue timer, or when*)
(* the user presses "send now".  All of it runs on one event loop, so one  *)
(* handler or timer callback is one action; what interleaves are the       *)
(* handlers, the three timers and the completion callbacks of PTY writes.  *)
(*                                                                         *)
(* Message ids are arrival numbers 1, 2, ..., so "in FIFO order" is "in    *)
(* increasing order" and 0 stands for no message.  What a handler reads    *)
(* from its injected probes (is the TUI streaming, is an approval open,    *)
(* does the IM bridge hold the PTY) may be anything at every event, so each*)
(* handler takes one probe record and uses it throughout.                  *)
(***************************************************************************)
EXTENDS Integers, FiniteSets, Sequences, SequencesExt

CONSTANTS
  Projects, Sessions, Instances,  \* names a message can be anchored to
  None,                           \* an absent anchor field
  Anchors,        \* the anchors clients and the scheduler attach to messages
  MaxItems,       \* MAX_ITEMS: cap on parked messages, the dispatched one included
  MaxTicks,       \* idle-poll budget: INJECT_POLL_MAX_MS / INJECT_POLL_MS
  MaxMessages,    \* bound: messages accepted in one behaviour
  MaxResumes,     \* bound: /resume requests in one behaviour
  MaxGen,         \* bound: generation bumps (clear, stop)
  MaxStops        \* bound: how many of those are server stop/start cycles

Scopes == [project: Projects \cup {None},
           sessionId: Sessions \cup {None},
           instanceKey: Instances \cup {None}]

\* strictAnchor marks the messages of scheduled tasks.
ASSUME AnchorsAssumption == Anchors \subseteq [scope: Scopes, strict: BOOLEAN]

ASSUME BoundsAssumption ==
  /\ MaxItems \in Nat /\ MaxTicks \in Nat
  /\ MaxMessages \in Nat /\ MaxResumes \in Nat
  /\ MaxGen \in Nat /\ MaxStops \in Nat

Ids == 1..MaxMessages
NoItem == 0
Calls == 1..MaxResumes

\* What the injected probes answer during one handler: isStreaming,
\* hasExternalInjection, and (blocked) a shell PTY or an open approval.
Probes == [streaming: BOOLEAN, external: BOOLEAN, blocked: BOOLEAN]

NoDispatch == [item |-> NoItem, index |-> 0]
NoPoll == [kind |-> "off", id |-> 0, gen |-> 0, ticks |-> 0]
NoEsc == [item |-> NoItem, gen |-> 0]

VARIABLES
  items,          \* _items: the queued messages, oldest first
  dispatch,       \* _dispatch: the message being sent and its FIFO position
  injecting,      \* _injecting: a paste is believed to be in flight
  rescueTimer,    \* _rescueTimer is armed
  pollTimer,      \* _pollTimer: whose poll it is, and the ticks spent
  escTimer,       \* _escTimer: the send-now whose ESC is due
  suppressDrain,  \* _suppressDrain: Stop parked the queue
  gen,            \* _gen: bumped by clear() and stop()
  stops,          \* how many stop() calls there were
  inflight,       \* PTY writes whose completion callback is still to come
  accepted,       \* how many messages enqueue() took
  anchor,         \* item.anchor of every accepted message
  fate,           \* history: what became of every message
  resume          \* the promise of every injectResumeCommand() call

timers == <<rescueTimer, pollTimer, escTimer>>
vars == <<items, dispatch, injecting, timers, suppressDrain, gen, stops,
          inflight, accepted, anchor, fate, resume>>

-----------------------------------------------------------------------------
(* Scopes and probes *)

HasScope(s) == s.project # None \/ s.sessionId # None \/ s.instanceKey # None

\* _matchesScope: an item matches when every supplied field does; an item
\* without instance key matches any instance filter.
MatchesScope(s, filter) ==
  /\ filter.project # None => s.project = filter.project
  /\ filter.sessionId # None => s.sessionId = filter.sessionId
  /\ \/ filter.instanceKey = None
     \/ s.instanceKey = None
     \/ s.instanceKey = filter.instanceKey

Idle(p) == ~p.streaming /\ ~p.external /\ ~p.blocked

\* Mutant: only the TUI is asked, not whether a paste is already in flight.
SafeIgnoresFlag(p) == Idle(p)

SafeToInject(p) == ~injecting /\ Idle(p)

\* Mutant: only the paste itself counts, not a dispatch waiting for its ESC or poll.
SlotsFreeIgnoresDispatch == ~injecting

\* No dispatch, paste or poll is under way: what sendNow, onTurnEnd and
\* injectResumeCommand ask before they touch the queue or the poll timer.
SlotsFree == dispatch = NoDispatch /\ ~injecting /\ pollTimer = NoPoll

\* Mutant: Stop is checked when the poll starts, not when it fires.
MayDrainWhenParked == dispatch = NoDispatch

\* What a poll or timer set up for a drain asks before it injects the head.
MayDrain == ~suppressDrain /\ dispatch = NoDispatch

\* The verdicts _targetGone may reach on a failed write: always gone for a
\* strict anchor, never for an anchor the liveness probe knows nothing about.
GoneVerdicts(m) ==
  CASE anchor[m].strict -> {TRUE}
    [] ~anchor[m].strict /\ anchor[m].scope.project = None
         /\ anchor[m].scope.instanceKey = None -> {FALSE}
    [] OTHER -> BOOLEAN

-----------------------------------------------------------------------------
(* Queue contents *)

Queued == ToSet(items)
Held == Queued \cup ({dispatch.item} \ {NoItem})

\* The increasing enumerations of a set of positions (there is exactly one).
Enumerations(I) ==
  {f \in [1..Cardinality(I) -> I] :
     /\ \A a, b \in 1..Cardinality(I) : a < b => f[a] < f[b]
     /\ \A i \in I : \E a \in 1..Cardinality(I) : f[a] = i}

\* The queue with a dispatched message back at the position remembered for it,
\* clamped to the queue.
RestorePoint(q, d) == IF d.index < Len(q) THEN d.index ELSE Len(q)
Reinserted(q, d) == InsertAt(q, RestorePoint(q, d) + 1, d.item)

\* getSnapshot(): the whole queue, the dispatching item at its FIFO position.
Snapshot == IF dispatch = NoDispatch THEN items ELSE Reinserted(items, dispatch)

\* Mutant: the dispatch slot is not emptied.
RestoreKeepsSlot(q, d) == items' = Append(q, d.item) /\ UNCHANGED <<dispatch, fate>>

\* _restoreDispatch.
Restore(q, d) ==
  /\ items' = Reinserted(q, d)
  /\ dispatch' = NoDispatch
  /\ UNCHANGED fate

\* The target is gone: the message is dropped with a queue-rejected frame.
Reject(q, d) ==
  /\ items' = q
  /\ dispatch' = NoDispatch
  /\ fate' = [fate EXCEPT ![d.item] = "rejected"]

\* _failDispatch for a send-now, whose tag never drains the next message.
FailDispatch(q, d) ==
  \/ FALSE \in GoneVerdicts(d.item) /\ Restore(q, d)
  \/ TRUE \in GoneVerdicts(d.item) /\ Reject(q, d)

\* The dispatch a completion or timer callback was created for is still there.
StillMine(m, g) == g = gen /\ dispatch.item = m

\* Mutant: the generation is not the one current when the write starts.
StaleWrite(m, tag) == [id |-> m, gen |-> 0, run |-> stops, tag |-> tag]

\* run: which server run (since the last stop) started the write.
Write(m, tag) == [id |-> m, gen |-> gen, run |-> stops, tag |-> tag]

\* Mutant: the message is written but also left in the queue.
WriteLeavesQueued(q, d) ==
  /\ injecting' = TRUE
  /\ inflight' = inflight \cup {Write(d.item, "send")}
  /\ items' = <<d.item>> \o q /\ dispatch' = d
  /\ UNCHANGED fate

\* Mutant: a refused write leaves _injecting set.
RefusalKeepsFlag(q, d) ==
  /\ injecting' = TRUE
  /\ UNCHANGED inflight
  /\ FailDispatch(q, d)

\* _writeDispatch of the send-now dispatch d: the write starts, or is refused
\* (or throws) before it returns.
WriteDispatch(q, d) ==
  \/ /\ injecting' = TRUE
     /\ inflight' = inflight \cup {Write(d.item, "send")}
     /\ items' = q /\ dispatch' = d
     /\ UNCHANGED fate
  \/ /\ injecting' = FALSE
     /\ UNCHANGED inflight
     /\ FailDispatch(q, d)

\* _injectHead on queue q, with writes fl in flight and fates ft: heads whose
\* write is refused at once because their target is gone are rejected one after
\* the other (_failDispatch calls _injectHead again); the first other head is
\* being written, or was refused with its target alive and stays the head.
InjectHead(q, fl, ft) ==
  \E n \in 0..Len(q) :
    LET rest == SubSeq(q, n + 1, Len(q))
    IN  /\ \A i \in 1..n : TRUE \in GoneVerdicts(q[i])
        /\ fate' = [m \in Ids |-> IF \E i \in 1..n : q[i] = m THEN "rejected" ELSE ft[m]]
        /\ \/ /\ rest # <<>>
              /\ items' = Tail(rest)
              /\ dispatch' = [item |-> Head(rest), index |-> 0]
              /\ injecting' = TRUE
              /\ inflight' = fl \cup {Write(Head(rest), "inject")}
           \/ /\ rest # <<>> => FALSE \in GoneVerdicts(Head(rest))
              /\ items' = rest
              /\ dispatch' = NoDispatch
              /\ injecting' = FALSE
              /\ inflight' = fl

\* _failDispatch goes on to the next head only after an automatic drain's
\* write, and only if no Stop and no timer came in meanwhile.
DrainsAfterDrop(w, p) ==
  /\ w.tag = "inject"
  /\ ~suppressDrain /\ pollTimer = NoPoll /\ escTimer = NoEsc
  /\ Idle(p)

\* _pollUntilSafe replaces whatever poll was there.
StartPoll(kind, id) ==
  pollTimer' = [kind |-> kind, id |-> id, gen |-> gen, ticks |-> 0]

-----------------------------------------------------------------------------
NoAnchor ==
  [scope |-> [project |-> None, sessionId |-> None, instanceKey |-> None],
   strict |-> FALSE]

Init ==
  /\ items = <<>>
  /\ dispatch = NoDispatch
  /\ injecting = FALSE
  /\ rescueTimer = FALSE /\ pollTimer = NoPoll /\ escTimer = NoEsc
  /\ suppressDrain = FALSE
  /\ gen = 0 /\ stops = 0
  /\ inflight = {}
  /\ accepted = 0
  /\ anchor = [m \in Ids |-> NoAnchor]
  /\ fate = [m \in Ids |-> "new"]
  /\ resume = [c \in Calls |-> "none"]

Outstanding == Len(items) + (IF dispatch = NoDispatch THEN 0 ELSE 1)

\* enqueue(): the cap counts the dispatch slot; the rescue timer is armed only
\* when no API call is in flight.
Enqueue(a, p) ==
  /\ accepted < MaxMessages
  /\ Outstanding < MaxItems
  /\ accepted' = accepted + 1
  /\ items' = Append(items, accepted + 1)
  /\ anchor' = [anchor EXCEPT ![accepted + 1] = a]
  /\ fate' = [fate EXCEPT ![accepted + 1] = "held"]
  /\ rescueTimer' = ~p.streaming
  /\ UNCHANGED <<dispatch, injecting, pollTimer, escTimer, suppressDrain, gen,
                 stops, inflight, resume>>

\* The rescue timer's callback.
RescueFires(p) ==
  /\ rescueTimer
  /\ rescueTimer' = FALSE
  /\ UNCHANGED <<escTimer, suppressDrain, gen, stops, accepted, anchor, resume>>
  /\ \/ /\ ~MayDrain \/ pollTimer # NoPoll
        /\ UNCHANGED <<items, dispatch, injecting, pollTimer, inflight, fate>>
     \/ /\ MayDrain /\ pollTimer = NoPoll /\ SafeToInject(p)
        /\ InjectHead(items, inflight, fate)
        /\ UNCHANGED pollTimer
     \/ /\ MayDrain /\ pollTimer = NoPoll /\ ~SafeToInject(p)
        /\ StartPoll("drain", NoItem)
        /\ UNCHANGED <<items, dispatch, injecting, inflight, fate>>

\* Mutant: the position is left as it was.
NotShifted(k) == dispatch

\* Mutant: the position is shifted by every removal.
AlwaysShifted(k) == [dispatch EXCEPT !.index = @ - 1]

\* The dispatch slot after the removal of the k-th queued message.
Shifted(k) ==
  IF k - 1 < dispatch.index THEN [dispatch EXCEPT !.index = @ - 1] ELSE dispatch

\* remove(): a dispatching message is refused; a removal ahead of the
\* dispatched message shifts the position it will be restored to.
RemoveQueued(k, filter) ==
  /\ MatchesScope(anchor[items[k]].scope, filter)
  /\ items' = RemoveAt(items, k)
  /\ dispatch' = Shifted(k)
  /\ fate' = [fate EXCEPT ![items[k]] = "removed"]
  /\ UNCHANGED <<injecting, timers, suppressDrain, gen, stops, inflight,
                 accepted, anchor, resume>>

\* clear() without a scope: drop everything, cancel every timer, and outdate
\* the callbacks of what is in flight.  _injecting is left to the write's own
\* completion.
ClearAll ==
  /\ gen < MaxGen
  /\ gen' = gen + 1
  /\ rescueTimer' = FALSE /\ pollTimer' = NoPoll /\ escTimer' = NoEsc
  /\ items' = <<>> /\ dispatch' = NoDispatch
  /\ fate' = [m \in Ids |-> IF m \in Held THEN "cleared" ELSE fate[m]]
  /\ UNCHANGED <<injecting, suppressDrain, stops, inflight, accepted, anchor, resume>>

\* clear(anchor): drop the matching messages only.  The generation moves, and
\* the poll and ESC timers go, only when the dispatched message is dropped too.
ClearScope(filter) ==
  LET hit(m) == MatchesScope(anchor[m].scope, filter)
      kept == {k \in DOMAIN items : ~hit(items[k])}
      ahead == {k \in DOMAIN items \ kept : k - 1 < dispatch.index}
      drops == dispatch # NoDispatch /\ hit(dispatch.item)
  IN  /\ HasScope(filter)
      /\ \E f \in Enumerations(kept) : items' = [k \in DOMAIN f |-> items[f[k]]]
      /\ fate' = [m \in Ids |-> IF m \in Held /\ hit(m) THEN "cleared" ELSE fate[m]]
      /\ \/ /\ drops
            /\ gen < MaxGen
            /\ gen' = gen + 1
            /\ pollTimer' = NoPoll /\ escTimer' = NoEsc
            /\ dispatch' = NoDispatch
         \/ /\ ~drops
            /\ dispatch' = [dispatch EXCEPT !.index = @ - Cardinality(ahead)]
            /\ UNCHANGED <<gen, pollTimer, escTimer>>
      /\ rescueTimer' = (rescueTimer /\ (kept # {} \/ dispatch' # NoDispatch))
      /\ UNCHANGED <<injecting, suppressDrain, stops, inflight, accepted, anchor, resume>>

\* sendNow(): refused while another dispatch, paste or poll is under way.
\* Otherwise the message enters the dispatch slot; then it interrupts the
\* running turn (focus-in now, ESC later), is pasted at once, or waits for idle.
SendNow(k, filter, p) ==
  LET m == items[k]
      q == RemoveAt(items, k)
      d == [item |-> m, index |-> k - 1]
  IN  /\ MatchesScope(anchor[m].scope, filter)
      /\ SlotsFree
      /\ ~p.external
      /\ rescueTimer' = FALSE
      /\ UNCHANGED <<suppressDrain, gen, stops, accepted, anchor, resume>>
      /\ \/ /\ p.streaming
            /\ escTimer' = [item |-> m, gen |-> gen]
            /\ items' = q /\ dispatch' = d
            /\ UNCHANGED <<injecting, pollTimer, inflight, fate>>
         \/ /\ p.streaming  \* the focus-in write failed
            /\ FailDispatch(q, d)
            /\ UNCHANGED <<injecting, pollTimer, escTimer, inflight>>
         \/ /\ SafeToInject(p)
            /\ WriteDispatch(q, d)
            /\ UNCHANGED <<pollTimer, escTimer>>
         \/ /\ ~p.streaming /\ ~SafeToInject(p)
            /\ StartPoll("send", m)
            /\ items' = q /\ dispatch' = d
            /\ UNCHANGED <<injecting, escTimer, inflight, fate>>

\* sendNow's ESC timer.
EscFires ==
  /\ escTimer # NoEsc
  /\ escTimer' = NoEsc
  /\ UNCHANGED <<injecting, rescueTimer, suppressDrain, gen, stops, inflight,
                 accepted, anchor, resume>>
  /\ IF StillMine(escTimer.item, escTimer.gen)
       THEN \/ /\ StartPoll("send", escTimer.item)
               /\ UNCHANGED <<items, dispatch, fate>>
            \/ /\ FailDispatch(items, dispatch)  \* the ESC write failed
               /\ UNCHANGED pollTimer
       ELSE UNCHANGED <<items, dispatch, pollTimer, fate>>

\* The poll's budget is spent: onTimeout runs, and never injects.
PollTimesOut ==
  /\ pollTimer # NoPoll /\ pollTimer.ticks >= MaxTicks
  /\ pollTimer' = NoPoll
  /\ IF pollTimer.kind = "send" /\ StillMine(pollTimer.id, pollTimer.gen)
       THEN Restore(items, dispatch)
       ELSE UNCHANGED <<items, dispatch, fate>>
  /\ resume' = IF pollTimer.kind = "resume"
                 THEN [resume EXCEPT ![pollTimer.id] = "busy"] ELSE resume
  /\ UNCHANGED <<injecting, rescueTimer, escTimer, suppressDrain, gen, stops,
                 inflight, accepted, anchor>>

PollTicks(p) ==
  /\ pollTimer # NoPoll /\ pollTimer.ticks < MaxTicks
  /\ ~SafeToInject(p)
  /\ pollTimer' = [pollTimer EXCEPT !.ticks = @ + 1]
  /\ UNCHANGED <<items, dispatch, injecting, rescueTimer, escTimer, suppressDrain,
                 gen, stops, inflight, accepted, anchor, fate, resume>>

\* The /resume paste: in flight, or refused before the write returns.
WriteResume(c) ==
  /\ UNCHANGED <<items, dispatch, fate>>
  /\ \/ /\ injecting' = TRUE
        /\ inflight' = inflight \cup {Write(c, "resume")}
        /\ resume' = [resume EXCEPT ![c] = "pending"]
     \/ /\ injecting' = FALSE
        /\ resume' = [resume EXCEPT ![c] = "write-failed"]
        /\ UNCHANGED inflight

\* The TUI is idle: the poll is over and its fn runs.
PollFires(p) ==
  /\ pollTimer # NoPoll /\ pollTimer.ticks < MaxTicks
  /\ SafeToInject(p)
  /\ pollTimer' = NoPoll
  /\ UNCHANGED <<rescueTimer, escTimer, suppressDrain, gen, stops, accepted, anchor>>
  /\ \/ /\ pollTimer.kind = "drain" /\ MayDrain
        /\ InjectHead(items, inflight, fate)
        /\ UNCHANGED resume
     \/ /\ pollTimer.kind = "send" /\ StillMine(pollTimer.id, pollTimer.gen)
        /\ WriteDispatch(items, dispatch)
        /\ UNCHANGED resume
     \/ /\ \/ pollTimer.kind = "drain" /\ ~MayDrain
           \/ pollTimer.kind = "send" /\ ~StillMine(pollTimer.id, pollTimer.gen)
        /\ UNCHANGED <<items, dispatch, injecting, inflight, fate, resume>>
     \/ /\ pollTimer.kind = "resume"
        /\ WriteResume(pollTimer.id)

\* The completion callback of message write w.  The bytes of a successful paste
\* are in the TUI whether or not the queue still knows the message.
WriteCompletes(w, ok, p) ==
  /\ w.tag # "resume"
  /\ UNCHANGED <<timers, suppressDrain, gen, stops, accepted, anchor, resume>>
  /\ \/ /\ ok
        /\ injecting' = FALSE
        /\ inflight' = inflight \ {w}
        /\ fate' = [fate EXCEPT ![w.id] = "sent"]
        /\ dispatch' = IF StillMine(w.id, w.gen) THEN NoDispatch ELSE dispatch
        /\ UNCHANGED items
     \/ /\ ~ok /\ ~StillMine(w.id, w.gen)
        /\ injecting' = FALSE
        /\ inflight' = inflight \ {w}
        /\ UNCHANGED <<items, dispatch, fate>>
     \/ /\ ~ok /\ StillMine(w.id, w.gen) /\ FALSE \in GoneVerdicts(w.id)
        /\ injecting' = FALSE
        /\ inflight' = inflight \ {w}
        /\ Restore(items, dispatch)
     \/ /\ ~ok /\ StillMine(w.id, w.gen) /\ TRUE \in GoneVerdicts(w.id)
        /\ IF DrainsAfterDrop(w, p)
             THEN InjectHead(items, inflight \ {w}, [fate EXCEPT ![w.id] = "rejected"])
             ELSE /\ injecting' = FALSE
                  /\ inflight' = inflight \ {w}
                  /\ Reject(items, dispatch)

\* The completion callback of a /resume write.
ResumeCompletes(w, ok) ==
  /\ w.tag = "resume"
  /\ injecting' = FALSE
  /\ inflight' = inflight \ {w}
  /\ resume' = [resume EXCEPT ![w.id] = IF ok THEN "ok" ELSE "write-failed"]
  /\ UNCHANGED <<items, dispatch, timers, suppressDrain, gen, stops, accepted,
                 anchor, fate>>

\* onTurnEnd(): the Stop hook arrived, or its debounced repetition.
OnTurnEnd(p) ==
  /\ items # <<>> /\ SlotsFree
  /\ rescueTimer' = FALSE
  /\ UNCHANGED <<escTimer, suppressDrain, gen, stops, accepted, anchor, resume>>
  /\ \/ /\ suppressDrain
        /\ UNCHANGED <<items, dispatch, injecting, pollTimer, inflight, fate>>
     \/ /\ ~suppressDrain /\ SafeToInject(p)
        /\ InjectHead(items, inflight, fate)
        /\ UNCHANGED pollTimer
     \/ /\ ~suppressDrain /\ ~SafeToInject(p)
        /\ StartPoll("drain", NoItem)
        /\ UNCHANGED <<items, dispatch, injecting, inflight, fate>>

\* The user pressed Stop.
SuppressNextDrain ==
  /\ suppressDrain' = TRUE
  /\ rescueTimer' = FALSE
  /\ UNCHANGED <<items, dispatch, injecting, pollTimer, escTimer, gen, stops,
                 inflight, accepted, anchor, fate, resume>>

\* A new turn started streaming.
OnStreamingActivated ==
  /\ suppressDrain
  /\ suppressDrain' = FALSE
  /\ UNCHANGED <<items, dispatch, injecting, timers, gen, stops, inflight,
                 accepted, anchor, fate, resume>>

\* stop(): the viewer shuts down; a later start in the same process reuses the
\* module's state.  The completion of a write in flight is still to come.
Stop ==
  /\ gen < MaxGen /\ stops < MaxStops
  /\ gen' = gen + 1 /\ stops' = stops + 1
  /\ rescueTimer' = FALSE /\ pollTimer' = NoPoll /\ escTimer' = NoEsc
  /\ injecting' = FALSE
  /\ items' = <<>> /\ dispatch' = NoDispatch
  /\ suppressDrain' = FALSE
  /\ fate' = [m \in Ids |-> IF m \in Held THEN "cleared" ELSE fate[m]]
  /\ UNCHANGED <<inflight, accepted, anchor, resume>>

\* injectResumeCommand(): refused as busy while any slot is owned.
InjectResumeCommand(c, p) ==
  /\ resume[c] = "none"
  /\ UNCHANGED <<rescueTimer, escTimer, suppressDrain, gen, stops, accepted, anchor>>
  /\ \/ /\ ~SlotsFree
        /\ resume' = [resume EXCEPT ![c] = "busy"]
        /\ UNCHANGED <<items, dispatch, injecting, pollTimer, inflight, fate>>
     \/ /\ SlotsFree /\ Idle(p)
        /\ WriteResume(c)
        /\ UNCHANGED pollTimer
     \/ /\ SlotsFree /\ ~Idle(p)
        /\ StartPoll("resume", c)
        /\ resume' = [resume EXCEPT ![c] = "pending"]
        /\ UNCHANGED <<items, dispatch, injecting, inflight, fate>>

Next ==
  \/ \E a \in Anchors, p \in Probes : Enqueue(a, p)
  \/ \E p \in Probes : RescueFires(p) \/ PollTicks(p) \/ PollFires(p) \/ OnTurnEnd(p)
  \/ \E k \in DOMAIN items, filter \in Scopes : RemoveQueued(k, filter)
  \/ ClearAll
  \/ \E filter \in Scopes : ClearScope(filter)
  \/ \E k \in DOMAIN items, filter \in Scopes, p \in Probes : SendNow(k, filter, p)
  \/ EscFires
  \/ PollTimesOut
  \/ \E w \in inflight, ok \in BOOLEAN :
       ResumeCompletes(w, ok) \/ \E p \in Probes : WriteCompletes(w, ok, p)
  \/ SuppressNextDrain
  \/ OnStreamingActivated
  \/ Stop
  \/ \E c \in Calls, p \in Probes : InjectResumeCommand(c, p)

Spec == Init /\ [][Next]_vars

\* What the code's scheduling guarantees and no more: an armed timer fires, an
\* interval keeps ticking, and every PTY write calls its completion callback.
PollStep == PollTimesOut \/ \E p \in Probes : PollTicks(p) \/ PollFires(p)
WriteStep(m) ==
  \E w \in inflight, ok \in BOOLEAN, p \in Probes : w.id = m /\ WriteCompletes(w, ok, p)
ResumeStep(c) ==
  \E w \in inflight, ok \in BOOLEAN : w.id = c /\ ResumeCompletes(w, ok)

Fairness ==
  /\ WF_vars(\E p \in Probes : RescueFires(p))
  /\ WF_vars(EscFires)
  /\ WF_vars(PollStep)
  /\ \A m \in Ids : WF_vars(WriteStep(m))
  /\ \A c \in Calls : WF_vars(ResumeStep(c))

FairSpec == Spec /\ Fairness
-----------------------------------------------------------------------------
(* Properties *)

Fates == {"new", "held", "sent", "removed", "cleared", "rejected"}

Dispatches == [item: Ids, index: Nat]
Slots == Dispatches \cup {NoDispatch}
Writes ==
  [id: Ids, gen: Nat, run: Nat, tag: {"inject", "send"}]
    \cup [id: Calls, gen: Nat, run: Nat, tag: {"resume"}]
Polls ==
  [kind: {"drain"}, id: {NoItem}, gen: Nat, ticks: Nat]
    \cup [kind: {"send"}, id: Ids, gen: Nat, ticks: Nat]
    \cup [kind: {"resume"}, id: Calls, gen: Nat, ticks: Nat]
Escs == [item: Ids, gen: Nat]
Replies == {"none", "pending", "ok", "busy", "write-failed"}

\* The variables have the types the code gives them.
TypeOK ==
  /\ items \in Seq(Ids)
  /\ dispatch \in Slots
  /\ injecting \in BOOLEAN /\ rescueTimer \in BOOLEAN
  /\ pollTimer \in Polls \cup {NoPoll}
  /\ escTimer \in Escs \cup {NoEsc}
  /\ suppressDrain \in BOOLEAN
  /\ gen \in Nat /\ stops \in Nat
  /\ inflight \subseteq Writes
  /\ accepted \in 0..MaxMessages
  /\ anchor \in [Ids -> Anchors \cup {NoAnchor}]
  /\ fate \in [Ids -> Fates]
  /\ resume \in [Calls -> Replies]

\* No message is lost or doubled by the splices: a message is queued or being
\* dispatched, once, exactly while nothing has happened to it; sent, removed,
\* cleared and rejected messages never come back (lines 229-243, 392-459).
EachMessageInOnePlace ==
  /\ \A j, k \in 1..Len(items) : items[j] = items[k] => j = k
  /\ dispatch.item \notin Queued
  /\ Held = {m \in Ids : fate[m] = "held"}

\* The snapshot clients render, and the order messages are sent in after a
\* failed dispatch, is the order of arrival: removals, scoped clears and
\* restores all keep the dispatched message's remembered position right
\* (lines 131-133, 239, 401, 436-442).
SnapshotInArrivalOrder ==
  \A j, k \in DOMAIN Snapshot : j < k => Snapshot[j] < Snapshot[k]

\* A restored dispatch never pushes the queue over its cap, because the
\* dispatch slot counts as an outstanding message (line 353).
CapCountsDispatch == Len(Snapshot) <= MaxItems

\* What will end the current dispatch: its ESC timer, its poll or its write.
EscOwns == escTimer = [item |-> dispatch.item, gen |-> gen]
PollOwns == pollTimer.kind = "send" /\ StillMine(pollTimer.id, pollTimer.gen)
WriteOwns == \E w \in inflight : w.tag # "resume" /\ StillMine(w.id, w.gen)

\* A dispatching bubble can be neither removed nor re-sent, so exactly one live
\* timer or write must be left to end the dispatch, and no timer or write may
\* be left over to act on a dispatch that is not its own (lines 485-491, 560-563).
DispatchHasOneOwner ==
  /\ dispatch # NoDispatch =>
       \/ EscOwns /\ pollTimer = NoPoll /\ ~WriteOwns
       \/ escTimer = NoEsc /\ PollOwns /\ ~WriteOwns
       \/ escTimer = NoEsc /\ pollTimer = NoPoll /\ WriteOwns
  /\ dispatch = NoDispatch => escTimer = NoEsc /\ pollTimer.kind # "send" /\ ~WriteOwns

\* The single-flight flag is never stuck: it is set only while a completion
\* callback that resets it is still to come, whatever clear() and stop() did
\* in between (lines 285, 613).
InjectingHasWriter == injecting => inflight # {}

\* A late completion callback never mistakes a newer dispatch for its own: of
\* the current generation there is only the dispatched message's write, the
\* message of an outdated one was cleared, and no message is written twice at a
\* time (lines 253-263, 288-293, 432).
CompletionsMatchDispatch ==
  /\ \A w \in inflight : w.tag # "resume" =>
       /\ w.gen <= gen
       /\ w.gen = gen => dispatch.item = w.id
       /\ w.gen # gen => fate[w.id] = "cleared"
  /\ \A w, x \in inflight :
       w.tag # "resume" /\ x.tag # "resume" /\ w.id = x.id => w = x

\* A message whose paste completed is never pasted again (lines 284-293).
NoSecondPaste == \A w \in inflight : w.tag # "resume" => fate[w.id] # "sent"

\* Injection is single-flight: of the pastes started since the viewer was last
\* started, at most one is in flight (line 29).
SingleFlight == \A w, x \in inflight : w.run = x.run => w = x

\* After Stop nothing is written by itself until a new turn starts, through
\* none of the paths to _injectHead (lines 22, 260, 373, 375, 565, 567).
ParkedMeansNoDrain ==
  [][suppressDrain => \A w \in inflight' \ inflight : w.tag # "inject"]_vars

\* Messages pasted because a client said so, in or out of turn.
Picked == {w.id : w \in {x \in inflight : x.tag = "send"}}

Fifo == INSTANCE MessageFifo WITH waiting <- Snapshot, picked <- Picked

\* Behind its splices, slots and timers the queue is a plain FIFO: what clients see
\* is in order of arrival and within the cap, no restored, failed or outdated
\* dispatch moves it, and a drain sends its head (lines 131-133, 229-317, 353,
\* 392-459, 506-553).
ImplementsFifo == Fifo!Spec

\* How far the current dispatch is from its end: ESC, then poll ticks, then the
\* write.  One that nothing will end is further from it than any other.
DispatchRank ==
  IF dispatch = NoDispatch THEN 0
  ELSE IF EscOwns THEN MaxTicks + 3
  ELSE IF PollOwns THEN MaxTicks + 2 - pollTimer.ticks
  ELSE IF WriteOwns THEN 1
  ELSE MaxTicks + 4

WritesOf(m) == {w \in inflight : w.tag # "resume" /\ w.id = m}

DispatchAdvances ==
  \A m \in Ids : dispatch.item = m /\ dispatch'.item = m =>
    DispatchRank' < DispatchRank \/ UNCHANGED <<gen, escTimer, pollTimer, WritesOf(m)>>

\* A dispatch only goes forward: nothing renews its ESC, gives its poll a fresh
\* budget, pastes it a second time or takes its owner away, so it ends after a
\* fixed number of events of its own (lines 325-341, 485-491, 539-544, 560-563).
DispatchOnlyAdvances == [][DispatchAdvances]_vars

\* A dispatch always ends: sent, dropped or restored (lines 485-563).
DispatchEnds == \A m \in Ids : dispatch.item = m ~> dispatch.item # m

\* If turn ends keep arriving while the queue could drain, pastes do not fail
\* forever and Stop is not pressed forever, every message leaves the queue: no
\* flag, slot or timer is left behind that blocks the drain (lines 309, 560-563).
TurnEndDrains == \E p \in Probes : OnTurnEnd(p) /\ dispatch' # NoDispatch
PasteSucceeds(m) == \E w \in inflight, p \in Probes : w.id = m /\ WriteCompletes(w, TRUE, p)
QueueNeverWedges ==
  (/\ <>[](~suppressDrain)
   /\ SF_vars(TurnEndDrains)
   /\ \A m \in Ids : SF_vars(PasteSucceeds(m)))
  => \A m \in Ids : fate[m] = "held" ~> fate[m] # "held"

\* injectResumeCommand's promise resolves (lines 602-608).
ResumeSettles == \A c \in Calls : resume[c] = "pending" ~> resume[c] # "pending"
=============================================================================
