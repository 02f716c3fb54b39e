------------------------------- MODULE AskFlow -------------------------------
(***************************************************************************)
(* One question that Claude asks the user (AskUserQuestion): the hook      *)
(* process that carries it (lib/ask/ask-bridge.js), the server it polls    *)
(* (routes/ask-perm.js and the WebSocket handlers of server.js), the store *)
(* on disk that all viewer instances share (lib/ask/ask-store.js) and the  *)
(* reaper and boot sweep that close questions nobody waits for             *)
(* (lib/ask/ask-reaper.js).  All paths under src/packages/app/server.      *)
(*                                                                         *)
(* The server is one event loop.  Its store operations take turns: each    *)
(* runs under the file lock, and its caller goes on after the lock is      *)
(* given back, so other handlers run between the two (Store, Resume).      *)
(* Browsers connected to another viewer instance share only the store.     *)
(* Poll intervals and the silence after which a bridge is taken for dead   *)
(* are not timed: a timer may fire whenever its other conditions hold.     *)
(***************************************************************************)
EXTENDS Naturals, Sequences, FiniteSets

CONSTANTS
  Browsers,  \* browsers that may show the question; each speaks once
  Away,      \* those connected to another viewer instance
  MaxSaid,   \* bound: how many of them speak
  MaxFaults  \* bound: crashes, broken connections, failed writes, dropped questions
             \* and calls of the plugins' resolveAsk()

ASSUME AskAssumption ==
  /\ Away \subseteq Browsers /\ MaxSaid \in Nat /\ MaxFaults \in Nat
  /\ Browsers \cap {"bridge", "reaper", "sweep", "plugin", "server"} = {}

VARIABLES
  bridge,     \* the hook process: what it does next or waits for
  reposted,   \* its postRetried
  result,     \* what it reported to Claude
  response,   \* the response on its way to it
  hangup,     \* the cancel it sent when it was killed is on its way
  hook,       \* the POST handler waits for the plugins
  postOpen,   \* the POST's response was neither sent nor cut off
  mem,        \* the question is in pendingAskHooks
  listeners,  \* shortPollListeners: "live", or "ghost" if its poll is gone
  ops,        \* store operations waiting for the lock, oldest first
  got,        \* what the first of them returned, None while it waits
  row,        \* the question's row in ask-store.json
  sweep,      \* the orphan sweep of this boot: "due", "done" or "skipped"
  older,      \* the row was written before this boot
  said,       \* what each browser sent
  told,       \* what each browser was told of it
  first,      \* history: the first outcome written to the row
  lost,       \* history: outcomes taken from disk and not delivered
  overruled,  \* history: a cancel was heard although the row had an outcome
  failed,     \* history: a store operation failed
  faults      \* how many faults there were

client == <<bridge, reposted, result, hangup>>
server == <<hook, postOpen, mem, listeners>>
store == <<ops, got, row, older, failed>>
users == <<said, told, overruled>>
vars == <<client, response, server, store, sweep, users, first, lost, faults>>

Out(is, by) == [is |-> is, by |-> by]
None == Out("none", "nobody")
Absent == Out("absent", "nobody")
Pending == Out("pending", "nobody")
Final(o) == o.is \in {"answered", "cancelled"}

Parties == Browsers \cup {"bridge", "reaper", "sweep", "plugin", "server"}
Outcomes == {Out(is, by) : is \in {"answered", "cancelled"}, by \in Parties}
Op(do, by, flag) == [do |-> do, by |-> by, flag |-> flag]

-----------------------------------------------------------------------------
(* The store *)

\* Mutant: a final row may be written again.
OpenAlways(r) == TRUE

\* First write wins: only a row without an outcome takes one.
Open(r) == ~Final(r)

\* An operation waits for those before it.  _persistAskEntry() and
\* _persistAskDelete() call theirs at the end of the event loop's turn: a handler
\* is a turn here.
Serve(op) == ops' = Append(ops, op)

\* markAnswered(), markCancelled(): a missing row is made.
Mark(o) ==
  /\ row' = IF Open(row) THEN o ELSE row
  /\ first' = IF Open(row) /\ first = None THEN o ELSE first

\* Mutant: the row keeps the word of the message, which no reader knows.
OutcomeAsSent(op) == Out(op.do, op.by)

Outcome(op) == Out(IF op.do = "answer" THEN "answered" ELSE "cancelled", op.by)

\* Mutant: a delayed persist overwrites what was recorded in between.
SetBack(op) == row' = Pending /\ older' = FALSE

\* setEntry(): an outcome is not turned back into a pending row.
SetEntry(op) ==
  /\ row' = IF Open(row) THEN Pending ELSE row
  /\ older' = (older /\ ~Open(row))

\* The operation at the head of the queue runs under the lock.
Store ==
  /\ ops # <<>> /\ got = None
  /\ LET op == Head(ops) IN
     \/ /\ op.do = "set" /\ SetEntry(op)
        /\ ops' = Tail(ops) /\ UNCHANGED <<got, first, lost>>
     \/ /\ op.do = "delete" /\ row' = Absent
        /\ lost' = lost \cup {o \in {row} : Final(o)}
        /\ ops' = Tail(ops) /\ UNCHANGED <<got, first, older>>
     \/ /\ op.do \in {"answer", "cancel"} /\ Mark(Outcome(op))
        /\ got' = Out(IF Open(row) THEN "wrote" ELSE "beaten", op.by)
        /\ UNCHANGED <<ops, older, lost>>
     \/ /\ op.do = "consume"
        /\ got' = row /\ row' = IF Final(row) THEN Absent ELSE row
        /\ UNCHANGED <<ops, first, older, lost>>
  /\ UNCHANGED <<client, response, server, failed, sweep, users, faults>>

\* The lock is not to be had or the disk does not take the file: every
\* operation swallows the error and returns false or null.
StoreFails ==
  /\ ops # <<>> /\ got = None /\ faults < MaxFaults
  /\ IF Head(ops).do \in {"set", "delete"} THEN ops' = Tail(ops) /\ got' = got
     ELSE /\ ops' = ops
          /\ got' = IF Head(ops).do = "consume" THEN Absent
                    ELSE Out("beaten", Head(ops).by)
  /\ failed' = TRUE /\ faults' = faults + 1
  /\ UNCHANGED <<client, response, server, row, older, sweep, users, first, lost>>

-----------------------------------------------------------------------------
(* The responses *)

\* Which outcomes wake the waiting polls: those recorded, and a browser's cancel
\* of a question in memory whatever the store said.
Wakes(op, wrote) == wrote \/ (op.do = "cancel" /\ op.flag)

\* What the open POST of an entry is answered with.
PostReply(op, wrote) ==
  IF Wakes(op, wrote) THEN Outcome(op) ELSE Out("cancelled", "server")

\* Whether the sender is told that its word counted.
Taken(op, wrote) == Wakes(op, wrote)

\* Mutant: the polls are let go whether or not there is an outcome for them.
ResumeMarkForgets(op, wrote) ==
  /\ IF op.flag /\ postOpen
     THEN response' = PostReply(op, wrote) /\ postOpen' = FALSE
     ELSE /\ response' = IF Wakes(op, wrote) /\ "live" \in listeners
                         THEN Outcome(op) ELSE response
          /\ UNCHANGED postOpen
  /\ listeners' = {}
  /\ told' = [b \in Browsers |-> IF b # op.by THEN told[b]
                                 ELSE IF Taken(op, wrote) THEN "taken" ELSE "refused"]
  /\ overruled' = (overruled \/ (Wakes(op, wrote) /\ ~wrote))
  /\ UNCHANGED lost

\* The caller of answer or cancel goes on: it wakes the polls, answers the POST
\* if that is still open, and tells the browser.
ResumeMark(op, wrote) ==
  /\ IF op.flag /\ postOpen
     THEN response' = PostReply(op, wrote) /\ postOpen' = FALSE
     ELSE /\ response' = IF Wakes(op, wrote) /\ "live" \in listeners
                         THEN Outcome(op) ELSE response
          /\ UNCHANGED postOpen
  /\ listeners' = IF Wakes(op, wrote) THEN {} ELSE listeners
  /\ told' = [b \in Browsers |-> IF b # op.by THEN told[b]
                                 ELSE IF Taken(op, wrote) THEN "taken" ELSE "refused"]
  /\ overruled' = (overruled \/ (Wakes(op, wrote) /\ ~wrote))
  /\ UNCHANGED lost

\* The question is unknown: neither in memory nor on disk.
Missing == ~mem /\ got = Absent

\* askHookResult() goes on after consumeIfFinal(); op.flag: its connection lives.
ResumePoll(op) ==
  /\ \/ /\ Final(got) /\ UNCHANGED listeners
        /\ response' = IF op.flag THEN got ELSE response
        /\ lost' = IF op.flag THEN lost ELSE lost \cup {got}
     \/ /\ ~Final(got) /\ Missing /\ UNCHANGED <<listeners, lost>>
        /\ response' = IF op.flag THEN Out("missing", "server") ELSE response
     \/ /\ ~Final(got) /\ ~Missing /\ UNCHANGED <<response, lost>>
        /\ listeners' = listeners \cup {IF op.flag THEN "live" ELSE "ghost"}
  /\ UNCHANGED <<postOpen, told, overruled>>

\* The lock is given back and the caller of the operation goes on.
Resume ==
  /\ got # None
  /\ LET op == Head(ops) IN
       IF op.do = "consume" THEN ResumePoll(op) ELSE ResumeMark(op, got.is = "wrote")
  /\ got' = None /\ ops' = Tail(ops)
  /\ UNCHANGED <<client, hook, mem, row, older, failed, sweep, said, first, faults>>

\* The wait of a poll ends without an outcome: 204.
WaitEnds(l) ==
  /\ l \in listeners /\ listeners' = listeners \ {l}
  /\ response' = IF l = "live" THEN Out("again", "server") ELSE response
  /\ UNCHANGED <<client, hook, postOpen, mem, store, sweep, users, first, lost, faults>>

-----------------------------------------------------------------------------
(* The bridge *)

Alive == bridge \notin {"over", "dead"}

\* askHook() up to the plugins: the entry is in memory before they are asked.
Post ==
  /\ bridge = "asking"
  /\ bridge' = "posting" /\ hook' = TRUE /\ postOpen' = TRUE /\ mem' = TRUE
  /\ Serve(Op("set", "server", FALSE))
  /\ UNCHANGED <<reposted, result, response, hangup, listeners, got, row, older,
                 failed, sweep, users, first, lost, faults>>

PostAnswer(o) ==
  /\ postOpen' = FALSE
  /\ response' = IF postOpen THEN o ELSE response

\* No plugin answers: the entry is set again, whatever happened to it meanwhile.
Acknowledge ==
  /\ hook /\ hook' = FALSE /\ mem' = TRUE
  /\ Serve(Op("set", "server", FALSE))
  /\ PostAnswer(Out("ack", "server"))
  /\ UNCHANGED <<client, listeners, got, row, older, failed, sweep, users, first,
                 lost, faults>>

\* A plugin answers the question, which is forgotten at once.
PluginAnswers ==
  /\ hook /\ hook' = FALSE /\ mem' = FALSE
  /\ Serve(Op("delete", "plugin", FALSE))
  /\ PostAnswer(Out("answered", "plugin"))
  /\ UNCHANGED <<client, listeners, got, row, older, failed, sweep, users, first,
                 lost, faults>>

\* resolveAsk() of a plugin: only an open POST hears the answer.
PluginResolves ==
  /\ mem /\ mem' = FALSE /\ faults < MaxFaults
  /\ Serve(Op("delete", "plugin", FALSE))
  /\ PostAnswer(Out("answered", "plugin"))
  /\ faults' = faults + 1
  /\ UNCHANGED <<client, hook, listeners, got, row, older, failed, sweep, users, first,
                 lost>>

\* askHookResult() up to the store.
Poll ==
  /\ bridge = "pause" /\ bridge' = "polling"
  /\ Serve(Op("consume", "bridge", TRUE))
  /\ UNCHANGED <<reposted, result, hangup, response, server, got, row, older,
                 failed, sweep, users, first, lost, faults>>

\* The bridge reads a response: an outcome ends it, a missing question is posted
\* again once, after which the terminal asks ("fallback").
Receive ==
  /\ response # None /\ response' = None
  /\ \/ /\ Final(response) /\ bridge' = "over" /\ result' = response
        /\ UNCHANGED reposted
     \/ /\ response.is \in {"ack", "again"} /\ bridge' = "pause"
        /\ UNCHANGED <<reposted, result>>
     \/ /\ response.is = "missing" /\ ~reposted /\ bridge' = "asking"
        /\ reposted' = TRUE /\ UNCHANGED result
     \/ /\ response.is = "missing" /\ reposted /\ bridge' = "over"
        /\ result' = Out("fallback", "bridge") /\ UNCHANGED reposted
  /\ UNCHANGED <<hangup, server, store, sweep, users, first, lost, faults>>

\* Those of outcomes S that are not on disk any more.
OffDisk(S) == {o \in S : Final(o) /\ o # row}

\* Whatever the bridge waited for does not reach it any more.
Disconnect ==
  /\ response' = None
  /\ lost' = lost \cup OffDisk({response})
  /\ postOpen' = FALSE
  /\ listeners' = listeners \ {"live"}
  /\ ops' = [i \in DOMAIN ops |-> IF ops[i].do = "consume"
                                  THEN [ops[i] EXCEPT !.flag = FALSE] ELSE ops[i]]

\* A request that failed: the first POST falls back, all others poll again.
Retry ==
  IF bridge = "posting" /\ ~reposted
  THEN bridge' = "over" /\ result' = Out("fallback", "bridge")
  ELSE /\ bridge' = IF bridge = "asking" \/ ~Alive THEN bridge ELSE "pause"
       /\ UNCHANGED result

\* The connection of the outstanding request breaks.
Break ==
  /\ bridge \in {"posting", "polling"} /\ faults < MaxFaults
  /\ Disconnect /\ Retry
  /\ faults' = faults + 1
  /\ UNCHANGED <<reposted, hangup, hook, mem, got, row, older, failed, sweep,
                 users, first>>

\* Claude ends the hook process; one that may clean up sends a cancel if it had
\* an acknowledged question.
Killed ==
  /\ Alive /\ bridge' = "dead"
  /\ hangup' \in {FALSE, reposted \/ bridge \notin {"asking", "posting"}}
  /\ Disconnect
  /\ UNCHANGED <<reposted, result, hook, mem, got, row, older, failed, sweep,
                 users, first, faults>>

\* askHookCancel().
HangUp ==
  /\ hangup /\ hangup' = FALSE /\ mem' = FALSE
  /\ Serve(Op("cancel", "bridge", FALSE))
  /\ UNCHANGED <<bridge, reposted, result, response, hook, postOpen, listeners, got, row, older, failed, sweep, users, first, lost, faults>>

-----------------------------------------------------------------------------
(* The browsers *)

Shown == bridge # "asking" \/ reposted

Speaks(b, do) ==
  /\ said[b] = "nothing"
  /\ Cardinality({x \in Browsers : said[x] # "nothing"}) < MaxSaid
  /\ said' = [said EXCEPT ![b] = do]

\* ask-hook-answer and ask-cancel: the entry is removed at once, then the store
\* decides.  A browser's panel may be out of date.
Say(b, do) ==
  /\ b \notin Away /\ Shown /\ Speaks(b, do)
  /\ mem' = FALSE
  /\ Serve(Op(do, b, mem))
  /\ UNCHANGED <<client, response, hook, postOpen, listeners, got, row, older,
                 failed, sweep, told, overruled, first, lost, faults>>

\* The same at another instance, which has the question from the store only.
SayElsewhere(b, do) ==
  /\ b \in Away /\ (row = Pending \/ first # None) /\ Speaks(b, do)
  /\ told' = [told EXCEPT ![b] = IF Open(row) THEN "taken" ELSE "refused"]
  /\ Mark(Outcome(Op(do, b, FALSE)))
  /\ UNCHANGED <<client, response, server, ops, got, older, failed, sweep, overruled,
                 lost, faults>>

-----------------------------------------------------------------------------
(* Closing questions nobody waits for *)

\* What the reaper does to the row: it is cancelled if it is still there.
ReapRow == IF row = Absent THEN ops' = ops ELSE Serve(Op("cancel", "reaper", FALSE))

\* No open POST, no waiting poll, and for a minute and a half no new poll: in that
\* time every store operation is done.
Silent == ~postOpen /\ listeners = {} /\ ops = <<>>

\* reapDeadAskWaiters().
Reap ==
  /\ mem /\ Silent /\ mem' = FALSE
  /\ ReapRow
  /\ UNCHANGED <<client, response, hook, postOpen, listeners, got, row, older,
                 failed, sweep, users, first, lost, faults>>

\* Mutant: the sweep spares rows of earlier boots.
NoOrphan == FALSE

Orphan == row = Pending /\ older /\ ~mem

\* sweepOrphanedDiskAsks(), once per boot.  It is skipped when another instance
\* runs, and when nobody can tell: on Windows, with a port range of one's own, or
\* if the open ports cannot be listed.
Sweep ==
  /\ sweep = "due"
  /\ \/ /\ sweep' = "done"
        /\ IF Orphan THEN Serve(Op("cancel", "sweep", FALSE)) ELSE ops' = ops
     \/ sweep' = "skipped" /\ ops' = ops
  /\ UNCHANGED <<client, response, server, got, row, older, failed, users, first,
                 lost, faults>>

\* The day is over, or newer questions need the room (not while the plugins are
\* asked: that takes a thousand questions meanwhile).
Drop ==
  /\ mem /\ ~hook /\ mem' = FALSE /\ faults < MaxFaults
  /\ Serve(Op("delete", "server", FALSE))
  /\ faults' = faults + 1
  /\ UNCHANGED <<client, response, hook, postOpen, listeners, got, row, older,
                 failed, sweep, users, first, lost>>

\* The server dies and is started again: only the store is left.
Crash ==
  /\ faults < MaxFaults /\ faults' = faults + 1
  /\ hook' = FALSE /\ mem' = FALSE /\ postOpen' = FALSE /\ listeners' = {}
  /\ ops' = <<>> /\ got' = None /\ response' = None
  /\ lost' = lost \cup OffDisk({got, response})
  /\ Retry
  /\ older' = TRUE /\ sweep' = "due"
  /\ hangup' \in {FALSE, hangup}
  /\ UNCHANGED <<reposted, row, failed, users, first>>

-----------------------------------------------------------------------------
Init ==
  /\ bridge = "asking" /\ reposted = FALSE /\ result = None /\ hangup = FALSE
  /\ response = None
  /\ hook = FALSE /\ postOpen = FALSE /\ mem = FALSE /\ listeners = {}
  /\ ops = <<>> /\ got = None /\ row = Absent /\ older = FALSE
  /\ failed = FALSE /\ sweep = "done"
  /\ said = [b \in Browsers |-> "nothing"] /\ told = [b \in Browsers |-> "nothing"]
  /\ first = None /\ lost = {} /\ overruled = FALSE /\ faults = 0

Next ==
  \/ Store \/ StoreFails \/ Resume
  \/ \E l \in {"live", "ghost"} : WaitEnds(l)
  \/ Post \/ Acknowledge \/ PluginAnswers \/ PluginResolves
  \/ Poll \/ Receive \/ Break \/ Killed \/ HangUp
  \/ \E b \in Browsers, do \in {"answer", "cancel"} : Say(b, do) \/ SayElsewhere(b, do)
  \/ Reap \/ Sweep \/ Drop \/ Crash

\* The event loop goes on and its timers fire.  Nothing makes a plugin return,
\* a browser speak or the bridge poll.
Fairness ==
  /\ WF_vars(Store) /\ WF_vars(Resume)
  /\ \A l \in {"live", "ghost"} : WF_vars(WaitEnds(l))
  /\ WF_vars(Reap) /\ WF_vars(Sweep)

Spec == Init /\ [][Next]_vars /\ Fairness

-----------------------------------------------------------------------------
TypeOK ==
  /\ bridge \in {"asking", "posting", "pause", "polling", "over", "dead"}
  /\ result \in Outcomes \cup {None, Out("fallback", "bridge")}
  /\ response \in Outcomes \cup {None}
                  \cup {Out(is, "server") : is \in {"ack", "again", "missing"}}
  /\ {reposted, hangup, hook, postOpen, mem, older, failed, overruled} \subseteq BOOLEAN
  /\ listeners \subseteq {"live", "ghost"}
  /\ ops \in Seq([do : {"set", "delete", "answer", "cancel", "consume"}, by : Parties,
                 flag : BOOLEAN])
  /\ got \in Outcomes \cup {None, Absent, Pending}
             \cup {Out(is, by) : is \in {"wrote", "beaten"}, by \in Parties}
  /\ row \in Outcomes \cup {Absent, Pending} /\ first \in Outcomes \cup {None}
  /\ lost \subseteq Outcomes
  /\ sweep \in {"due", "done", "skipped"}
  /\ said \in [Browsers -> {"nothing", "answer", "cancel"}]
  /\ told \in [Browsers -> {"nothing", "taken", "refused"}]
  /\ faults \in 0..MaxFaults

\* The very answer whose sender was told that it counted is on disk, on its way to
\* the bridge or what the bridge reported: no delayed persist, reaper, sweep, failed
\* write, restart, later cancel or other browser's answer takes its place.  Only a
\* response that is cut off (its connection breaks, the server dies), a plugin that
\* answers late and a question that is dropped lose it, each after it was taken from
\* disk (ask-store.js:129-133, 178-202, 225-246).
AnswerSurvives ==
  \A b \in Browsers :
    said[b] = "answer" /\ told[b] = "taken"
      => Out("answered", b) \in {row, response, got, result} \cup lost

\* Of two browsers that answer or cancel at once, also at two instances, and of the
\* reaper, the sweep and the bridge's own cancel, the first one recorded is heard:
\* what the bridge reports is that outcome, unless it was lost, a plugin answered,
\* the server refused the open POST, or a browser cancelled a question in memory,
\* which the bridge hears whatever the row has (server.js:2870-2874).
OnlyFirstOutcomeHeard ==
  Final(result) /\ result.by \notin {"plugin", "server"} /\ first \notin lost /\ ~overruled
    => result = first

\* A poll whose connection lives.
LivePoll(op) == op.do = "consume" /\ op.flag

\* The bridge never waits for nothing: its POST has a handler that is yet to answer
\* it, its poll is in the store's queue or among the listeners, or the response is on
\* its way, whatever browsers, plugins, the reaper and failed writes do to the entry
\* and the row meanwhile (ask-perm.js:104-293, server.js:249-279, 1739-1757).
BridgeIsServed ==
  /\ bridge = "posting" => response # None \/ (hook /\ postOpen)
  /\ bridge = "polling" =>
       \/ response # None \/ "live" \in listeners
       \/ \E i \in DOMAIN ops : LivePoll(ops[i])

\* A question whose bridge is gone does not stay open: it leaves the memory of
\* the server and is not pending on disk, unless a write failed or the sweep had
\* to leave it to others.
DeadQuestionCloses ==
  <>[](Alive \/ failed \/ sweep = "skipped" \/ (~mem /\ row # Pending))
=============================================================================
