---------------------------- MODULE AskFlow_proofs ----------------------------
(***************************************************************************)
(* Proofs about AskFlow: the outcome that the bridge reports is the first  *)
(* that was recorded, an answer that counted stays on its way, and a       *)
(* bridge that waits has somebody to answer it.                            *)
(*                                                                         *)
(* Two facts carry them: the bridge has one request at a time (OneRequest),*)
(* so that no outcome on its way to it is replaced by another; and what    *)
(* takes an outcome from one place puts it into another or loses it        *)
(* (Survival), so that with nothing on its way the row has the first one.  *)
(***************************************************************************)
EXTENDS AskFlow, TLAPS

\* The bridge waits for a POST, a poll that waits for an outcome, or a response,
\* and for one of them only; while it waits it has reported nothing.
OneRequest ==
  /\ postOpen => bridge = "posting" /\ response = None /\ "live" \notin listeners
  /\ "live" \in listeners => bridge = "polling" /\ response = None
  /\ response # None => bridge \in {"posting", "polling"}
  /\ Alive => result = None

\* Or for a poll that the store has yet to serve.
InStore == bridge = "polling" /\ response = None /\ ~postOpen /\ "live" \notin listeners

OnePoll ==
  /\ \A i \in 1..Len(ops) : LivePoll(ops[i]) => InStore
  /\ \A i, j \in 1..Len(ops) : LivePoll(ops[i]) /\ LivePoll(ops[j]) => i = j

\* What a browser queued is what it said.
Sound(op) == op.do \in {"answer", "cancel"} /\ op.by \in Browsers => op.do = said[op.by]

Queued == \A i \in 1..Len(ops) : Sound(ops[i])

\* The first operation has run and its caller goes on next.
Served ==
  /\ got # None => Len(ops) > 0 /\ ops[1].do \in {"answer", "cancel", "consume"}
  /\ got.is = "wrote" => ops[1].do \in {"answer", "cancel"} /\ row = Outcome(ops[1])
  /\ Final(got) => ops[1].do = "consume"

\* The row has an outcome only after one was written.
Recorded == Final(row) => first # None

\* Where an outcome can be.
Kept(o) == o \in {row, response, got, result} \cup lost

\* The first outcome is somewhere, and so is each answer that counted.
Survival ==
  /\ first # None => Kept(first)
  /\ AnswerSurvives
  /\ \A b \in Browsers : told[b] # "nothing" => said[b] # "nothing"

\* An outcome that somebody wrote to the row, or a browser's that overruled it.
Worded(o) == Final(o) /\ o.by \notin {"plugin", "server"}

\* Such an outcome on its way is the first one.
Delivered ==
  first \notin lost /\ ~overruled =>
    /\ Worded(response) => response = first
    /\ Final(got) /\ Alive /\ ops[1].flag => got = first

IInv == /\ TypeOK /\ OneRequest /\ OnePoll /\ Queued /\ Served /\ Recorded /\ Survival
        /\ Delivered /\ OnlyFirstOutcomeHeard

-----------------------------------------------------------------------------
(* Outcomes and operations *)

OpType == [do : {"set", "delete", "answer", "cancel", "consume"}, by : Parties, flag : BOOLEAN]
Responses == Outcomes \cup {None} \cup {Out(is, "server") : is \in {"ack", "again", "missing"}}
Results == Outcomes \cup {None, Absent, Pending}
           \cup {Out(is, by) : is \in {"wrote", "beaten"}, by \in Parties}

LEMMA OutFact ==
  /\ \A is, by : Out(is, by).is = is /\ Out(is, by).by = by
  /\ \A is, by : Final(Out(is, by)) <=> is \in {"answered", "cancelled"}
  /\ ~Final(None) /\ ~Final(Absent) /\ ~Final(Pending)
  /\ None.is = "none" /\ None # Absent /\ None # Pending
  /\ \A is, by : is # "none" => Out(is, by) # None
BY DEF Out, Final, None, Absent, Pending

LEMMA TypeFact ==
  /\ \A is \in {"answered", "cancelled"}, by \in Parties :
       Out(is, by) \in Outcomes /\ Out(is, by) \in Responses /\ Out(is, by) \in Results
  /\ \A o \in Outcomes : Final(o) /\ o \in Responses /\ o \in Results
  /\ \A is \in {"ack", "again", "missing"} : Out(is, "server") \in Responses
  /\ \A is \in {"wrote", "beaten"}, by \in Parties : Out(is, by) \in Results
  /\ None \in Responses /\ None \in Results /\ Absent \in Results /\ Pending \in Results
  /\ \A o \in Responses : Final(o) => o \in Outcomes
  /\ \A o \in Results : Final(o) => o \in Outcomes
<1>1. \A is \in {"answered", "cancelled"}, by \in Parties : Out(is, by) \in Outcomes
  BY DEF Outcomes
<1>2. \A o \in Outcomes : \E is \in {"answered", "cancelled"}, by \in Parties : o = Out(is, by)
  BY DEF Outcomes
<1>3. \A o \in Outcomes : Final(o)
  BY <1>2, OutFact
<1>4. \A is \in {"ack", "again", "missing"} : Out(is, "server") \in Responses
  BY DEF Responses
<1>5. \A is \in {"wrote", "beaten"}, by \in Parties : Out(is, by) \in Results
  BY DEF Results
<1>6. \A o \in Outcomes : o \in Responses /\ o \in Results
  BY DEF Responses, Results
<1>7. None \in Responses /\ None \in Results /\ Absent \in Results /\ Pending \in Results
  BY DEF Responses, Results
<1>8. \A o \in Responses : Final(o) => o \in Outcomes
  <2> SUFFICES ASSUME NEW o \in Responses, o \notin Outcomes PROVE ~Final(o)
    OBVIOUS
  <2>1. o = None \/ \E is \in {"ack", "again", "missing"} : o = Out(is, "server")
    BY DEF Responses
  <2> QED
    BY <2>1, OutFact
<1>9. \A o \in Results : Final(o) => o \in Outcomes
  <2> SUFFICES ASSUME NEW o \in Results, o \notin Outcomes PROVE ~Final(o)
    OBVIOUS
  <2>1. \/ o \in {None, Absent, Pending}
        \/ \E is \in {"wrote", "beaten"}, by \in Parties : o = Out(is, by)
    BY DEF Results
  <2> QED
    BY <2>1, OutFact
<1> QED
  BY <1>1, <1>3, <1>4, <1>5, <1>6, <1>7, <1>8, <1>9

Types ==
  /\ response \in Responses /\ got \in Results /\ ops \in Seq(OpType)
  /\ row \in Outcomes \cup {Absent, Pending} /\ first \in Outcomes \cup {None}
  /\ result \in Outcomes \cup {None, Out("fallback", "bridge")}
  /\ said \in [Browsers -> {"nothing", "answer", "cancel"}]
  /\ told \in [Browsers -> {"nothing", "taken", "refused"}]
  /\ reposted \in BOOLEAN /\ hangup \in BOOLEAN /\ hook \in BOOLEAN
  /\ postOpen \in BOOLEAN /\ mem \in BOOLEAN /\ older \in BOOLEAN
  /\ failed \in BOOLEAN /\ overruled \in BOOLEAN /\ lost \subseteq Outcomes
  /\ listeners \subseteq {"live", "ghost"}
  /\ bridge \in {"asking", "posting", "pause", "polling", "over", "dead"}
  /\ faults \in 0..MaxFaults /\ sweep \in {"due", "done", "skipped"}

LEMMA TypesFact == TypeOK <=> Types
BY DEF TypeOK, Types, Responses, Results, OpType

LEMMA TypesNext == TypeOK' <=> Types'
BY TypesFact, PTL

LEMMA TypeParts == ASSUME TypeOK PROVE Types
BY TypesFact

\* What Outcome makes of an operation.
LEMMA OutcomeFact ==
  ASSUME NEW op \in OpType
  PROVE  /\ Outcome(op) \in Outcomes /\ Final(Outcome(op)) /\ Outcome(op).by = op.by
         /\ Outcome(op).is = (IF op.do = "answer" THEN "answered" ELSE "cancelled")
<1>1. op.by \in Parties
  BY DEF OpType
<1> QED
  BY <1>1, OutFact, TypeFact DEF Outcome

LEMMA ServeFact ==
  ASSUME ops \in Seq(OpType), NEW op \in OpType, Serve(op)
  PROVE  /\ ops' \in Seq(OpType) /\ Len(ops') = Len(ops) + 1 /\ Len(ops) \in Nat
         /\ \A i \in 1..Len(ops) : ops'[i] = ops[i]
         /\ ops'[Len(ops) + 1] = op
         /\ \A i \in 1..Len(ops') : i \in 1..Len(ops) \/ i = Len(ops) + 1
BY DEF Serve

LEMMA TailFact ==
  ASSUME ops \in Seq(OpType), Len(ops) > 0 \/ ops # <<>>, ops' = Tail(ops)
  PROVE  /\ ops' \in Seq(OpType) /\ Len(ops) \in Nat \ {0} /\ Len(ops') = Len(ops) - 1
         /\ \A i \in 1..Len(ops') : i + 1 \in 1..Len(ops) /\ ops'[i] = ops[i + 1]
         /\ Head(ops) = ops[1] /\ ops[1] \in OpType
OBVIOUS

LEMMA CutOpsFact ==
  ASSUME ops \in Seq(OpType),
         ops' = [i \in DOMAIN ops |-> IF ops[i].do = "consume"
                                      THEN [ops[i] EXCEPT !.flag = FALSE] ELSE ops[i]]
  PROVE  /\ ops' \in Seq(OpType) /\ Len(ops') = Len(ops) /\ Len(ops) \in Nat
         /\ \A i \in 1..Len(ops) : /\ ~LivePoll(ops'[i]) /\ ops'[i].do = ops[i].do
                                   /\ ops'[i].by = ops[i].by
                                   /\ ops[i].do # "consume" => ops'[i] = ops[i]
<1>1. DOMAIN ops = 1..Len(ops) /\ Len(ops) \in Nat
  OBVIOUS
<1>2. \A i \in 1..Len(ops) : ops[i] \in OpType
  OBVIOUS
<1>3. \A i \in 1..Len(ops) : /\ ops'[i] \in OpType
                             /\ ~LivePoll(ops'[i]) /\ ops'[i].do = ops[i].do
                             /\ ops'[i].by = ops[i].by
                             /\ ops[i].do # "consume" => ops'[i] = ops[i]
  BY <1>1, <1>2 DEF OpType, LivePoll
<1>4. ops' \in [1..Len(ops) -> OpType]
  BY <1>1, <1>3
<1> QED
  BY <1>1, <1>3, <1>4

-----------------------------------------------------------------------------
(* What the parts of the invariant depend on *)

\* A step that queues nothing, or something sound that is no poll.
LEMMA QueueKept ==
  ASSUME TypeOK, OnePoll, Queued, Served, got' = got, got.is = "wrote" => row' = row,
         InStore => InStore',
         \A b \in Browsers : said[b] # "nothing" => said'[b] = said[b],
         \/ ops' = ops
         \/ \E op \in OpType : Serve(op) /\ ~LivePoll(op) /\ Sound(op)'
  PROVE  OnePoll' /\ Queued' /\ Served' /\ ops' \in Seq(OpType)
         /\ (got # None => ops'[1] = ops[1])
<1>1. ops \in Seq(OpType) /\ \A b \in Browsers : said[b] \in {"nothing", "answer", "cancel"}
  BY TypeParts DEF Types
<1>2. \A op \in OpType : Sound(op) => Sound(op)'
  BY DEF Sound
<1>3. \A i \in 1..Len(ops) : ops[i] \in OpType
  BY <1>1
<1>4. CASE ops' = ops
  BY <1>1, <1>2, <1>3, <1>4 DEF OnePoll, Queued, Served
<1>5. ASSUME NEW op \in OpType, Serve(op), ~LivePoll(op), Sound(op)'
      PROVE  OnePoll' /\ Queued' /\ Served' /\ ops' \in Seq(OpType) /\ (got # None => ops'[1] = ops[1])
  <2>1. /\ ops' \in Seq(OpType) /\ Len(ops') = Len(ops) + 1 /\ Len(ops) \in Nat
        /\ \A i \in 1..Len(ops) : ops'[i] = ops[i]
        /\ ops'[Len(ops) + 1] = op
        /\ \A i \in 1..Len(ops') : i \in 1..Len(ops) \/ i = Len(ops) + 1
    BY <1>1, <1>5, ServeFact
  <2>2. \A i \in 1..Len(ops') : LivePoll(ops'[i]) => i \in 1..Len(ops) /\ LivePoll(ops[i])
    BY <1>5, <2>1
  <2>3. OnePoll'
    BY <2>2 DEF OnePoll
  <2>4. Queued'
    BY <1>2, <1>3, <1>5, <2>1 DEF Queued
  <2>5. got # None => ops'[1] = ops[1]
    BY <2>1 DEF Served
  <2>6. Served'
    BY <2>1, <2>5, OutFact DEF Served
  <2> QED
    BY <2>1, <2>3, <2>4, <2>5, <2>6
<1> QED
  BY <1>4, <1>5

\* A step that takes the first operation away.
LEMMA TailKept ==
  ASSUME TypeOK, OnePoll, Queued, Len(ops) > 0 \/ ops # <<>>, ops' = Tail(ops), got' = None,
         said' = said,
         (\E i \in 1..Len(ops) : i # 1 /\ LivePoll(ops[i])) /\ InStore => InStore'
  PROVE  OnePoll' /\ Queued' /\ Served' /\ ops' \in Seq(OpType)
<1>1. ops \in Seq(OpType)
  BY TypeParts DEF Types
<1>2. /\ ops' \in Seq(OpType) /\ Len(ops) \in Nat \ {0} /\ Len(ops') = Len(ops) - 1
      /\ \A i \in 1..Len(ops') : i + 1 \in 1..Len(ops) /\ ops'[i] = ops[i + 1]
  BY <1>1, TailFact
<1>3. \A op : Sound(op) => Sound(op)'
  BY DEF Sound
<1>4. Queued'
  BY <1>2, <1>3 DEF Queued
<1>5. \A i \in 1..Len(ops') : LivePoll(ops'[i]) => InStore'
  <2> SUFFICES ASSUME NEW i \in 1..Len(ops'), LivePoll(ops'[i]) PROVE InStore'
    OBVIOUS
  <2>1. i + 1 \in 1..Len(ops) /\ LivePoll(ops[i + 1]) /\ i + 1 # 1
    BY <1>2
  <2> QED
    BY <2>1 DEF OnePoll
<1>6. \A i, j \in 1..Len(ops') : LivePoll(ops'[i]) /\ LivePoll(ops'[j]) => i = j
  <2> SUFFICES ASSUME NEW i \in 1..Len(ops'), NEW j \in 1..Len(ops'), LivePoll(ops'[i]), LivePoll(ops'[j])
               PROVE  i = j
    OBVIOUS
  <2>1. i + 1 = j + 1
    BY <1>2 DEF OnePoll
  <2> QED
    BY <1>2, <2>1
<1>7. Served'
  BY OutFact DEF Served
<1> QED
  BY <1>2, <1>4, <1>5, <1>6, <1>7 DEF OnePoll

\* A step that leaves every outcome somewhere.
LEMMA SurvivalKept ==
  ASSUME TypeOK, Survival, \A o : Final(o) /\ Kept(o) => Kept(o)',
         first' = first, told' = told,
         \A b \in Browsers : said[b] # "nothing" => said'[b] = said[b]
  PROVE  Survival'
<1>1. first # None => Final(first)
  BY TypeParts, TypeFact DEF Types
<1>2. \A b : Final(Out("answered", b))
  BY OutFact
<1>3. AnswerSurvives'
  <2> SUFFICES ASSUME NEW b \in Browsers, said'[b] = "answer", told'[b] = "taken"
               PROVE  Kept(Out("answered", b))'
    BY DEF AnswerSurvives, Kept
  <2>1. said[b] = "answer" /\ told[b] = "taken"
    BY DEF Survival
  <2>2. Kept(Out("answered", b))
    BY <2>1 DEF Survival, AnswerSurvives, Kept
  <2> QED
    BY <1>2, <2>2
<1>4. first' # None => Kept(first)'
  <2> SUFFICES ASSUME first # None PROVE Kept(first)'
    OBVIOUS
  <2>1. Kept(first) /\ Final(first)
    BY <1>1 DEF Survival
  <2>2. first \in {row', response', got', result'} \cup lost'
    BY <2>1 DEF Kept
  <2> QED
    BY <2>2 DEF Kept
<1> QED
  BY <1>3, <1>4 DEF Survival

\* A step that touches no outcome, on disk or on its way.
LEMMA OutcomesKept ==
  ASSUME TypeOK, Recorded, Survival, Delivered, OnlyFirstOutcomeHeard,
         row' = row, first' = first, result' = result, told' = told,
         lost \subseteq lost', overruled => overruled', Alive' => Alive,
         got' = got \/ (~Final(got) /\ ~Final(got')),
         got' = got /\ Final(got) /\ ops'[1].flag => ops[1].flag,
         response' = response \/ (~Final(response) /\ ~Worded(response')),
         \A b \in Browsers : said[b] # "nothing" => said'[b] = said[b]
  PROVE  Recorded' /\ Survival' /\ Delivered' /\ OnlyFirstOutcomeHeard'
<1>1. Recorded'
  BY DEF Recorded
<1>2. \A o : Final(o) /\ Kept(o) => Kept(o)'
  BY DEF Kept
<1>3. Survival'
  BY <1>2, SurvivalKept
<1>4. first' \notin lost' /\ ~overruled' => first \notin lost /\ ~overruled
  OBVIOUS
<1>5. Delivered'
  BY <1>4 DEF Delivered
<1>6. OnlyFirstOutcomeHeard'
  BY <1>4 DEF OnlyFirstOutcomeHeard
<1> QED
  BY <1>1, <1>3, <1>5, <1>6

\* With nothing on its way the row has the first outcome, if that is not lost.
LEMMA FirstOnDisk ==
  ASSUME Survival, first # None, first \notin lost, ~Final(response), ~Final(got),
         result = None, TypeOK
  PROVE  row = first
<1>1. Final(first)
  BY TypeParts, TypeFact DEF Types
<1>2. first \in {row, response, got, result}
  BY DEF Survival, Kept
<1> QED
  BY <1>1, <1>2, OutFact

-----------------------------------------------------------------------------
(* The store *)

\* An outcome that is recorded: the first one stays the first.
LEMMA MarkFact ==
  ASSUME TypeOK, Recorded, Survival, Delivered, OnlyFirstOutcomeHeard, NEW o \in Outcomes, Mark(o)
  PROVE  /\ row' \in Outcomes \cup {Absent, Pending} /\ first' \in Outcomes \cup {None}
         /\ first # None => first' = first
         /\ Final(row') /\ first' # None
         /\ Open(row) => row' = o
         /\ ~Open(row) => row' = row /\ first' = first
         /\ first = None => row' = first'
         /\ first' \notin lost /\ ~overruled =>
              /\ Worded(response) => response = first'
              /\ Final(got) /\ Alive /\ ops[1].flag => got = first'
              /\ Worded(result) => result = first'
<1>1. /\ row' = IF Open(row) THEN o ELSE row
      /\ first' = IF Open(row) /\ first = None THEN o ELSE first
  BY DEF Mark
<1>2. row \in Outcomes \cup {Absent, Pending} /\ first \in Outcomes \cup {None} /\ lost \subseteq Outcomes
  BY TypeParts DEF Types
<1>3. Final(o) /\ o # None /\ ~Final(None) /\ None \notin Outcomes
  BY TypeFact, OutFact
<1>4. first # None => first' = first
  BY <1>1
<1>5. ~Open(row) <=> Final(row)
  BY DEF Open
<1>6. Final(row') /\ first' # None
  BY <1>1, <1>3, <1>5 DEF Recorded
<1>7. first = None => row' = first'
  BY <1>1, <1>5 DEF Recorded
<1>8. ASSUME first' \notin lost, ~overruled
      PROVE  /\ Worded(response) => response = first'
             /\ Final(got) /\ Alive /\ ops[1].flag => got = first'
             /\ Worded(result) => result = first'
  <2>1. first \notin lost
    BY <1>2, <1>3, <1>4, <1>8
  <2>2. /\ Worded(response) => response = first
        /\ Final(got) /\ Alive /\ ops[1].flag => got = first
        /\ Worded(result) => result = first
    BY <1>8, <2>1 DEF Delivered, OnlyFirstOutcomeHeard, Worded
  <2>3. CASE first = None
    BY <1>3, <2>2, <2>3 DEF Worded
  <2>4. CASE first # None
    BY <1>4, <2>2, <2>4
  <2> QED
    BY <2>3, <2>4
<1> QED
  BY <1>1, <1>2, <1>4, <1>6, <1>7, <1>8

\* The survival of outcomes when one is recorded.
LEMMA MarkSurvives ==
  ASSUME TypeOK, Survival, Recorded, Delivered, OnlyFirstOutcomeHeard, NEW o \in Outcomes, Mark(o),
         response' = response, result' = result, lost' = lost, got' = got \/ ~Final(got)
  PROVE  /\ \A x : Final(x) /\ Kept(x) => Kept(x)'
         /\ first' # None => Kept(first)'
<1>1. /\ Open(row) => row' = o
      /\ ~Open(row) => row' = row
      /\ first # None => first' = first
      /\ first = None => row' = first'
  BY MarkFact
<1>2. \A x : Final(x) /\ Kept(x) => Kept(x)'
  BY <1>1 DEF Kept, Open
<1>3. first # None => Final(first)
  BY TypeParts, TypeFact DEF Types
<1>4. first' # None => Kept(first)'
  <2>1. CASE first # None
    <3>1. Kept(first) /\ Final(first) /\ first' = first
      BY <1>1, <1>3, <2>1 DEF Survival
    <3>2. first \in {row', response', got', result'} \cup lost'
      BY <1>2, <3>1 DEF Kept
    <3> QED
      BY <3>1, <3>2 DEF Kept
  <2>2. CASE first = None
    BY <1>1, <2>2 DEF Kept
  <2> QED
    BY <2>1, <2>2
<1> QED
  BY <1>2, <1>4

LEMMA StoreKeeps ==
  ASSUME IInv, Store
  PROVE  IInv'
<1> DEFINE op == ops[1]
<1>0. TypeOK /\ OneRequest /\ OnePoll /\ Queued /\ Served /\ Recorded /\ Survival
      /\ Delivered /\ OnlyFirstOutcomeHeard
  BY DEF IInv
<1>1. /\ ops # <<>> /\ got = None
      /\ \/ /\ Head(ops).do = "set" /\ SetEntry(Head(ops))
            /\ ops' = Tail(ops) /\ UNCHANGED <<got, first, lost>>
         \/ /\ Head(ops).do = "delete" /\ row' = Absent
            /\ lost' = lost \cup {o \in {row} : Final(o)}
            /\ ops' = Tail(ops) /\ UNCHANGED <<got, first, older>>
         \/ /\ Head(ops).do \in {"answer", "cancel"} /\ Mark(Outcome(Head(ops)))
            /\ got' = Out(IF Open(row) THEN "wrote" ELSE "beaten", Head(ops).by)
            /\ UNCHANGED <<ops, older, lost>>
         \/ /\ Head(ops).do = "consume"
            /\ got' = row /\ row' = IF Final(row) THEN Absent ELSE row
            /\ UNCHANGED <<ops, first, older, lost>>
  BY DEF Store
<1>2. /\ bridge' = bridge /\ reposted' = reposted /\ result' = result /\ hangup' = hangup
      /\ response' = response /\ hook' = hook /\ postOpen' = postOpen /\ mem' = mem
      /\ listeners' = listeners /\ failed' = failed /\ sweep' = sweep /\ said' = said
      /\ told' = told /\ overruled' = overruled /\ faults' = faults
  BY DEF Store, client, server, users
<1>3. /\ ops \in Seq(OpType) /\ Len(ops) \in Nat \ {0} /\ Head(ops) = op /\ op \in OpType
      /\ 1 \in 1..Len(ops)
  BY <1>0, <1>1, TypeParts DEF Types
<1>4. OneRequest' /\ (InStore => InStore') /\ (Alive' <=> Alive)
  BY <1>0, <1>2 DEF OneRequest, InStore, Alive
<1>5. /\ row \in Outcomes \cup {Absent, Pending} /\ first \in Outcomes \cup {None} /\ older \in BOOLEAN
      /\ lost \subseteq Outcomes /\ ~Final(None) /\ ~Final(got)
  BY <1>0, <1>1, OutFact, TypeParts DEF Types
<1> HIDE DEF op
<1>6. CASE /\ \/ op.do = "set" /\ SetEntry(op) /\ lost' = lost
              \/ /\ op.do = "delete" /\ row' = Absent /\ older' = older
                 /\ lost' = lost \cup {o \in {row} : Final(o)}
           /\ ops' = Tail(ops) /\ got' = got /\ first' = first
  <2>1. OnePoll' /\ Queued' /\ Served' /\ ops' \in Seq(OpType)
    BY <1>0, <1>1, <1>2, <1>4, <1>6, TailKept
  <2>2. (row' = row \/ row' = Pending \/ row' = Absent) /\ older' \in BOOLEAN
    BY <1>5, <1>6 DEF SetEntry
  <2>3. lost \subseteq lost' /\ lost' \subseteq Outcomes
    <3>1. Final(row) => row \in Outcomes
      BY <1>5, OutFact
    <3> QED
      BY <1>5, <1>6, <3>1
  <2>4. TypeOK'
    BY <1>0, <1>1, <1>2, <1>5, <1>6, <2>1, <2>2, <2>3, TypeParts, TypesNext DEF Types
  <2>5. Final(row') => row' = row
    BY <2>2, OutFact
  <2>6. Final(row) => row' = row \/ row \in lost'
    BY <1>6 DEF SetEntry, Open
  <2>7. \A o : Final(o) /\ Kept(o) => Kept(o)'
    BY <1>2, <1>6, <2>3, <2>6 DEF Kept
  <2>8. Survival'
    BY <1>0, <1>2, <1>6, <2>7, SurvivalKept
  <2>9. Recorded' /\ OnlyFirstOutcomeHeard'
    BY <1>0, <1>2, <1>6, <2>3, <2>5 DEF Recorded, OnlyFirstOutcomeHeard
  <2>10. Delivered'
    BY <1>0, <1>2, <1>5, <1>6, <2>3 DEF Delivered
  <2> QED
    BY <1>4, <2>1, <2>4, <2>8, <2>9, <2>10 DEF IInv
<1>7. CASE op.do \in {"answer", "cancel"} /\ Mark(Outcome(op)) /\ ops' = ops /\ older' = older
           /\ got' = Out(IF Open(row) THEN "wrote" ELSE "beaten", op.by) /\ lost' = lost
  <2>1. Outcome(op) \in Outcomes
    BY <1>3, OutcomeFact
  <2>2. /\ row' \in Outcomes \cup {Absent, Pending} /\ first' \in Outcomes \cup {None}
        /\ first # None => first' = first
        /\ Final(row') /\ first' # None
        /\ Open(row) => row' = Outcome(op)
        /\ ~Open(row) => row' = row /\ first' = first
        /\ first' \notin lost /\ ~overruled =>
             /\ Worded(response) => response = first'
             /\ Worded(result) => result = first'
    BY <1>0, <1>7, <2>1, MarkFact
  <2>3. /\ got'.is = (IF Open(row) THEN "wrote" ELSE "beaten") /\ ~Final(got')
        /\ got' \in Results
    <3>1. op.by \in Parties
      BY <1>3 DEF OpType
    <3> QED
      BY <1>7, <3>1, OutFact, TypeFact
  <2>4. TypeOK'
    BY <1>0, <1>2, <1>5, <1>7, <2>2, <2>3, TypeParts, TypesNext DEF Types
  <2>5. OnePoll' /\ Queued'
    BY <1>0, <1>2, <1>4, <1>7 DEF OnePoll, Queued, Sound
  <2>6. Served'
    BY <1>3, <1>7, <2>2, <2>3 DEF Served, op
  <2>7. Recorded'
    BY <2>2 DEF Recorded
  <2>8. Survival'
    <3>1. /\ \A x : Final(x) /\ Kept(x) => Kept(x)'
          /\ Kept(first)'
      BY <1>0, <1>2, <1>5, <1>7, <2>1, <2>2, MarkSurvives
    <3>2. \A b \in Browsers : told'[b] # "nothing" => said'[b] # "nothing"
      BY <1>0, <1>2 DEF Survival
    <3>3. AnswerSurvives'
      <4> SUFFICES ASSUME NEW b \in Browsers, said[b] = "answer", told[b] = "taken"
                   PROVE  Kept(Out("answered", b))'
        BY <1>2 DEF AnswerSurvives, Kept
      <4>1. Kept(Out("answered", b))
        BY <1>0 DEF Survival, AnswerSurvives, Kept
      <4> QED
        BY <3>1, <4>1, OutFact
    <3> QED
      BY <3>1, <3>2, <3>3 DEF Survival
  <2>9. Delivered'
    BY <1>2, <1>7, <2>2, <2>3 DEF Delivered
  <2>10. OnlyFirstOutcomeHeard'
    BY <1>2, <1>7, <2>2 DEF OnlyFirstOutcomeHeard, Worded
  <2> QED
    BY <1>4, <2>4, <2>5, <2>6, <2>7, <2>8, <2>9, <2>10 DEF IInv
<1>8. CASE op.do = "consume" /\ got' = row /\ row' = (IF Final(row) THEN Absent ELSE row)
           /\ ops' = ops /\ first' = first /\ older' = older /\ lost' = lost
  <2>1. got' \in Results /\ row' \in Outcomes \cup {Absent, Pending}
    BY <1>5, <1>8, TypeFact
  <2>2. TypeOK'
    BY <1>0, <1>2, <1>5, <1>8, <2>1, TypeParts, TypesNext DEF Types
  <2>3. OnePoll' /\ Queued'
    BY <1>0, <1>2, <1>4, <1>8 DEF OnePoll, Queued, Sound
  <2>4. got'.is # "wrote"
    BY <1>5, <1>8, TypeFact DEF Final, Absent, Pending, Out
  <2>5. Served'
    BY <1>3, <1>8, <2>4 DEF Served, op
  <2>6. ~Final(row')
    BY <1>8, OutFact
  <2>7. Recorded' /\ OnlyFirstOutcomeHeard'
    BY <1>0, <1>2, <1>8, <2>6 DEF Recorded, OnlyFirstOutcomeHeard
  <2>8. Survival'
    <3>1. \A o : Final(o) /\ Kept(o) => Kept(o)'
      BY <1>2, <1>5, <1>8 DEF Kept
    <3> QED
      BY <1>0, <1>2, <1>8, <3>1, SurvivalKept
  <2>9. ASSUME Final(row), Alive, op.flag, first \notin lost PROVE row = first
    <3>1. response = None /\ result = None
      BY <1>0, <1>3, <1>8, <2>9 DEF OnePoll, LivePoll, InStore, OneRequest, op
    <3>2. first # None
      BY <1>0, <2>9 DEF Recorded
    <3> QED
      BY <1>0, <1>5, <2>9, <3>1, <3>2, FirstOnDisk
  <2>10. Delivered'
    BY <1>0, <1>2, <1>4, <1>8, <2>9 DEF Delivered, op
  <2> QED
    BY <1>4, <2>2, <2>3, <2>5, <2>7, <2>8, <2>10 DEF IInv
<1> QED
  BY <1>1, <1>3, <1>6, <1>7, <1>8

LEMMA StoreFailsKeeps ==
  ASSUME IInv, StoreFails
  PROVE  IInv'
<1>0. TypeOK /\ OneRequest /\ OnePoll /\ Queued /\ Served /\ Recorded /\ Survival
      /\ Delivered /\ OnlyFirstOutcomeHeard
  BY DEF IInv
<1>1. /\ ops # <<>> /\ got = None /\ faults < MaxFaults
      /\ IF Head(ops).do \in {"set", "delete"} THEN ops' = Tail(ops) /\ got' = got
         ELSE /\ ops' = ops
              /\ got' = IF Head(ops).do = "consume" THEN Absent ELSE Out("beaten", Head(ops).by)
      /\ failed' = TRUE /\ faults' = faults + 1
  BY DEF StoreFails
<1>2. /\ bridge' = bridge /\ reposted' = reposted /\ result' = result /\ hangup' = hangup
      /\ response' = response /\ hook' = hook /\ postOpen' = postOpen /\ mem' = mem
      /\ listeners' = listeners /\ sweep' = sweep /\ said' = said /\ row' = row
      /\ told' = told /\ lost' = lost /\ older' = older /\ first' = first
      /\ overruled' = overruled
  BY DEF StoreFails, client, server, users
<1>3. OneRequest' /\ (InStore => InStore') /\ (Alive' <=> Alive)
  BY <1>0, <1>2 DEF OneRequest, InStore, Alive
<1>4. ops \in Seq(OpType) /\ Len(ops) \in Nat \ {0} /\ Head(ops) \in OpType
  BY <1>0, <1>1, TypeParts DEF Types
<1>5. faults' \in 0..MaxFaults
  BY <1>0, <1>1, AskAssumption, TypeParts DEF Types
<1>6. OnePoll' /\ Queued' /\ Served' /\ ops' \in Seq(OpType)
      /\ got' \in Results /\ ~Final(got) /\ ~Final(got') /\ got'.is # "wrote"
  <2>1. CASE ops' = Tail(ops) /\ got' = got
    <3>1. OnePoll' /\ Queued' /\ Served' /\ ops' \in Seq(OpType)
      BY <1>0, <1>1, <1>2, <1>3, <2>1, TailKept
    <3> QED
      BY <1>1, <2>1, <3>1, OutFact, TypeFact
  <2>2. CASE ops' = ops /\ (got' = Absent \/ got' = Out("beaten", Head(ops).by))
    <3>1. Head(ops).by \in Parties
      BY <1>4 DEF OpType
    <3>2. got' \in Results /\ ~Final(got) /\ ~Final(got') /\ got'.is # "wrote"
      BY <1>1, <2>2, <3>1, OutFact, TypeFact DEF Absent
    <3>3. OnePoll' /\ Queued'
      BY <1>0, <1>2, <1>3, <2>2 DEF OnePoll, Queued, Sound
    <3>4. Served'
      BY <1>1, <1>4, <2>2, <3>2 DEF Served, OpType
    <3> QED
      BY <1>4, <2>2, <3>2, <3>3, <3>4
  <2> QED
    BY <1>1, <2>1, <2>2
<1>7. TypeOK'
  BY <1>0, <1>1, <1>2, <1>5, <1>6, TypeParts, TypesNext DEF Types
<1>8. Recorded' /\ Survival' /\ Delivered' /\ OnlyFirstOutcomeHeard'
  BY <1>0, <1>2, <1>3, <1>6, OutcomesKept
<1> QED
  BY <1>3, <1>6, <1>7, <1>8 DEF IInv

-----------------------------------------------------------------------------
(* The responses *)

LEMMA ResumeKeeps ==
  ASSUME IInv, Resume
  PROVE  IInv'
<1> DEFINE op == ops[1]
           wrote == got.is = "wrote"
<1>0. TypeOK /\ OneRequest /\ OnePoll /\ Queued /\ Served /\ Recorded /\ Survival
      /\ Delivered /\ OnlyFirstOutcomeHeard
  BY DEF IInv
<1>1. /\ got # None /\ got' = None /\ ops' = Tail(ops)
      /\ IF Head(ops).do = "consume" THEN ResumePoll(Head(ops)) ELSE ResumeMark(Head(ops), wrote)
  BY DEF Resume
<1>2. /\ bridge' = bridge /\ reposted' = reposted /\ result' = result /\ hangup' = hangup
      /\ hook' = hook /\ mem' = mem /\ row' = row /\ older' = older /\ failed' = failed
      /\ sweep' = sweep /\ said' = said /\ first' = first /\ faults' = faults
  BY DEF Resume, client
<1>3. ops \in Seq(OpType) /\ Len(ops) \in Nat /\ Len(ops) > 0
  BY <1>0, <1>1, TypeParts DEF Types, Served
<1>4. Head(ops) = op /\ op \in OpType /\ 1 \in 1..Len(ops)
  BY <1>3
<1>5. /\ response \in Responses /\ got \in Results /\ lost \subseteq Outcomes /\ op.by \in Parties
      /\ listeners \subseteq {"live", "ghost"} /\ overruled \in BOOLEAN
      /\ told \in [Browsers -> {"nothing", "taken", "refused"}] /\ postOpen \in BOOLEAN
      /\ op.flag \in BOOLEAN
  BY <1>0, <1>4, TypeParts DEF Types, OpType
<1>6. (Alive' <=> Alive) /\ ~Final(None)
  BY <1>2, OutFact DEF Alive
<1>7. CASE op.do = "consume" /\ ResumePoll(op)
  <2>1. postOpen' = postOpen /\ told' = told /\ overruled' = overruled
    BY <1>7 DEF ResumePoll
  <2>2. op.flag => InStore /\ (\A i \in 1..Len(ops) : LivePoll(ops[i]) => i = 1)
    BY <1>0, <1>4, <1>7 DEF OnePoll, LivePoll, op
  <2>3. op.flag => bridge = "polling" /\ response = None /\ ~postOpen /\ "live" \notin listeners
    BY <2>2 DEF InStore
  <2> HIDE DEF op
  <2>4. /\ ~op.flag => response' = response
        /\ "live" \in listeners' => "live" \in listeners \/ op.flag
        /\ listeners' \subseteq {"live", "ghost"}
        /\ lost' \subseteq Outcomes /\ lost \subseteq lost'
        /\ "live" \in listeners' /\ op.flag => response' = response
        /\ response' \in Responses
    <3>1. Final(got) => got \in Responses /\ got \in Outcomes
      BY <1>5, TypeFact
    <3> QED
      BY <1>5, <1>7, <2>3, <3>1, TypeFact DEF ResumePoll
  <2>5. OnePoll' /\ Queued' /\ Served' /\ ops' \in Seq(OpType)
    <3>1. (\E i \in 1..Len(ops) : i # 1 /\ LivePoll(ops[i])) /\ InStore => InStore'
      BY <1>2, <2>1, <2>2, <2>4 DEF InStore
    <3> QED
      BY <1>0, <1>1, <1>2, <1>3, <3>1, TailKept
  <2>6. TypeOK'
    BY <1>0, <1>1, <1>2, <1>5, <2>1, <2>4, <2>5, TypeParts, TypeFact, TypesNext DEF Types
  <2>7. OneRequest'
    BY <1>0, <1>2, <1>5, <1>6, <2>1, <2>3, <2>4 DEF OneRequest
  <2>8. CASE Final(got)
    <3>1. /\ response' = (IF op.flag THEN got ELSE response)
          /\ lost' = (IF op.flag THEN lost ELSE lost \cup {got})
      BY <1>7, <2>8 DEF ResumePoll
    <3>2. Recorded' /\ OnlyFirstOutcomeHeard'
      BY <1>0, <1>2, <2>1, <2>4 DEF Recorded, OnlyFirstOutcomeHeard
    <3>3. Survival'
      <4>1. \A o : Final(o) /\ Kept(o) => Kept(o)'
        BY <1>2, <1>6, <2>3, <3>1 DEF Kept
      <4> QED
        BY <1>0, <1>2, <2>1, <4>1, SurvivalKept
    <3>4. op.flag => Alive
      BY <2>3 DEF Alive
    <3>5. Delivered'
      <4> SUFFICES ASSUME first \notin lost', ~overruled, Worded(response')
                   PROVE  response' = first
        BY <1>1, <1>2, <1>6, <2>1 DEF Delivered
      <4>1. first \notin lost
        BY <2>4
      <4>2. CASE op.flag
        BY <1>0, <2>8, <3>1, <3>4, <4>1, <4>2 DEF Delivered, op
      <4>3. CASE ~op.flag
        BY <1>0, <3>1, <4>1, <4>3 DEF Delivered
      <4> QED
        BY <4>2, <4>3
    <3> QED
      BY <2>5, <2>6, <2>7, <3>2, <3>3, <3>5 DEF IInv
  <2>9. CASE ~Final(got)
    <3>1. lost' = lost
      BY <1>7, <2>9 DEF ResumePoll
    <3>2. response' = response \/ (op.flag /\ response' = Out("missing", "server"))
      BY <1>7, <2>9 DEF ResumePoll
    <3>3. response' = response \/ (~Final(response) /\ ~Worded(response'))
      BY <1>6, <2>3, <3>2, OutFact DEF Worded
    <3>4. Recorded' /\ Survival' /\ Delivered' /\ OnlyFirstOutcomeHeard'
      BY <1>0, <1>1, <1>2, <1>6, <2>1, <2>9, <3>1, <3>3, OutcomesKept
    <3> QED
      BY <2>5, <2>6, <2>7, <3>4 DEF IInv
  <2> QED
    BY <2>8, <2>9
<1>8. CASE op.do # "consume" /\ ResumeMark(op, wrote)
  <2>0. /\ op.do \in {"answer", "cancel"} /\ ~Final(got)
        /\ op.by \in Browsers => op.do = said[op.by]
        /\ wrote => row = Outcome(op)
    BY <1>0, <1>1, <1>4, <1>8 DEF Served, Queued, Sound, op
  <2> DEFINE wakes == Wakes(op, wrote)
  <2> HIDE DEF op, wrote
  <2>1. /\ \/ /\ op.flag /\ postOpen /\ postOpen' = FALSE
              /\ response' = (IF wakes THEN Outcome(op) ELSE Out("cancelled", "server"))
           \/ /\ ~postOpen \/ ~op.flag
              /\ response' = (IF wakes /\ "live" \in listeners THEN Outcome(op) ELSE response)
              /\ postOpen' = postOpen
        /\ listeners' = (IF wakes THEN {} ELSE listeners)
        /\ told' = [b \in Browsers |-> IF b # op.by THEN told[b]
                                       ELSE IF wakes THEN "taken" ELSE "refused"]
        /\ overruled' = (overruled \/ (wakes /\ ~wrote))
        /\ lost' = lost
    BY <1>8 DEF ResumeMark, PostReply, Taken
  <2>2. wakes /\ op.do = "answer" => wrote
    BY DEF Wakes
  <2> HIDE DEF wakes
  <2>3. /\ Outcome(op) \in Outcomes /\ Final(Outcome(op)) /\ Outcome(op).by = op.by
        /\ op.do = "answer" => Outcome(op) = Out("answered", op.by)
    BY <1>4, OutcomeFact DEF Outcome
  <2>4. /\ Out("cancelled", "server") \in Responses /\ ~Worded(Out("cancelled", "server"))
        /\ Outcome(op) \in Responses
    BY <2>3, TypeFact, OutFact DEF Parties, Worded
  <2>5. response' = response \/ (response = None /\ ~InStore /\ bridge \in {"posting", "polling"})
    BY <1>0, <2>1 DEF OneRequest, InStore
  <2>6. OnePoll' /\ Queued' /\ Served' /\ ops' \in Seq(OpType)
    <3>1. InStore => InStore'
      BY <1>2, <2>1 DEF InStore
    <3> QED
      BY <1>0, <1>1, <1>2, <1>3, <3>1, TailKept
  <2>7. told' \in [Browsers -> {"nothing", "taken", "refused"}] /\ overruled' \in BOOLEAN
    BY <1>5, <2>1
  <2>8. TypeOK'
    BY <1>0, <1>1, <1>2, <1>5, <2>1, <2>4, <2>6, <2>7, TypeParts, TypeFact, TypesNext DEF Types
  <2>9. OneRequest'
    BY <1>0, <1>2, <1>6, <2>1 DEF OneRequest
  <2>10. Recorded' /\ OnlyFirstOutcomeHeard'
    BY <1>0, <1>2, <2>1 DEF Recorded, OnlyFirstOutcomeHeard
  <2>11. \A o : Final(o) /\ Kept(o) => Kept(o)'
    BY <1>2, <1>6, <2>0, <2>1, <2>5 DEF Kept
  <2>12. Survival'
    <3>1. first' # None => Kept(first)'
      <4> SUFFICES ASSUME first # None PROVE Kept(first)'
        BY <1>2
      <4>1. Kept(first) /\ Final(first)
        BY <1>0, TypeParts, TypeFact DEF Types, Survival
      <4>2. first \in {row', response', got', result'} \cup lost'
        BY <2>11, <4>1 DEF Kept
      <4> QED
        BY <1>2, <4>2 DEF Kept
    <3>2. ASSUME NEW b \in Browsers, told'[b] # "nothing" PROVE said[b] # "nothing"
      <4>1. CASE b # op.by
        BY <1>0, <2>1, <3>2, <4>1 DEF Survival
      <4>2. CASE b = op.by
        BY <2>0, <4>2
      <4> QED
        BY <4>1, <4>2
    <3>3. ASSUME NEW b \in Browsers, said[b] = "answer", told'[b] = "taken"
          PROVE  Kept(Out("answered", b))'
      <4>1. CASE b # op.by
        <5>1. told[b] = "taken"
          BY <2>1, <3>3, <4>1
        <5>2. Kept(Out("answered", b))
          BY <1>0, <3>3, <5>1 DEF Survival, AnswerSurvives, Kept
        <5> QED
          BY <2>11, <5>2, OutFact
      <4>2. CASE b = op.by
        <5>1. row' = Out("answered", b)
          BY <1>2, <2>0, <2>1, <2>2, <2>3, <3>3, <4>2
        <5> QED
          BY <5>1 DEF Kept
      <4> QED
        BY <4>1, <4>2
    <3>4. AnswerSurvives'
      BY <1>2, <3>3 DEF AnswerSurvives, Kept
    <3> QED
      BY <1>2, <3>1, <3>2, <3>4 DEF Survival
  <2>13. ASSUME first \notin lost, ~overruled', Worded(response') PROVE response' = first
    <3>1. CASE response' = response
      BY <1>0, <2>1, <2>13, <3>1 DEF Delivered
    <3>2. CASE response' # response
      <4>1. response = None /\ result = None
        BY <1>0, <2>5, <3>2 DEF Alive, OneRequest
      <4>2. response' = Outcome(op) /\ wakes
        BY <2>1, <2>4, <2>13, <3>2
      <4>3. row = response' /\ Final(row)
        BY <2>0, <2>1, <2>3, <2>13, <4>2
      <4>4. first # None
        BY <1>0, <4>3 DEF Recorded
      <4>5. row = first
        BY <1>0, <1>6, <2>0, <2>13, <4>1, <4>4, FirstOnDisk
      <4> QED
        BY <4>3, <4>5
    <3> QED
      BY <3>1, <3>2
  <2>14. Delivered'
    BY <1>1, <1>2, <1>6, <2>1, <2>13 DEF Delivered
  <2> QED
    BY <2>6, <2>8, <2>9, <2>10, <2>12, <2>14 DEF IInv
<1> QED
  BY <1>1, <1>4, <1>7, <1>8

LEMMA WaitEndsKeeps ==
  ASSUME IInv, NEW l \in {"live", "ghost"}, WaitEnds(l)
  PROVE  IInv'
<1>0. TypeOK /\ OneRequest /\ OnePoll /\ Queued /\ Served /\ Recorded /\ Survival
      /\ Delivered /\ OnlyFirstOutcomeHeard
  BY DEF IInv
<1>1. /\ l \in listeners /\ listeners' = listeners \ {l}
      /\ response' = IF l = "live" THEN Out("again", "server") ELSE response
      /\ UNCHANGED <<client, hook, postOpen, mem, store, sweep, users, first, lost, faults>>
  BY DEF WaitEnds
<1>2. l = "live" => response = None /\ bridge = "polling" /\ ~postOpen
  BY <1>0, <1>1 DEF OneRequest
<1>3. (Alive' <=> Alive) /\ (InStore => InStore') /\ ~Final(None)
  BY <1>1, OutFact DEF Alive, InStore, client
<1>4. OnePoll' /\ Queued' /\ Served' /\ ops' \in Seq(OpType)
  BY <1>0, <1>1, <1>3, QueueKept DEF store, users
<1>5. TypeOK'
  <2>1. response' \in Responses
    BY <1>0, <1>1, TypeParts, TypeFact DEF Types
  <2> QED
    BY <1>0, <1>1, <2>1, TypeParts, TypesNext DEF Types, client, store, users
<1>6. OneRequest'
  BY <1>0, <1>1, <1>2, <1>3 DEF OneRequest, client
<1>7. response' = response \/ (~Final(response) /\ ~Worded(response'))
  BY <1>1, <1>2, <1>3, OutFact DEF Worded
<1>8. Recorded' /\ Survival' /\ Delivered' /\ OnlyFirstOutcomeHeard'
  BY <1>0, <1>1, <1>3, <1>7, OutcomesKept DEF store, users, client
<1> QED
  BY <1>4, <1>5, <1>6, <1>8 DEF IInv


-----------------------------------------------------------------------------
(* The bridge *)

LEMMA NamesFact ==
  /\ Browsers \subseteq Parties /\ {"bridge", "reaper", "sweep", "server", "plugin"} \subseteq Parties
  /\ "bridge" \notin Browsers /\ "reaper" \notin Browsers /\ "sweep" \notin Browsers
BY AskAssumption DEF Parties

LEMMA PostKeeps ==
  ASSUME IInv, Post
  PROVE  IInv'
<1>0. TypeOK /\ OneRequest /\ OnePoll /\ Queued /\ Served /\ Recorded /\ Survival
      /\ Delivered /\ OnlyFirstOutcomeHeard
  BY DEF IInv
<1> DEFINE op == Op("set", "server", FALSE)
<1>1. /\ bridge = "asking" /\ bridge' = "posting" /\ hook' = TRUE /\ postOpen' = TRUE /\ mem' = TRUE
      /\ Serve(op)
      /\ UNCHANGED <<reposted, result, response, hangup, listeners, got, row, older,
                     failed, sweep, users, first, lost, faults>>
  BY DEF Post
<1>2. op \in OpType /\ op.do = "set"
  BY NamesFact DEF Op, OpType
<1> HIDE DEF op
<1>3. Alive /\ Alive' /\ ~InStore /\ ~LivePoll(op) /\ Sound(op)'
  BY <1>1, <1>2 DEF Alive, InStore, LivePoll, Sound
<1>4. OnePoll' /\ Queued' /\ Served' /\ ops' \in Seq(OpType) /\ (got # None => ops'[1] = ops[1])
  BY <1>0, <1>1, <1>2, <1>3, QueueKept DEF users
<1>5. TypeOK'
  BY <1>0, <1>1, <1>4, TypeParts, TypesNext DEF Types, users
<1>6. OneRequest'
  BY <1>0, <1>1, <1>3 DEF OneRequest
<1>7. Recorded' /\ Survival' /\ Delivered' /\ OnlyFirstOutcomeHeard'
  BY <1>0, <1>1, <1>3, <1>4, OutFact, OutcomesKept DEF users
<1> QED
  BY <1>4, <1>5, <1>6, <1>7 DEF IInv

\* An open POST is answered with what nobody wrote to the row.
LEMMA PostAnswerFact ==
  ASSUME IInv, NEW op \in OpType, op.do \in {"set", "delete"}, Serve(op),
         NEW o \in Responses, o # None, ~Worded(o), PostAnswer(o),
         hook' \in BOOLEAN, mem' \in BOOLEAN, faults' \in 0..MaxFaults,
         UNCHANGED <<client, listeners, got, row, older, failed, sweep, users, first, lost>>
  PROVE  IInv'
<1>0. TypeOK /\ OneRequest /\ OnePoll /\ Queued /\ Served /\ Recorded /\ Survival
      /\ Delivered /\ OnlyFirstOutcomeHeard
  BY DEF IInv
<1>1. /\ postOpen' = FALSE /\ response' = IF postOpen THEN o ELSE response
      /\ UNCHANGED <<client, listeners, got, row, older, failed, sweep, users, first, lost>>
  BY DEF PostAnswer
<1>2. postOpen => response = None /\ bridge = "posting" /\ "live" \notin listeners
  BY <1>0 DEF OneRequest
<1>3. (Alive' <=> Alive) /\ (InStore => InStore') /\ ~LivePoll(op) /\ Sound(op)' /\ ~Final(None)
  BY <1>1, OutFact DEF Alive, InStore, LivePoll, Sound, client
<1>4. OnePoll' /\ Queued' /\ Served' /\ ops' \in Seq(OpType) /\ (got # None => ops'[1] = ops[1])
  BY <1>0, <1>1, <1>3, QueueKept DEF users
<1>5. TypeOK'
  <2>1. response' \in Responses
    BY <1>0, <1>1, TypeParts DEF Types
  <2> QED
    BY <1>0, <1>1, <1>4, <2>1, TypeParts, TypesNext DEF Types, users, client
<1>6. OneRequest'
  BY <1>0, <1>1, <1>2, <1>3 DEF OneRequest, client
<1>7. response' = response \/ (~Final(response) /\ ~Worded(response'))
  BY <1>1, <1>2, <1>3
<1>8. Recorded' /\ Survival' /\ Delivered' /\ OnlyFirstOutcomeHeard'
  BY <1>0, <1>1, <1>3, <1>4, <1>7, OutFact, OutcomesKept DEF users, client
<1> QED
  BY <1>4, <1>5, <1>6, <1>8 DEF IInv

LEMMA AcknowledgeKeeps ==
  ASSUME IInv, Acknowledge
  PROVE  IInv'
<1>1. Op("set", "server", FALSE) \in OpType /\ Op("set", "server", FALSE).do = "set"
  BY NamesFact DEF Op, OpType
<1>2. Out("ack", "server") \in Responses /\ Out("ack", "server") # None
      /\ ~Worded(Out("ack", "server"))
  BY TypeFact, OutFact DEF Worded
<1>3. faults' \in 0..MaxFaults /\ hook' \in BOOLEAN /\ mem' \in BOOLEAN
  BY TypeParts DEF IInv, Acknowledge, Types
<1> QED
  BY <1>1, <1>2, <1>3, PostAnswerFact DEF Acknowledge

LEMMA PluginAnswerFact ==
  /\ Op("delete", "plugin", FALSE) \in OpType /\ Op("delete", "plugin", FALSE).do = "delete"
  /\ Out("answered", "plugin") \in Responses /\ Out("answered", "plugin") # None
  /\ ~Worded(Out("answered", "plugin"))
BY NamesFact, TypeFact, OutFact DEF Op, OpType, Worded

LEMMA PluginAnswersKeeps ==
  ASSUME IInv, PluginAnswers
  PROVE  IInv'
<1>1. faults' \in 0..MaxFaults /\ hook' \in BOOLEAN /\ mem' \in BOOLEAN
  BY TypeParts DEF IInv, PluginAnswers, Types
<1> QED
  BY <1>1, PluginAnswerFact, PostAnswerFact DEF PluginAnswers

LEMMA PluginResolvesKeeps ==
  ASSUME IInv, PluginResolves
  PROVE  IInv'
<1>1. /\ faults \in 0..MaxFaults /\ faults < MaxFaults /\ faults' = faults + 1
      /\ hook \in BOOLEAN /\ hook' = hook /\ mem' = FALSE
  BY TypeParts DEF IInv, PluginResolves, Types
<1>2. faults' \in 0..MaxFaults
  BY <1>1, AskAssumption
<1>3. hook' \in BOOLEAN /\ mem' \in BOOLEAN
  BY <1>1
<1> QED
  BY <1>2, <1>3, PluginAnswerFact, PostAnswerFact DEF PluginResolves

LEMMA PollKeeps ==
  ASSUME IInv, Poll
  PROVE  IInv'
<1>0. TypeOK /\ OneRequest /\ OnePoll /\ Queued /\ Served /\ Recorded /\ Survival
      /\ Delivered /\ OnlyFirstOutcomeHeard
  BY DEF IInv
<1> DEFINE op == Op("consume", "bridge", TRUE)
<1>1. /\ bridge = "pause" /\ bridge' = "polling" /\ Serve(op)
      /\ UNCHANGED <<reposted, result, hangup, response, server, got, row, older,
                     failed, sweep, users, first, lost, faults>>
  BY DEF Poll
<1>2. op \in OpType /\ op.do = "consume"
  BY NamesFact DEF Op, OpType, Parties
<1> HIDE DEF op
<1>3. ops \in Seq(OpType)
  BY <1>0, TypeParts DEF Types
<1>4. /\ ops' \in Seq(OpType) /\ Len(ops') = Len(ops) + 1 /\ Len(ops) \in Nat
      /\ \A i \in 1..Len(ops) : ops'[i] = ops[i]
      /\ ops'[Len(ops) + 1] = op
      /\ \A i \in 1..Len(ops') : i \in 1..Len(ops) \/ i = Len(ops) + 1
  BY <1>1, <1>2, <1>3, ServeFact
<1>5. response = None /\ ~postOpen /\ "live" \notin listeners /\ Alive /\ Alive' /\ ~InStore
  BY <1>0, <1>1 DEF OneRequest, Alive, InStore
<1>6. InStore'
  BY <1>1, <1>5 DEF InStore, server
<1>7. OnePoll'
  <2>1. \A i \in 1..Len(ops') : LivePoll(ops'[i]) => i = Len(ops) + 1
    BY <1>0, <1>4, <1>5 DEF OnePoll
  <2> QED
    BY <1>6, <2>1 DEF OnePoll
<1>8. Queued'
  <2>1. \A x : Sound(x) => Sound(x)'
    BY <1>1, <1>5 DEF Sound, users
  <2>2. Sound(op)'
    BY <1>2 DEF Sound
  <2> QED
    BY <1>0, <1>4, <2>1, <2>2 DEF Queued
<1>9. got # None => ops'[1] = ops[1]
  BY <1>0, <1>4 DEF Served
<1>10. Served'
  BY <1>0, <1>1, <1>4, <1>9, OutFact DEF Served
<1>11. TypeOK'
  BY <1>0, <1>1, <1>4, TypeParts, TypesNext DEF Types, users, server
<1>12. OneRequest'
  BY <1>0, <1>1, <1>5 DEF OneRequest, server
<1>13. Recorded' /\ Survival' /\ Delivered' /\ OnlyFirstOutcomeHeard'
  BY <1>0, <1>1, <1>5, <1>9, OutFact, OutcomesKept DEF users, server
<1> QED
  BY <1>7, <1>8, <1>10, <1>11, <1>12, <1>13 DEF IInv

LEMMA ReceiveKeeps ==
  ASSUME IInv, Receive
  PROVE  IInv'
<1>0. TypeOK /\ OneRequest /\ OnePoll /\ Queued /\ Served /\ Recorded /\ Survival
      /\ Delivered /\ OnlyFirstOutcomeHeard
  BY DEF IInv
<1>1. /\ response # None /\ response' = None
      /\ \/ /\ Final(response) /\ bridge' = "over" /\ result' = response
            /\ UNCHANGED reposted
         \/ /\ response.is \in {"ack", "again"} /\ bridge' = "pause"
            /\ UNCHANGED <<reposted, result>>
         \/ /\ response.is = "missing" /\ ~reposted /\ bridge' = "asking"
            /\ reposted' = TRUE /\ UNCHANGED result
         \/ /\ response.is = "missing" /\ reposted /\ bridge' = "over"
            /\ result' = Out("fallback", "bridge") /\ UNCHANGED reposted
      /\ UNCHANGED <<hangup, server, store, sweep, users, first, lost, faults>>
  BY DEF Receive
<1>2. /\ Alive /\ ~postOpen /\ "live" \notin listeners /\ ~InStore /\ result = None
  BY <1>0, <1>1 DEF OneRequest, Alive, InStore
<1>3. ~Final(None) /\ (response.is \in {"ack", "again", "missing"} => ~Final(response))
  BY OutFact DEF Final
<1>4. OnePoll' /\ Queued' /\ Served' /\ ops' \in Seq(OpType)
  BY <1>0, <1>1, <1>2, QueueKept DEF store, users
<1>5. response \in Responses /\ (Final(response) => response \in Outcomes)
  BY <1>0, TypeParts, TypeFact DEF Types
<1>6. TypeOK'
  <2>1. /\ response' \in Responses
        /\ result' \in Outcomes \cup {None, Out("fallback", "bridge")}
        /\ reposted' \in BOOLEAN
        /\ bridge' \in {"asking", "posting", "pause", "polling", "over", "dead"}
    BY <1>0, <1>1, <1>5, TypeParts, TypeFact DEF Types
  <2> QED
    BY <1>0, <1>1, <1>4, <2>1, TypeParts, TypesNext DEF Types, store, server, users
<1>7. OneRequest'
  BY <1>1, <1>2 DEF OneRequest, server, Alive
<1>8. Recorded'
  BY <1>0, <1>1 DEF Recorded, store
<1>9. Survival'
  <2>1. \A o : Final(o) /\ Kept(o) => Kept(o)'
    BY <1>1, <1>2, <1>3 DEF Kept, store
  <2> QED
    BY <1>0, <1>1, <2>1, SurvivalKept DEF users
<1>10. Delivered'
  BY <1>0, <1>1, <1>2, <1>3 DEF Delivered, store, users, Worded
<1>11. OnlyFirstOutcomeHeard'
  <2>1. CASE result' = response
    BY <1>0, <1>1, <2>1 DEF Delivered, Worded, OnlyFirstOutcomeHeard, users
  <2>2. CASE ~Final(result')
    BY <2>2 DEF OnlyFirstOutcomeHeard
  <2>3. result' = response \/ ~Final(result')
    BY <1>1, <1>2, <1>3, OutFact
  <2> QED
    BY <2>1, <2>2, <2>3
<1> QED
  BY <1>4, <1>6, <1>7, <1>8, <1>9, <1>10, <1>11 DEF IInv

\* The bridge stops waiting: what was on its way is lost unless the row has it.
LEMMA DisconnectFact ==
  ASSUME IInv, Disconnect, Retry \/ (bridge' = "dead" /\ result' = result), Alive,
         UNCHANGED <<got, row, users, first>>
  PROVE  /\ OneRequest' /\ OnePoll' /\ Queued' /\ Served' /\ Recorded' /\ Survival' /\ Delivered'
         /\ OnlyFirstOutcomeHeard' /\ ops' \in Seq(OpType) /\ lost' \subseteq Outcomes
         /\ listeners' \subseteq {"live", "ghost"} /\ response' = None /\ postOpen' = FALSE
         /\ bridge' \in {"asking", "posting", "pause", "polling", "over", "dead"}
         /\ result' \in {None, Out("fallback", "bridge")}
<1>0. TypeOK /\ OneRequest /\ OnePoll /\ Queued /\ Served /\ Recorded /\ Survival
      /\ Delivered /\ OnlyFirstOutcomeHeard
  BY DEF IInv
<1>1. /\ response' = None /\ postOpen' = FALSE /\ listeners' = listeners \ {"live"}
      /\ lost' = lost \cup OffDisk({response})
      /\ ops' = [i \in DOMAIN ops |-> IF ops[i].do = "consume"
                                      THEN [ops[i] EXCEPT !.flag = FALSE] ELSE ops[i]]
      /\ UNCHANGED <<got, row, said, told, overruled, first>>
  BY DEF Disconnect, users
<1>2. /\ ops \in Seq(OpType) /\ lost \subseteq Outcomes /\ listeners \subseteq {"live", "ghost"}
      /\ response \in Responses
      /\ bridge \in {"asking", "posting", "pause", "polling", "over", "dead"}
  BY <1>0, TypeParts DEF Types
<1>3. /\ ops' \in Seq(OpType) /\ Len(ops') = Len(ops) /\ Len(ops) \in Nat
      /\ \A i \in 1..Len(ops) : /\ ~LivePoll(ops'[i]) /\ ops'[i].do = ops[i].do
                                /\ ops'[i].by = ops[i].by
                                /\ ops[i].do # "consume" => ops'[i] = ops[i]
  BY <1>1, <1>2, CutOpsFact
<1>4. ~Final(None) /\ result = None
  BY <1>0, OutFact DEF OneRequest
<1>5. lost' \subseteq Outcomes /\ lost \subseteq lost' /\ (Final(response) => response = row \/ response \in lost')
  BY <1>1, <1>2, TypeFact DEF OffDisk
<1>6. /\ bridge' \in {"asking", "posting", "pause", "polling", "over", "dead"}
      /\ result' = None \/ (result' = Out("fallback", "bridge") /\ ~Alive')
  BY <1>2, <1>4 DEF Retry, Alive
<1>7. OneRequest'
  BY <1>1, <1>6 DEF OneRequest
<1>8. OnePoll'
  BY <1>3 DEF OnePoll
<1>9. Queued'
  BY <1>0, <1>1, <1>3 DEF Queued, Sound
<1>10. Served'
  BY <1>0, <1>1, <1>3, OutFact DEF Served
<1>11. Recorded'
  BY <1>0, <1>1 DEF Recorded
<1>12. Survival'
  <2>1. \A o : Final(o) /\ Kept(o) => Kept(o)'
    BY <1>1, <1>4, <1>5 DEF Kept
  <2> QED
    BY <1>0, <1>1, <2>1, SurvivalKept
<1>13. Delivered'
  <2> SUFFICES ASSUME Final(got) PROVE ~ops'[1].flag
    BY <1>1, <1>4 DEF Delivered, Worded
  <2>1. Len(ops) > 0 /\ ops[1].do = "consume"
    BY <1>0, <1>4 DEF Served
  <2>2. 1 \in 1..Len(ops)
    BY <1>3, <2>1
  <2> QED
    BY <1>3, <2>1, <2>2 DEF LivePoll
<1>14. OnlyFirstOutcomeHeard'
  BY <1>6, OutFact DEF OnlyFirstOutcomeHeard
<1> QED
  BY <1>1, <1>2, <1>3, <1>5, <1>6, <1>7, <1>8, <1>9, <1>10, <1>11, <1>12, <1>13, <1>14

LEMMA BreakKeeps ==
  ASSUME IInv, Break
  PROVE  IInv'
<1>1. /\ bridge \in {"posting", "polling"} /\ faults < MaxFaults /\ Disconnect /\ Retry
      /\ faults' = faults + 1
      /\ UNCHANGED <<reposted, hangup, hook, mem, got, row, older, failed, sweep,
                     users, first>>
  BY DEF Break
<1>2. /\ OneRequest' /\ OnePoll' /\ Queued' /\ Served' /\ Recorded' /\ Survival' /\ Delivered'
      /\ OnlyFirstOutcomeHeard' /\ ops' \in Seq(OpType) /\ lost' \subseteq Outcomes
      /\ listeners' \subseteq {"live", "ghost"} /\ response' = None /\ postOpen' = FALSE
      /\ bridge' \in {"asking", "posting", "pause", "polling", "over", "dead"}
      /\ result' \in {None, Out("fallback", "bridge")}
  <2>1. Alive
    BY <1>1 DEF Alive
  <2> QED
    BY <1>1, <2>1, DisconnectFact
<1>3. faults' \in 0..MaxFaults
  BY <1>1, AskAssumption, TypeParts DEF IInv, Types
<1>4. TypeOK'
  BY <1>1, <1>2, <1>3, TypeParts, TypeFact, TypesNext DEF IInv, Types, users
<1> QED
  BY <1>2, <1>4 DEF IInv

LEMMA KilledKeeps ==
  ASSUME IInv, Killed
  PROVE  IInv'
<1>1. /\ Alive /\ bridge' = "dead" /\ Disconnect
      /\ hangup' \in {FALSE, reposted \/ bridge \notin {"asking", "posting"}}
      /\ UNCHANGED <<reposted, result, hook, mem, got, row, older, failed, sweep,
                     users, first, faults>>
  BY DEF Killed
<1>2. /\ OneRequest' /\ OnePoll' /\ Queued' /\ Served' /\ Recorded' /\ Survival' /\ Delivered'
      /\ OnlyFirstOutcomeHeard' /\ ops' \in Seq(OpType) /\ lost' \subseteq Outcomes
      /\ listeners' \subseteq {"live", "ghost"} /\ response' = None /\ postOpen' = FALSE
  BY <1>1, DisconnectFact
<1>3. hangup' \in BOOLEAN
  BY <1>1, TypeParts DEF IInv, Types
<1>4. TypeOK'
  BY <1>1, <1>2, <1>3, TypeParts, TypeFact, TypesNext DEF IInv, Types, users
<1> QED
  BY <1>2, <1>4 DEF IInv

-----------------------------------------------------------------------------
(* The others *)

\* An operation is queued and nothing else of the bridge or the row changes.
LEMMA QueuesOnly ==
  ASSUME IInv,
         \/ ops' = ops
         \/ \E op \in OpType : Serve(op) /\ ~LivePoll(op) /\ Sound(op)',
         UNCHANGED <<bridge, reposted, result, response, hook, postOpen, listeners, got,
                     row, older, failed, told, overruled, first, lost>>,
         hangup' \in BOOLEAN, mem' \in BOOLEAN,
         sweep' \in {"due", "done", "skipped"}, faults' \in 0..MaxFaults,
         said' \in [Browsers -> {"nothing", "answer", "cancel"}],
         \A b \in Browsers : said[b] # "nothing" => said'[b] = said[b]
  PROVE  IInv'
<1>0. TypeOK /\ OneRequest /\ OnePoll /\ Queued /\ Served /\ Recorded /\ Survival
      /\ Delivered /\ OnlyFirstOutcomeHeard
  BY DEF IInv
<1>1. (Alive' <=> Alive) /\ (InStore => InStore')
  BY DEF Alive, InStore
<1>2. OnePoll' /\ Queued' /\ Served' /\ ops' \in Seq(OpType) /\ (got # None => ops'[1] = ops[1])
  BY <1>0, <1>1, QueueKept
<1>3. TypeOK'
  BY <1>0, <1>2, TypeParts, TypesNext DEF Types
<1>4. OneRequest'
  BY <1>0, <1>1 DEF OneRequest
<1>5. Recorded' /\ Survival' /\ Delivered' /\ OnlyFirstOutcomeHeard'
  BY <1>0, <1>1, <1>2, OutFact, OutcomesKept
<1> QED
  BY <1>2, <1>3, <1>4, <1>5 DEF IInv

LEMMA HangUpKeeps ==
  ASSUME IInv, HangUp
  PROVE  IInv'
<1> DEFINE op == Op("cancel", "bridge", FALSE)
<1>1. op \in OpType /\ op.do = "cancel" /\ op.by = "bridge"
  BY NamesFact DEF Op, OpType, Parties
<1>2. Serve(op) /\ ~LivePoll(op) /\ Sound(op)'
  BY <1>1, NamesFact DEF LivePoll, Sound, HangUp
<1> HIDE DEF op
<1> QED
  BY <1>1, <1>2, QueuesOnly, TypeParts DEF IInv, HangUp, Types, users

LEMMA SayKeeps ==
  ASSUME IInv, NEW b \in Browsers, NEW do \in {"answer", "cancel"}, Say(b, do)
  PROVE  IInv'
<1>1. /\ Serve(Op(do, b, mem)) /\ said[b] = "nothing" /\ said' = [said EXCEPT ![b] = do]
      /\ mem' = FALSE
      /\ UNCHANGED <<client, response, hook, postOpen, listeners, got, row, older,
                     failed, sweep, told, overruled, first, lost, faults>>
  BY DEF Say, Speaks
<1>2. mem \in BOOLEAN /\ said \in [Browsers -> {"nothing", "answer", "cancel"}]
  BY TypeParts DEF IInv, Types
<1>3. PICK op \in OpType : Serve(op) /\ op.do = do /\ op.by = b
  <2>1. /\ Op(do, b, mem) \in OpType
        /\ Op(do, b, mem).do = do /\ Op(do, b, mem).by = b
    BY <1>2, NamesFact DEF Op, OpType
  <2> QED
    BY <1>1, <2>1
<1>4. /\ said' \in [Browsers -> {"nothing", "answer", "cancel"}] /\ said'[b] = do
      /\ \A x \in Browsers : said[x] # "nothing" => said'[x] = said[x]
  BY <1>1, <1>2
<1>5. ~LivePoll(op)
  BY <1>3 DEF LivePoll
<1>6. Sound(op)'
  BY <1>3, <1>4, NamesFact DEF Sound
<1>7. /\ UNCHANGED <<bridge, reposted, result, response, hook, postOpen, listeners, got,
                     row, older, failed, told, overruled, first, lost>>
      /\ hangup' = hangup /\ sweep' = sweep /\ faults' = faults
  BY <1>1 DEF client
<1>8. /\ hangup' \in BOOLEAN /\ mem' \in BOOLEAN
      /\ sweep' \in {"due", "done", "skipped"} /\ faults' \in 0..MaxFaults
  <2>1. hangup \in BOOLEAN /\ sweep \in {"due", "done", "skipped"} /\ faults \in 0..MaxFaults
    BY TypeParts DEF IInv, Types
  <2>2. mem' \in BOOLEAN
    BY <1>1
  <2> QED
    BY <1>7, <2>1, <2>2
<1>9. \E x \in OpType : Serve(x) /\ ~LivePoll(x) /\ Sound(x)'
  BY <1>3, <1>5, <1>6
<1> QED
  BY <1>4, <1>7, <1>8, <1>9, QueuesOnly

LEMMA SayElsewhereKeeps ==
  ASSUME IInv, NEW b \in Browsers, NEW do \in {"answer", "cancel"}, SayElsewhere(b, do)
  PROVE  IInv'
<1>0. TypeOK /\ OneRequest /\ OnePoll /\ Queued /\ Served /\ Recorded /\ Survival
      /\ Delivered /\ OnlyFirstOutcomeHeard
  BY DEF IInv
<1> DEFINE op == Op(do, b, FALSE)
<1>1. /\ said[b] = "nothing" /\ said' = [said EXCEPT ![b] = do]
      /\ told' = [told EXCEPT ![b] = IF Open(row) THEN "taken" ELSE "refused"]
      /\ Mark(Outcome(op))
  BY DEF SayElsewhere, Speaks
<1>2. /\ bridge' = bridge /\ reposted' = reposted /\ result' = result /\ hangup' = hangup
      /\ response' = response /\ hook' = hook /\ postOpen' = postOpen /\ mem' = mem
      /\ listeners' = listeners /\ ops' = ops /\ got' = got /\ older' = older
      /\ failed' = failed /\ sweep' = sweep /\ lost' = lost /\ overruled' = overruled
      /\ faults' = faults
  BY DEF SayElsewhere, client, server
<1>3. op \in OpType /\ op.by = b /\ op.do = do
  BY NamesFact DEF Op, OpType
<1> HIDE DEF op
<1>4. Outcome(op) \in Outcomes
  BY <1>3, OutcomeFact
<1>5. /\ row' \in Outcomes \cup {Absent, Pending} /\ first' \in Outcomes \cup {None}
      /\ first # None => first' = first
      /\ Final(row') /\ first' # None
      /\ Open(row) => row' = Outcome(op)
      /\ ~Open(row) => row' = row /\ first' = first
      /\ first' \notin lost /\ ~overruled =>
           /\ Worded(response) => response = first'
           /\ Final(got) /\ Alive /\ ops[1].flag => got = first'
           /\ Worded(result) => result = first'
  BY <1>0, <1>1, <1>4, MarkFact
<1>6. /\ said \in [Browsers -> {"nothing", "answer", "cancel"}]
      /\ told \in [Browsers -> {"nothing", "taken", "refused"}]
      /\ ops \in Seq(OpType) /\ Len(ops) \in Nat
  BY <1>0, TypeParts DEF Types
<1>7. /\ said' \in [Browsers -> {"nothing", "answer", "cancel"}] /\ said'[b] = do
      /\ told' \in [Browsers -> {"nothing", "taken", "refused"}]
      /\ told'[b] = (IF Open(row) THEN "taken" ELSE "refused")
      /\ \A x \in Browsers : x # b => said'[x] = said[x] /\ told'[x] = told[x]
      /\ \A x \in Browsers : said[x] # "nothing" => said'[x] = said[x]
  BY <1>1, <1>6
<1>8. (Alive' <=> Alive) /\ (InStore => InStore') /\ OneRequest'
  BY <1>0, <1>2 DEF Alive, InStore, OneRequest
<1>9. got.is = "wrote" => row' = row
  <2>1. got.is = "wrote" => got # None /\ row = Outcome(ops[1]) /\ Len(ops) > 0
    BY <1>0, OutFact DEF Served
  <2>2. Len(ops) > 0 => ops[1] \in OpType
    BY <1>6
  <2> QED
    BY <1>5, <2>1, <2>2, OutcomeFact DEF Open
<1>10. OnePoll' /\ Queued' /\ Served'
  BY <1>0, <1>2, <1>7, <1>8, <1>9, QueueKept
<1>11. TypeOK'
  BY <1>0, <1>2, <1>5, <1>7, TypeParts, TypesNext DEF Types
<1>12. Recorded'
  BY <1>5 DEF Recorded
<1>13. Survival'
  <2>1. /\ \A x : Final(x) /\ Kept(x) => Kept(x)'
        /\ Kept(first)'
    BY <1>0, <1>1, <1>2, <1>4, <1>5, MarkSurvives
  <2>2. \A x \in Browsers : told'[x] # "nothing" => said'[x] # "nothing"
    BY <1>0, <1>7 DEF Survival
  <2>3. ASSUME NEW x \in Browsers, said'[x] = "answer", told'[x] = "taken"
        PROVE  Kept(Out("answered", x))'
    <3>1. CASE x # b
      <4>1. Kept(Out("answered", x))
        BY <1>0, <1>7, <2>3, <3>1 DEF Survival, AnswerSurvives, Kept
      <4> QED
        BY <2>1, <4>1, OutFact
    <3>2. CASE x = b
      <4>1. row' = Out("answered", x)
        BY <1>3, <1>5, <1>7, <2>3, <3>2 DEF Outcome
      <4> QED
        BY <4>1 DEF Kept
    <3> QED
      BY <3>1, <3>2
  <2>4. AnswerSurvives'
    BY <2>3 DEF AnswerSurvives, Kept
  <2> QED
    BY <2>1, <2>2, <2>4 DEF Survival
<1>14. Delivered'
  BY <1>2, <1>5, <1>8 DEF Delivered
<1>15. OnlyFirstOutcomeHeard'
  BY <1>2, <1>5 DEF OnlyFirstOutcomeHeard, Worded
<1> QED
  BY <1>8, <1>10, <1>11, <1>12, <1>13, <1>14, <1>15 DEF IInv

LEMMA ReapKeeps ==
  ASSUME IInv, Reap
  PROVE  IInv'
<1> DEFINE op == Op("cancel", "reaper", FALSE)
<1>1. op \in OpType /\ op.do = "cancel" /\ op.by = "reaper"
  BY NamesFact DEF Op, OpType, Parties
<1> HIDE DEF op
<1>2. ~LivePoll(op) /\ Sound(op)'
  BY <1>1, NamesFact DEF LivePoll, Sound
<1>3. ops' = ops \/ Serve(op)
  BY DEF Reap, ReapRow, op
<1> QED
  BY <1>1, <1>2, <1>3, QueuesOnly, TypeParts DEF IInv, Reap, Types, client, users

LEMMA SweepKeeps ==
  ASSUME IInv, Sweep
  PROVE  IInv'
<1> DEFINE op == Op("cancel", "sweep", FALSE)
<1>1. op \in OpType /\ op.do = "cancel" /\ op.by = "sweep"
  BY NamesFact DEF Op, OpType, Parties
<1> HIDE DEF op
<1>2. ~LivePoll(op) /\ Sound(op)'
  BY <1>1, NamesFact DEF LivePoll, Sound
<1>3. (ops' = ops \/ Serve(op)) /\ sweep' \in {"due", "done", "skipped"}
  BY DEF Sweep, op
<1> QED
  BY <1>1, <1>2, <1>3, QueuesOnly, TypeParts DEF IInv, Sweep, Types, client, server, users

LEMMA DropKeeps ==
  ASSUME IInv, Drop
  PROVE  IInv'
<1> DEFINE op == Op("delete", "server", FALSE)
<1>1. op \in OpType /\ op.do = "delete"
  BY NamesFact DEF Op, OpType
<1>2. Serve(op)
  BY DEF Drop
<1> HIDE DEF op
<1>3. ~LivePoll(op) /\ Sound(op)'
  BY <1>1, <1>2 DEF LivePoll, Sound
<1>4. faults' \in 0..MaxFaults
  BY TypeParts, AskAssumption DEF IInv, Drop, Types
<1> QED
  BY <1>1, <1>2, <1>3, <1>4, QueuesOnly, TypeParts DEF IInv, Drop, Types, client, users

LEMMA CrashKeeps ==
  ASSUME IInv, Crash
  PROVE  IInv'
<1>0. TypeOK /\ OneRequest /\ OnePoll /\ Queued /\ Served /\ Recorded /\ Survival
      /\ Delivered /\ OnlyFirstOutcomeHeard
  BY DEF IInv
<1>1. /\ faults < MaxFaults /\ faults' = faults + 1
      /\ hook' = FALSE /\ mem' = FALSE /\ postOpen' = FALSE /\ listeners' = {}
      /\ ops' = <<>> /\ got' = None /\ response' = None
      /\ lost' = lost \cup OffDisk({got, response})
      /\ older' = TRUE /\ sweep' = "due" /\ hangup' \in {FALSE, hangup}
      /\ UNCHANGED <<reposted, row, failed, said, told, overruled, first>>
  BY DEF Crash, users
<1>2. /\ bridge' \in {"asking", "posting", "pause", "polling", "over", "dead"}
      /\ result' = result \/ (result = None /\ result' = Out("fallback", "bridge") /\ ~Alive')
      /\ Alive' => Alive
  BY <1>0, TypeParts DEF Crash, Retry, Types, Alive, OneRequest
<1>3. ~Final(None) /\ ~Final(Out("fallback", "bridge"))
  BY OutFact
<1>4. /\ lost' \subseteq Outcomes /\ lost \subseteq lost'
      /\ \A o \in {got, response} : Final(o) => o = row \/ o \in lost'
  <2>1. lost \subseteq Outcomes /\ \A o \in {got, response} : Final(o) => o \in Outcomes
    BY <1>0, TypeParts, TypeFact DEF Types
  <2> QED
    BY <1>1, <2>1 DEF OffDisk
<1>5. TypeOK'
  <2>1. faults' \in 0..MaxFaults /\ ops' \in Seq(OpType)
    BY <1>0, <1>1, AskAssumption, TypeParts DEF Types
  <2> QED
    BY <1>0, <1>1, <1>2, <1>4, <2>1, TypeParts, TypeFact, TypesNext DEF Types
<1>6. OneRequest' /\ OnePoll' /\ Queued'
  BY <1>0, <1>1, <1>2 DEF OneRequest, OnePoll, Queued
<1>7. Served'
  BY <1>1, <1>3, OutFact DEF Served
<1>8. Recorded'
  BY <1>0, <1>1 DEF Recorded
<1>9. Survival'
  <2>1. \A o : Final(o) /\ Kept(o) => Kept(o)'
    BY <1>1, <1>2, <1>3, <1>4 DEF Kept
  <2> QED
    BY <1>0, <1>1, <2>1, SurvivalKept
<1>10. Delivered'
  BY <1>1, <1>3 DEF Delivered, Worded
<1>11. OnlyFirstOutcomeHeard'
  BY <1>0, <1>1, <1>2, <1>3, <1>4 DEF OnlyFirstOutcomeHeard
<1> QED
  BY <1>5, <1>6, <1>7, <1>8, <1>9, <1>10, <1>11 DEF IInv

-----------------------------------------------------------------------------
(* The invariant *)

LEMMA InitHolds == Init => IInv
<1> SUFFICES ASSUME Init PROVE IInv
  OBVIOUS
<1>1. /\ bridge = "asking" /\ reposted = FALSE /\ result = None /\ hangup = FALSE
      /\ response = None /\ hook = FALSE /\ postOpen = FALSE /\ mem = FALSE /\ listeners = {}
      /\ ops = <<>> /\ got = None /\ row = Absent /\ older = FALSE
      /\ failed = FALSE /\ sweep = "done"
      /\ said = [b \in Browsers |-> "nothing"] /\ told = [b \in Browsers |-> "nothing"]
      /\ first = None /\ lost = {} /\ overruled = FALSE /\ faults = 0
  BY DEF Init
<1>2. TypeOK
  <2>1. faults \in 0..MaxFaults /\ ops \in Seq(OpType)
    BY <1>1, AskAssumption
  <2> QED
    BY <1>1, <2>1, TypeFact, TypesFact DEF Types
<1>3. OneRequest /\ OnePoll /\ Queued
  BY <1>1 DEF OneRequest, OnePoll, Queued
<1>4. ~Final(None) /\ ~Final(Absent) /\ None.is = "none" /\ Absent.is = "absent"
  BY OutFact DEF Absent
<1>5. Served /\ Recorded /\ Survival /\ Delivered /\ OnlyFirstOutcomeHeard
  BY <1>1, <1>4 DEF Served, Recorded, Survival, AnswerSurvives, Delivered, OnlyFirstOutcomeHeard, Worded
<1> QED
  BY <1>2, <1>3, <1>5 DEF IInv

LEMMA StutterKeeps ==
  ASSUME IInv, UNCHANGED vars
  PROVE  IInv'
<1>1. /\ UNCHANGED <<bridge, reposted, result, hangup, response, hook, postOpen, mem, listeners>>
      /\ UNCHANGED <<ops, got, row, older, failed, sweep, said, told, overruled, first, lost, faults>>
  BY DEF vars, client, server, store, users
<1> QED
  BY <1>1, QueuesOnly, TypeParts DEF IInv, Types

LEMMA NextKeeps == IInv /\ [Next]_vars => IInv'
<1> SUFFICES ASSUME IInv, [Next]_vars PROVE IInv'
  OBVIOUS
<1>1. CASE Store \/ StoreFails \/ Resume \/ \E l \in {"live", "ghost"} : WaitEnds(l)
  BY <1>1, StoreKeeps, StoreFailsKeeps, ResumeKeeps, WaitEndsKeeps
<1>2. CASE Post \/ Acknowledge \/ PluginAnswers \/ PluginResolves
  BY <1>2, PostKeeps, AcknowledgeKeeps, PluginAnswersKeeps, PluginResolvesKeeps
<1>3. CASE Poll \/ Receive \/ Break \/ Killed \/ HangUp
  BY <1>3, PollKeeps, ReceiveKeeps, BreakKeeps, KilledKeeps, HangUpKeeps
<1>4. CASE \E b \in Browsers, do \in {"answer", "cancel"} : Say(b, do) \/ SayElsewhere(b, do)
  BY <1>4, SayKeeps, SayElsewhereKeeps
<1>5. CASE Reap \/ Sweep \/ Drop \/ Crash
  BY <1>5, ReapKeeps, SweepKeeps, DropKeeps, CrashKeeps
<1>6. CASE UNCHANGED vars
  BY <1>6, StutterKeeps
<1> QED
  BY <1>1, <1>2, <1>3, <1>4, <1>5, <1>6 DEF Next

\* The inductive invariant holds in every state of every behaviour.
THEOREM AskInvariant == Spec => []IInv
<1> QED
  BY InitHolds, NextKeeps, PTL DEF Spec

\* The variables keep their types: the store is never asked for what it does not
\* know and no reader meets a word it cannot read.
THEOREM TypeCorrect == Spec => []TypeOK
<1>1. IInv => TypeOK
  BY DEF IInv
<1> QED
  BY <1>1, AskInvariant, PTL

\* What the bridge reports is the first outcome recorded, whatever the number of
\* browsers, instances and faults, with the exceptions that OnlyFirstOutcomeHeard
\* names (server.js:2725-2756, 2855-2900; ask-store.js:105-202).
THEOREM FirstOutcomeHeard == Spec => []OnlyFirstOutcomeHeard
<1>1. IInv => OnlyFirstOutcomeHeard
  BY DEF IInv
<1> QED
  BY <1>1, AskInvariant, PTL

\* The very answer that counted stays on disk, in a response or in the hands of the
\* handler that serves the poll, until the bridge has reported it or it is lost
\* after it was taken from disk (ask-store.js:123-259).
THEOREM AnswersSurvive == Spec => []AnswerSurvives
<1>1. IInv => AnswerSurvives
  BY DEF IInv, Survival
<1> QED
  BY <1>1, AskInvariant, PTL
-----------------------------------------------------------------------------
(* The bridge never waits for nothing *)

PollQueued == \E i \in 1..Len(ops) : LivePoll(ops[i])

LEMMA PollQueuedFact == TypeOK => (PollQueued <=> \E i \in DOMAIN ops : LivePoll(ops[i]))
BY TypeParts DEF Types, PollQueued

LEMMA PollQueuedNext == TypeOK' => (PollQueued' <=> (\E i \in DOMAIN ops : LivePoll(ops[i]))')
BY PollQueuedFact, PTL

\* The same in terms of PollQueued.
IsServed ==
  /\ bridge = "posting" => response # None \/ (hook /\ postOpen)
  /\ bridge = "polling" => response # None \/ "live" \in listeners \/ PollQueued

LEMMA ServedNow == TypeOK => (BridgeIsServed <=> IsServed)
BY PollQueuedFact DEF BridgeIsServed, IsServed

LEMMA ServedNext == TypeOK' => (BridgeIsServed' <=> IsServed')
BY ServedNow, PTL

LEMMA StaysQueued ==
  ASSUME ops \in Seq(OpType), PollQueued, ops' = ops \/ \E op \in OpType : Serve(op)
  PROVE  PollQueued'
<1>1. CASE ops' = ops
  BY <1>1 DEF PollQueued
<1>2. ASSUME NEW op \in OpType, Serve(op) PROVE PollQueued'
  BY <1>2, ServeFact DEF PollQueued
<1> QED
  BY <1>1, <1>2

LEMMA StaysInTail ==
  ASSUME ops \in Seq(OpType), PollQueued, ops # <<>>, ops' = Tail(ops), ~LivePoll(Head(ops))
  PROVE  PollQueued'
<1>1. PICK i \in 1..Len(ops) : LivePoll(ops[i])
  BY DEF PollQueued
<1>2. /\ Head(ops) = ops[1] /\ Len(ops) \in Nat \ {0} /\ Len(ops') = Len(ops) - 1
      /\ \A k \in 1..Len(ops') : ops'[k] = ops[k + 1]
  BY TailFact
<1>3. i # 1
  BY <1>1, <1>2
<1>4. i - 1 \in 1..Len(ops') /\ (i - 1) + 1 = i
  BY <1>2, <1>3
<1>5. ops'[i - 1] = ops[i]
  BY <1>2, <1>4
<1> QED
  BY <1>1, <1>4, <1>5 DEF PollQueued

\* A response that was on its way stays, or another takes its place.
LEMMA ResponseServes ==
  ASSUME IsServed, bridge' = bridge, response # None => response' # None,
         bridge = "posting" => response' # None \/ (hook' = hook /\ postOpen' = postOpen),
         bridge = "polling" =>
           \/ response' # None
           \/ /\ "live" \in listeners => "live" \in listeners'
              /\ PollQueued => "live" \in listeners' \/ PollQueued'
  PROVE  IsServed'
BY DEF IsServed

LEMMA StoreServes ==
  ASSUME TypeOK, IsServed, Store \/ StoreFails
  PROVE  IsServed'
<1>1. /\ UNCHANGED <<bridge, response, hook, postOpen, listeners>> /\ ops # <<>>
      /\ ops' = ops \/ (ops' = Tail(ops) /\ Head(ops).do \in {"set", "delete"})
  BY DEF Store, StoreFails, client, server
<1>2. PollQueued => PollQueued'
  <2>1. ops' = Tail(ops) /\ Head(ops).do \in {"set", "delete"} => ~LivePoll(Head(ops))
    BY DEF LivePoll
  <2> QED
    BY <1>1, <2>1, StaysInTail, StaysQueued, TypeParts DEF Types
<1> QED
  BY <1>1, <1>2, ResponseServes

LEMMA ResumeServes ==
  ASSUME IInv, IsServed, Resume
  PROVE  IsServed'
<1> DEFINE op == Head(ops)
           wrote == got.is = "wrote"
<1>1. /\ got # None /\ ops' = Tail(ops) /\ UNCHANGED <<bridge, hook>>
      /\ IF op.do = "consume" THEN ResumePoll(op) ELSE ResumeMark(op, wrote)
  BY DEF Resume, client
<1>2. ops \in Seq(OpType) /\ ops # <<>> /\ op \in OpType
  <2>1. ops \in Seq(OpType) /\ Len(ops) > 0
    BY <1>1, TypeParts DEF IInv, Types, Served
  <2> QED
    BY <2>1
<1> HIDE DEF op
<1>3. PollQueued => LivePoll(op) \/ PollQueued'
  BY <1>1, <1>2, StaysInTail DEF op
<1>4. /\ \A is, by : is # "none" => Out(is, by) # None
      /\ ~Final(None) /\ Outcome(op) # None /\ PostReply(op, wrote) # None
  BY OutFact DEF Outcome, PostReply
<1>5. CASE op.do = "consume" /\ ResumePoll(op)
  <2>1. postOpen' = postOpen /\ listeners \subseteq listeners'
    BY <1>5 DEF ResumePoll
  <2>2. CASE LivePoll(op)
    <3>1. response' # None \/ "live" \in listeners'
      BY <1>4, <1>5, <2>2, OutFact DEF ResumePoll, LivePoll
    <3>2. response # None => response' # None
      BY <1>4, <1>5, <2>2, OutFact DEF ResumePoll, LivePoll
    <3> QED
      BY <1>1, <2>1, <3>1, <3>2, ResponseServes
  <2>3. CASE ~LivePoll(op)
    <3>1. response' = response
      BY <1>5, <2>3 DEF ResumePoll, LivePoll
    <3> QED
      BY <1>1, <1>3, <2>1, <2>3, <3>1, ResponseServes
  <2> QED
    BY <2>2, <2>3
<1>6. CASE op.do # "consume" /\ ResumeMark(op, wrote)
  <2>1. ~LivePoll(op)
    BY <1>6 DEF LivePoll
  <2>2. response # None => response' # None
    BY <1>4, <1>6 DEF ResumeMark
  <2>3. response' # None \/ (postOpen' = postOpen /\ ("live" \in listeners => "live" \in listeners'))
    BY <1>4, <1>6 DEF ResumeMark
  <2> QED
    BY <1>1, <1>3, <2>1, <2>2, <2>3, ResponseServes
<1> QED
  BY <1>1, <1>5, <1>6

LEMMA WaitEndsServes ==
  ASSUME TypeOK, IsServed, NEW l \in {"live", "ghost"}, WaitEnds(l)
  PROVE  IsServed'
<1>1. /\ UNCHANGED <<bridge, hook, postOpen, ops>> /\ listeners' = listeners \ {l}
      /\ response' = IF l = "live" THEN Out("again", "server") ELSE response
  BY DEF WaitEnds, client, store
<1>2. Out("again", "server") # None
  BY OutFact
<1>3. PollQueued' <=> PollQueued
  BY <1>1 DEF PollQueued
<1> QED
  BY <1>1, <1>2, <1>3, ResponseServes

\* An operation is queued for the store, and a POST that was open is answered.
LEMMA PostAnswerServes ==
  ASSUME TypeOK, IsServed, NEW op \in OpType, NEW o, o # None, Serve(op), PostAnswer(o),
         bridge' = bridge, listeners' = listeners
  PROVE  IsServed'
<1>1. postOpen \in BOOLEAN /\ ops \in Seq(OpType)
  BY TypeParts DEF Types
<1>2. PollQueued => PollQueued'
  BY <1>1, StaysQueued
<1>3. response # None => response' # None
  BY DEF PostAnswer
<1>4. bridge = "posting" => response' # None
  BY <1>1 DEF PostAnswer, IsServed
<1> QED
  BY <1>2, <1>3, <1>4, ResponseServes

LEMMA QueuesServes ==
  ASSUME TypeOK, IsServed, ops' = ops \/ \E op \in OpType : Serve(op),
         UNCHANGED <<bridge, response, hook, postOpen, listeners>>
  PROVE  IsServed'
BY StaysQueued, ResponseServes, TypeParts DEF Types

LEMMA StepServes == IInv /\ IInv' /\ BridgeIsServed /\ [Next]_vars => BridgeIsServed'
<1> SUFFICES ASSUME IInv, TypeOK, IsServed, [Next]_vars PROVE IsServed'
  BY ServedNow, ServedNext DEF IInv
<1>1. CASE Store \/ StoreFails \/ Resume \/ \E l \in {"live", "ghost"} : WaitEnds(l)
  BY <1>1, StoreServes, ResumeServes, WaitEndsServes
<1>2. CASE Post
  BY <1>2 DEF Post, IsServed
<1>3. CASE Acknowledge \/ PluginAnswers \/ PluginResolves
  <2>1. Op("set", "server", FALSE) \in OpType /\ Op("delete", "plugin", FALSE) \in OpType
    BY NamesFact DEF Op, OpType
  <2>2. Out("ack", "server") # None /\ Out("answered", "plugin") # None
    BY OutFact
  <2>3. bridge' = bridge /\ listeners' = listeners
    BY <1>3 DEF Acknowledge, PluginAnswers, PluginResolves, client
  <2> QED
    BY <1>3, <2>1, <2>2, <2>3, PostAnswerServes DEF Acknowledge, PluginAnswers, PluginResolves
<1>4. CASE Poll
  <2> DEFINE op == Op("consume", "bridge", TRUE)
  <2>1. op \in OpType /\ LivePoll(op)
    BY NamesFact DEF Op, OpType, LivePoll, Parties
  <2>2. Serve(op) /\ bridge' = "polling"
    BY <1>4 DEF Poll
  <2> HIDE DEF op
  <2>3. ops \in Seq(OpType)
    BY TypeParts DEF Types
  <2>4. Len(ops) + 1 \in 1..Len(ops') /\ ops'[Len(ops) + 1] = op
    BY <2>1, <2>2, <2>3, ServeFact
  <2>5. PollQueued'
    BY <2>1, <2>4 DEF PollQueued
  <2> QED
    BY <2>2, <2>5 DEF IsServed
<1>5. CASE Receive
  BY <1>5 DEF Receive, IsServed
<1>6. CASE Break \/ Killed \/ Crash
  <2>1. bridge' \notin {"posting", "polling"}
    BY <1>6 DEF Break, Killed, Crash, Retry, Alive
  <2> QED
    BY <2>1 DEF IsServed
<1>7. CASE HangUp \/ Reap \/ Sweep \/ Drop
  <2>1. /\ Op("cancel", "bridge", FALSE) \in OpType /\ Op("cancel", "reaper", FALSE) \in OpType
        /\ Op("cancel", "sweep", FALSE) \in OpType /\ Op("delete", "server", FALSE) \in OpType
    BY NamesFact DEF Op, OpType, Parties
  <2> QED
    BY <1>7, <2>1, QueuesServes DEF HangUp, Reap, ReapRow, Sweep, Drop, client, server
<1>8. ASSUME NEW b \in Browsers, NEW do \in {"answer", "cancel"},
             Say(b, do) \/ SayElsewhere(b, do)
      PROVE  IsServed'
  <2>1. mem \in BOOLEAN
    BY TypeParts DEF Types
  <2>2. Op(do, b, mem) \in OpType
    BY <2>1, NamesFact DEF Op, OpType
  <2> QED
    BY <1>8, <2>2, QueuesServes DEF Say, SayElsewhere, client, server
<1>9. CASE UNCHANGED vars
  BY <1>9, QueuesServes DEF vars, client, server, store
<1> QED
  BY <1>1, <1>2, <1>3, <1>4, <1>5, <1>6, <1>7, <1>8, <1>9 DEF Next

\* A bridge that waits for a POST or a poll has somebody to answer it, for any
\* browsers, instances and faults (ask-perm.js:104-293, server.js:249-279).
THEOREM BridgeServed == Spec => []BridgeIsServed
<1>1. Init => BridgeIsServed
  BY DEF Init, BridgeIsServed
<1> QED
  BY <1>1, AskInvariant, StepServes, PTL DEF Spec
=============================================================================
