-------------------------- MODULE ChatQueue_proofs --------------------------
(***************************************************************************)
(* Machine-checked properties of the chat queue, for every value of the    *)
(* constants: any number of messages, any cap, any anchors, any number of  *)
(* clears and server restarts.                                             *)
(***************************************************************************)
EXTENDS ChatQueue, FifoLemmas

\* An increasing enumeration lists a set of positions completely, in order.
LEMMA EnumerationLemma ==
  ASSUME NEW n \in Nat, NEW I \in SUBSET (1..n), NEW f \in Enumerations(I)
  PROVE  /\ Cardinality(I) \in Nat
         /\ f \in [1..Cardinality(I) -> I]
         /\ \A a, b \in 1..Cardinality(I) : a < b => f[a] < f[b]
         /\ \A i \in I : \E a \in 1..Cardinality(I) : f[a] = i
<1>1. IsFiniteSet(1..n)
  BY FS_Interval
<1>2. IsFiniteSet(I)
  BY <1>1, FS_Subset
<1>3. QED
  BY <1>2, FS_CardinalityType DEF Enumerations

-----------------------------------------------------------------------------
(* What the helpers of the actions do, position by position *)

\* _restoreDispatch: every message keeps its place relative to the others.
LEMMA ReinsertedLemma ==
  ASSUME NEW q \in Seq(Ids), NEW d \in Dispatches
  PROVE  /\ RestorePoint(q, d) \in 0..Len(q)
         /\ Reinserted(q, d) \in Seq(Ids)
         /\ Len(Reinserted(q, d)) = Len(q) + 1
         /\ \A j \in 1..(Len(q) + 1) :
              Reinserted(q, d)[j] = IF j < RestorePoint(q, d) + 1 THEN q[j]
                                    ELSE IF j = RestorePoint(q, d) + 1 THEN d.item
                                    ELSE q[j - 1]
<1>1. RestorePoint(q, d) \in 0..Len(q)
  BY DEF RestorePoint, Dispatches
<1>2. PICK i \in 1..(Len(q) + 1) : i = RestorePoint(q, d) + 1
  BY <1>1
<1>3. Reinserted(q, d) = InsertAt(q, i, d.item)
  BY <1>2 DEF Reinserted
<1>3a. d.item \in Ids
  BY DEF Dispatches
<1>4. /\ InsertAt(q, i, d.item) \in Seq(Ids)
      /\ Len(InsertAt(q, i, d.item)) = Len(q) + 1
      /\ \A j \in 1..(Len(q) + 1) :
           InsertAt(q, i, d.item)[j] =
             IF j < i THEN q[j] ELSE IF j = i THEN d.item ELSE q[j - 1]
  BY <1>3a, InsertAtLemma
<1>5. QED
  BY <1>1, <1>2, <1>3, <1>4

\* _injectHead: n heads are rejected, then the next one is being written, or
\* nothing is.
HeadWritten(q, fl, n) ==
  /\ n < Len(q)
  /\ Len(items') = Len(q) - n - 1
  /\ \A j \in 1..(Len(q) - n - 1) : items'[j] = q[n + 1 + j]
  /\ dispatch' = [item |-> q[n + 1], index |-> 0]
  /\ injecting' = TRUE
  /\ inflight' = fl \cup {Write(q[n + 1], "inject")}

HeadKept(q, fl, n) ==
  /\ Len(items') = Len(q) - n
  /\ \A j \in 1..(Len(q) - n) : items'[j] = q[n + j]
  /\ dispatch' = NoDispatch
  /\ injecting' = FALSE
  /\ inflight' = fl

LEMMA InjectHeadEffect ==
  ASSUME NEW q \in Seq(Ids), NEW fl, NEW ft, InjectHead(q, fl, ft)
  PROVE  /\ items' \in Seq(Ids)
         /\ \E n \in 0..Len(q) :
              /\ fate' = [m \in Ids |-> IF \E i \in 1..n : q[i] = m
                                          THEN "rejected" ELSE ft[m]]
              /\ HeadWritten(q, fl, n) \/ HeadKept(q, fl, n)
<1>1. PICK n \in 0..Len(q) :
        LET rest == SubSeq(q, n + 1, Len(q))
        IN  /\ fate' = [m \in Ids |-> IF \E i \in 1..n : q[i] = m THEN "rejected" ELSE ft[m]]
            /\ \/ /\ rest # <<>>
                  /\ items' = Tail(rest)
                  /\ dispatch' = [item |-> Head(rest), index |-> 0]
                  /\ injecting' = TRUE
                  /\ inflight' = fl \cup {Write(Head(rest), "inject")}
               \/ /\ items' = rest
                  /\ dispatch' = NoDispatch
                  /\ injecting' = FALSE
                  /\ inflight' = fl
  BY DEF InjectHead
<1> DEFINE rest == SubSeq(q, n + 1, Len(q))
<1>2. /\ rest \in Seq(Ids) /\ Len(rest) = Len(q) - n
      /\ \A j \in 1..(Len(q) - n) : rest[j] = q[n + j]
  BY DropHeadsLemma
<1> HIDE DEF rest
<1>3. CASE /\ rest # <<>>
           /\ items' = Tail(rest)
           /\ dispatch' = [item |-> Head(rest), index |-> 0]
           /\ injecting' = TRUE
           /\ inflight' = fl \cup {Write(Head(rest), "inject")}
  <2>1. /\ Tail(rest) \in Seq(Ids) /\ Len(Tail(rest)) = Len(rest) - 1
        /\ \A j \in 1..(Len(rest) - 1) : Tail(rest)[j] = rest[j + 1]
    BY <1>2, <1>3, HeadTailProperties
  <2>2. Len(rest) > 0 /\ Head(rest) = rest[1]
    BY <1>2, <1>3
  <2>3. n < Len(q) /\ rest[1] = q[n + 1]
    BY <1>2, <2>2
  <2>4. ASSUME NEW j \in 1..(Len(q) - n - 1)
        PROVE  items'[j] = q[n + 1 + j]
    <3>1. j \in 1..(Len(rest) - 1) /\ j + 1 \in 1..(Len(q) - n)
      BY <1>2
    <3>2. rest[j + 1] = q[n + (j + 1)]
      BY <1>2, <3>1
    <3>3. QED
      BY <1>3, <2>1, <3>1, <3>2
  <2>5. HeadWritten(q, fl, n)
    BY <1>2, <1>3, <2>1, <2>2, <2>3, <2>4 DEF HeadWritten
  <2>6. QED
    BY <1>1, <1>3, <2>1, <2>5
<1>4. CASE /\ items' = rest
           /\ dispatch' = NoDispatch
           /\ injecting' = FALSE
           /\ inflight' = fl
  <2>1. HeadKept(q, fl, n)
    BY <1>2, <1>4 DEF HeadKept
  <2>2. QED
    BY <1>1, <1>2, <1>4, <2>1
<1>5. QED
  BY <1>1, <1>3, <1>4 DEF rest

-----------------------------------------------------------------------------
(* Type correctness *)

LEMMA WriteType ==
  ASSUME TypeOK
  PROVE  /\ \A m \in Ids, tag \in {"inject", "send"} : Write(m, tag) \in Writes
         /\ \A c \in Calls : Write(c, "resume") \in Writes
BY DEF TypeOK, Write, Writes

LEMMA ElementType ==
  ASSUME NEW q \in Seq(Ids), NEW k \in DOMAIN q
  PROVE  q[k] \in Ids /\ k \in 1..Len(q)
BY ElementOfSeq

\* The part of the types that a dispatch, a restore or a drop touches.
ContentTypes ==
  /\ items \in Seq(Ids) /\ dispatch \in Slots
  /\ fate \in [Ids -> Fates]
WriterTypes == injecting \in BOOLEAN /\ inflight \subseteq Writes

LEMMA FailDispatchType ==
  ASSUME NEW q \in Seq(Ids), NEW d \in Dispatches, fate \in [Ids -> Fates],
         FailDispatch(q, d)
  PROVE  ContentTypes'
<1>1. NoDispatch \in Slots
  BY DEF Slots
<1>2. CASE Restore(q, d)
  BY <1>1, <1>2, ReinsertedLemma DEF Restore, ContentTypes
<1>3. CASE Reject(q, d)
  BY <1>1, <1>3 DEF Reject, ContentTypes, Fates
<1>4. QED
  BY <1>2, <1>3 DEF FailDispatch

LEMMA WriteDispatchType ==
  ASSUME TypeOK, NEW q \in Seq(Ids), NEW d \in Dispatches, WriteDispatch(q, d)
  PROVE  ContentTypes' /\ WriterTypes'
<1>1. d.item \in Ids /\ d \in Slots
  BY DEF Dispatches, Slots
<1>2. Write(d.item, "send") \in Writes
  BY <1>1, WriteType
<1>3. CASE FailDispatch(q, d) /\ injecting' = FALSE /\ UNCHANGED inflight
  BY <1>3, FailDispatchType DEF TypeOK, WriterTypes
<1>4. CASE /\ injecting' = TRUE
           /\ inflight' = inflight \cup {Write(d.item, "send")}
           /\ items' = q /\ dispatch' = d
           /\ UNCHANGED fate
  BY <1>1, <1>2, <1>4 DEF TypeOK, WriterTypes, ContentTypes
<1>5. QED
  BY <1>3, <1>4 DEF WriteDispatch

LEMMA InjectHeadType ==
  ASSUME TypeOK, NEW q \in Seq(Ids), NEW fl \in SUBSET Writes, NEW ft \in [Ids -> Fates],
         InjectHead(q, fl, ft)
  PROVE  ContentTypes' /\ WriterTypes'
<1>1. PICK n \in 0..Len(q) :
        /\ items' \in Seq(Ids)
        /\ fate' = [m \in Ids |-> IF \E i \in 1..n : q[i] = m THEN "rejected" ELSE ft[m]]
        /\ HeadWritten(q, fl, n) \/ HeadKept(q, fl, n)
  BY InjectHeadEffect
<1>2. fate' \in [Ids -> Fates]
  BY <1>1 DEF Fates
<1>3. CASE HeadWritten(q, fl, n)
  <2>1. n + 1 \in DOMAIN q
    BY <1>3 DEF HeadWritten
  <2>2. q[n + 1] \in Ids
    BY <2>1, ElementType
  <2>3. Write(q[n + 1], "inject") \in Writes
    BY <2>2, WriteType
  <2>4. [item |-> q[n + 1], index |-> 0] \in Slots
    BY <2>2 DEF Slots, Dispatches
  <2>5. QED
    BY <1>1, <1>2, <1>3, <2>3, <2>4 DEF HeadWritten, ContentTypes, WriterTypes
<1>4. CASE HeadKept(q, fl, n)
  BY <1>1, <1>2, <1>4 DEF HeadKept, ContentTypes, WriterTypes, Slots
<1>5. QED
  BY <1>1, <1>3, <1>4

LEMMA StartPollType ==
  ASSUME TypeOK
  PROVE  /\ StartPoll("drain", NoItem) => pollTimer' \in Polls
         /\ \A m \in Ids : StartPoll("send", m) => pollTimer' \in Polls
         /\ \A c \in Calls : StartPoll("resume", c) => pollTimer' \in Polls
BY DEF TypeOK, StartPoll, Polls

LEMMA WriteResumeType ==
  ASSUME TypeOK, NEW c \in Calls, WriteResume(c)
  PROVE  ContentTypes' /\ WriterTypes' /\ resume' \in [Calls -> Replies]
<1>1. Write(c, "resume") \in Writes
  BY WriteType
<1>2. QED
  BY <1>1 DEF TypeOK, WriteResume, ContentTypes, WriterTypes, Replies

LEMMA RemoveQueuedType ==
  ASSUME TypeOK, NEW q \in Seq(Ids), NEW k \in DOMAIN q
  PROVE  /\ RemoveAt(q, k) \in Seq(Ids)
         /\ [item |-> q[k], index |-> k - 1] \in Dispatches
         /\ Shifted(k) \in Slots
<1>1. k \in 1..Len(q) /\ q[k] \in Ids
  BY ElementType
<1>2. PICK i \in Nat : i = k - 1
  BY <1>1
<1>3. RemoveAt(q, k) \in Seq(Ids)
  BY <1>1, RemoveAtLemma
<1>4. [item |-> q[k], index |-> k - 1] \in Dispatches
  BY <1>1, <1>2 DEF Dispatches
<1>5. Shifted(k) \in Slots
  <2>1. CASE dispatch = NoDispatch
    BY <1>2, <2>1 DEF NoDispatch, Shifted, Slots
  <2>2. CASE dispatch \in Dispatches
    <3>1. dispatch.index \in Nat /\ dispatch.item \in Ids
      BY <2>2 DEF Dispatches
    <3>2. i < dispatch.index => dispatch.index - 1 \in Nat
      BY <3>1
    <3>3. QED
      BY <1>2, <2>2, <3>2 DEF Shifted, Slots, Dispatches
  <2>3. QED
    BY <2>1, <2>2 DEF TypeOK, Slots
<1>6. QED
  BY <1>3, <1>4, <1>5

\* A scoped clear keeps some of the messages, and removes no more messages ahead
\* of the dispatched one than there are.
LEMMA ClearScopeType ==
  ASSUME TypeOK, NEW filter \in Scopes, ClearScope(filter)
  PROVE  ContentTypes'
<1> DEFINE hit(m) == MatchesScope(anchor[m].scope, filter)
           kept == {k \in DOMAIN items : ~hit(items[k])}
           ahead == {k \in DOMAIN items \ kept : k - 1 < dispatch.index}
<1>1. PICK f \in Enumerations(kept) : items' = [k \in DOMAIN f |-> items[f[k]]]
  BY DEF ClearScope
<1>2. items' \in Seq(Ids)
  <2>1. items \in Seq(Ids) /\ Len(items) \in Nat /\ kept \in SUBSET (1..Len(items))
    BY DEF TypeOK
  <2>2. PICK n \in Nat : n = Cardinality(kept) /\ f \in [1..n -> kept]
    BY <1>1, <2>1, EnumerationLemma
  <2>3. \A k \in 1..n : items[f[k]] \in Ids
    BY <2>1, <2>2, ElementOfSeq
  <2>4. items' = [k \in 1..n |-> items[f[k]]]
    BY <1>1, <2>2
  <2>5. [k \in 1..n |-> items[f[k]]] \in Seq(Ids)
    BY <2>3, IsASeq
  <2>6. QED
    BY <2>4, <2>5
<1>3. fate' \in [Ids -> Fates]
  BY DEF ClearScope, TypeOK, Fates
<1>4. dispatch' \in Slots
  <2>1. CASE dispatch' = NoDispatch
    BY <2>1 DEF Slots
  <2>2. CASE dispatch' = [dispatch EXCEPT !.index = @ - Cardinality(ahead)]
    <3>1. dispatch.index \in Nat
      BY DEF TypeOK, Slots, Dispatches, NoDispatch
    <3>2. PICK x \in Nat : x = dispatch.index
      BY <3>1
    <3>3. ahead \subseteq 1..x
      <4>1. \A k \in DOMAIN items : k \in Nat /\ k >= 1
        BY DEF TypeOK
      <4>2. QED
        BY <3>2, <4>1
    <3>4. IsFiniteSet(1..x) /\ Cardinality(1..x) = x
      BY FS_Interval, Z3
    <3> HIDE DEF ahead
    <3>a. IsFiniteSet(ahead) /\ Cardinality(ahead) <= Cardinality(1..x)
      BY <3>3, <3>4, FS_Subset
    <3>5. PICK c \in Nat : c = Cardinality(ahead) /\ c <= x
      BY <3>4, <3>a, FS_CardinalityType
    <3>6. x - c \in Nat
      BY <3>5
    <3>7. CASE dispatch = NoDispatch
      <4>1. x = 0 /\ c = 0
        BY <3>2, <3>5, <3>7 DEF NoDispatch
      <4>2. QED
        BY <2>2, <3>5, <3>7, <4>1 DEF NoDispatch, Slots
    <3>8. CASE dispatch \in Dispatches
      BY <2>2, <3>2, <3>5, <3>6, <3>8 DEF Slots, Dispatches
    <3>9. QED
      BY <3>7, <3>8 DEF TypeOK, Slots
  <2>3. QED
    BY <2>1, <2>2 DEF ClearScope
<1>5. QED
  BY <1>2, <1>3, <1>4 DEF ContentTypes

LEMMA InitType == Init => TypeOK
<1> SUFFICES ASSUME Init PROVE TypeOK
  OBVIOUS
<1>1. <<>> \in Seq(Ids) /\ 0 \in 0..MaxMessages
  BY BoundsAssumption
<1>2. QED
  BY <1>1 DEF Init, TypeOK, Fates, Slots, Replies

\* Every action keeps the types.
LEMMA TypeStep == TypeOK /\ [Next]_vars => TypeOK'
<1> SUFFICES ASSUME TypeOK, [Next]_vars PROVE TypeOK'
  OBVIOUS
<1> USE DEF TypeOK
<1>0. NoDispatch \in Slots /\ Dispatches \subseteq Slots
  BY DEF Slots
<1>0a. ASSUME NEW g, StillMine(pollTimer.id, g), pollTimer.kind = "send"
       PROVE  dispatch \in Dispatches
  BY <1>0a DEF StillMine, Polls, NoPoll, Slots, NoDispatch, NoItem, Ids
<1>1. ASSUME NEW a \in Anchors, NEW p \in Probes, Enqueue(a, p) PROVE TypeOK'
  <2>1. accepted + 1 \in Ids /\ accepted + 1 \in 0..MaxMessages
    BY <1>1, BoundsAssumption DEF Enqueue, Ids
  <2>2. items' \in Seq(Ids)
    BY <1>1, <2>1, AppendProperties DEF Enqueue
  <2>3. QED
    BY <1>1, <2>1, <2>2 DEF Enqueue, Fates, Probes
<1>2. ASSUME NEW p \in Probes, RescueFires(p) PROVE TypeOK'
  <2>1. CASE InjectHead(items, inflight, fate) /\ UNCHANGED pollTimer
    BY <1>2, <2>1, InjectHeadType DEF RescueFires, ContentTypes, WriterTypes
  <2>2. CASE StartPoll("drain", NoItem) /\ UNCHANGED <<items, dispatch, injecting, inflight, fate>>
    BY <1>2, <2>2, StartPollType DEF RescueFires
  <2>3. CASE UNCHANGED <<items, dispatch, injecting, pollTimer, inflight, fate>>
    BY <1>2, <2>3 DEF RescueFires
  <2>4. QED
    BY <1>2, <2>1, <2>2, <2>3 DEF RescueFires
<1>3. ASSUME NEW p \in Probes, PollTicks(p) PROVE TypeOK'
  <2>1. pollTimer' \in Polls
    BY <1>3 DEF PollTicks, Polls
  <2>2. QED
    BY <1>3, <2>1 DEF PollTicks
<1>4. ASSUME NEW p \in Probes, PollFires(p) PROVE TypeOK'
  <2>1. CASE InjectHead(items, inflight, fate) /\ UNCHANGED resume
    BY <1>4, <2>1, InjectHeadType DEF PollFires, ContentTypes, WriterTypes
  <2>2. CASE /\ pollTimer.kind = "send" /\ StillMine(pollTimer.id, pollTimer.gen)
             /\ WriteDispatch(items, dispatch) /\ UNCHANGED resume
    <3>1. dispatch \in Dispatches
      BY <1>0a, <2>2
    <3>2. QED
      BY <1>4, <2>2, <3>1, WriteDispatchType DEF PollFires, ContentTypes, WriterTypes
  <2>3. CASE UNCHANGED <<items, dispatch, injecting, inflight, fate, resume>>
    BY <1>4, <2>3 DEF PollFires
  <2>4. CASE pollTimer.kind = "resume" /\ WriteResume(pollTimer.id)
    <3>1. pollTimer.id \in Calls
      BY <2>4 DEF Polls, NoPoll
    <3>2. QED
      BY <1>4, <2>4, <3>1, WriteResumeType DEF PollFires, ContentTypes, WriterTypes
  <2>5. QED
    BY <1>4, <2>1, <2>2, <2>3, <2>4 DEF PollFires
<1>5. ASSUME NEW p \in Probes, OnTurnEnd(p) PROVE TypeOK'
  <2>1. CASE InjectHead(items, inflight, fate) /\ UNCHANGED pollTimer
    BY <1>5, <2>1, InjectHeadType DEF OnTurnEnd, ContentTypes, WriterTypes
  <2>2. CASE StartPoll("drain", NoItem) /\ UNCHANGED <<items, dispatch, injecting, inflight, fate>>
    BY <1>5, <2>2, StartPollType DEF OnTurnEnd
  <2>3. CASE UNCHANGED <<items, dispatch, injecting, pollTimer, inflight, fate>>
    BY <1>5, <2>3 DEF OnTurnEnd
  <2>4. QED
    BY <1>5, <2>1, <2>2, <2>3 DEF OnTurnEnd
<1>6. ASSUME NEW k \in DOMAIN items, NEW filter \in Scopes, RemoveQueued(k, filter)
      PROVE  TypeOK'
  BY <1>6, RemoveQueuedType DEF RemoveQueued, timers, Fates
<1>7. ASSUME ClearAll PROVE TypeOK'
  <2>1. items' \in Seq(Ids) /\ dispatch' \in Slots
    BY <1>0, <1>7 DEF ClearAll
  <2>2. fate' \in [Ids -> Fates]
    BY <1>7 DEF ClearAll, Fates
  <2>3. gen' \in Nat /\ stops' \in Nat
    BY <1>7 DEF ClearAll
  <2>4. /\ injecting' \in BOOLEAN /\ rescueTimer' \in BOOLEAN /\ suppressDrain' \in BOOLEAN
        /\ pollTimer' = NoPoll /\ escTimer' = NoEsc
        /\ UNCHANGED <<inflight, accepted, anchor, resume>>
    BY <1>7 DEF ClearAll
  <2>5. QED
    BY <2>1, <2>2, <2>3, <2>4
<1>8. ASSUME NEW filter \in Scopes, ClearScope(filter) PROVE TypeOK'
  <2>1. ContentTypes'
    BY <1>8, ClearScopeType
  <2>2. gen' \in Nat /\ pollTimer' \in Polls \cup {NoPoll} /\ escTimer' \in Escs \cup {NoEsc}
        /\ rescueTimer' \in BOOLEAN
    BY <1>8 DEF ClearScope
  <2>3. QED
    BY <1>8, <2>1, <2>2 DEF ClearScope, ContentTypes
<1>9. ASSUME NEW k \in DOMAIN items, NEW filter \in Scopes, NEW p \in Probes,
             SendNow(k, filter, p)
      PROVE  TypeOK'
  <2> DEFINE q == RemoveAt(items, k)
             d == [item |-> items[k], index |-> k - 1]
  <2>1. q \in Seq(Ids) /\ d \in Dispatches /\ items[k] \in Ids
    BY RemoveQueuedType, ElementType
  <2>2. /\ rescueTimer' = FALSE
        /\ UNCHANGED <<suppressDrain, gen, stops, accepted, anchor, resume>>
    BY <1>9 DEF SendNow
  <2>3. CASE /\ escTimer' = [item |-> items[k], gen |-> gen]
             /\ items' = q /\ dispatch' = d
             /\ UNCHANGED <<injecting, pollTimer, inflight, fate>>
    BY <1>0, <2>1, <2>2, <2>3 DEF Escs
  <2>4. CASE FailDispatch(q, d) /\ UNCHANGED <<injecting, pollTimer, escTimer, inflight>>
    BY <2>1, <2>2, <2>4, FailDispatchType DEF ContentTypes
  <2>5. CASE WriteDispatch(q, d) /\ UNCHANGED <<pollTimer, escTimer>>
    BY <2>1, <2>2, <2>5, WriteDispatchType DEF ContentTypes, WriterTypes
  <2>6. CASE /\ StartPoll("send", items[k])
             /\ items' = q /\ dispatch' = d
             /\ UNCHANGED <<injecting, escTimer, inflight, fate>>
    <3>1. pollTimer' \in Polls
      BY <2>1, <2>6, StartPollType
    <3>2. QED
      BY <1>0, <2>1, <2>2, <2>6, <3>1
  <2>7. QED
    BY <1>9, <2>3, <2>4, <2>5, <2>6 DEF SendNow
<1>10. ASSUME EscFires PROVE TypeOK'
  <2>1. CASE UNCHANGED <<items, dispatch, pollTimer, fate>>
    BY <1>10, <2>1 DEF EscFires
  <2>2. CASE StartPoll("send", escTimer.item) /\ UNCHANGED <<items, dispatch, fate>>
    <3>1. escTimer.item \in Ids
      BY <1>10 DEF EscFires, Escs
    <3>2. pollTimer' \in Polls
      BY <2>2, <3>1, StartPollType
    <3>3. QED
      BY <1>10, <2>2, <3>2 DEF EscFires
  <2>3. CASE /\ StillMine(escTimer.item, escTimer.gen)
             /\ FailDispatch(items, dispatch) /\ UNCHANGED pollTimer
    <3>1. dispatch \in Dispatches
      BY <1>10, <2>3 DEF EscFires, StillMine, Escs, Slots, NoDispatch, NoItem, Ids
    <3>2. QED
      BY <1>10, <2>3, <3>1, FailDispatchType DEF EscFires, ContentTypes
  <2>4. QED
    BY <1>10, <2>1, <2>2, <2>3 DEF EscFires
<1>11. ASSUME PollTimesOut PROVE TypeOK'
  <2>1. resume' \in [Calls -> Replies] /\ pollTimer' \in Polls \cup {NoPoll}
    BY <1>11 DEF PollTimesOut, Replies
  <2>2. CASE UNCHANGED <<items, dispatch, fate>>
    BY <1>11, <2>1, <2>2 DEF PollTimesOut
  <2>3. CASE /\ pollTimer.kind = "send" /\ StillMine(pollTimer.id, pollTimer.gen)
             /\ Restore(items, dispatch)
    <3>1. dispatch \in Dispatches
      BY <1>0a, <2>3
    <3>2. items' \in Seq(Ids) /\ dispatch' \in Slots /\ fate' \in [Ids -> Fates]
      BY <1>0, <2>3, <3>1, ReinsertedLemma DEF Restore
    <3>3. QED
      BY <1>11, <2>1, <3>2 DEF PollTimesOut
  <2>4. QED
    BY <1>11, <2>2, <2>3 DEF PollTimesOut
<1>12. ASSUME NEW w \in inflight, NEW ok \in BOOLEAN, ResumeCompletes(w, ok)
       PROVE  TypeOK'
  BY <1>12 DEF ResumeCompletes, timers, Replies
<1>13. ASSUME NEW w \in inflight, NEW ok \in BOOLEAN, NEW p \in Probes,
              WriteCompletes(w, ok, p)
       PROVE  TypeOK'
  <2>1. /\ inflight \ {w} \in SUBSET Writes
        /\ UNCHANGED <<rescueTimer, pollTimer, escTimer, suppressDrain, gen, stops,
                       accepted, anchor, resume>>
    BY <1>13 DEF WriteCompletes, timers
  <2>2. w.id \in Ids
    BY <1>13 DEF WriteCompletes, Writes
  <2>3. ASSUME StillMine(w.id, w.gen) PROVE dispatch \in Dispatches
    BY <2>2, <2>3 DEF StillMine, Slots, NoDispatch, NoItem, Ids
  <2>4. CASE /\ injecting' = FALSE /\ inflight' = inflight \ {w}
             /\ fate' = [fate EXCEPT ![w.id] = "sent"]
             /\ dispatch' = IF StillMine(w.id, w.gen) THEN NoDispatch ELSE dispatch
             /\ UNCHANGED items
    BY <1>0, <2>1, <2>4 DEF Fates
  <2>5. CASE /\ injecting' = FALSE /\ inflight' = inflight \ {w}
             /\ UNCHANGED <<items, dispatch, fate>>
    BY <2>1, <2>5
  <2>6. CASE /\ injecting' = FALSE /\ inflight' = inflight \ {w}
             /\ StillMine(w.id, w.gen)
             /\ Restore(items, dispatch)
    <3>1. items' \in Seq(Ids) /\ dispatch' \in Slots /\ fate' \in [Ids -> Fates]
      BY <1>0, <2>3, <2>6, ReinsertedLemma DEF Restore
    <3>2. QED
      BY <2>1, <2>6, <3>1
  <2>7. CASE /\ injecting' = FALSE /\ inflight' = inflight \ {w}
             /\ Reject(items, dispatch)
    BY <1>0, <2>1, <2>7 DEF Reject, Fates
  <2>8. CASE InjectHead(items, inflight \ {w}, [fate EXCEPT ![w.id] = "rejected"])
    <3>1. [fate EXCEPT ![w.id] = "rejected"] \in [Ids -> Fates]
      BY DEF Fates
    <3>2. ContentTypes' /\ WriterTypes'
      BY <2>1, <2>8, <3>1, InjectHeadType
    <3>3. QED
      BY <2>1, <3>2 DEF ContentTypes, WriterTypes
  <2>9. QED
    BY <1>13, <2>4, <2>5, <2>6, <2>7, <2>8 DEF WriteCompletes
<1>14. ASSUME SuppressNextDrain PROVE TypeOK'
  BY <1>14 DEF SuppressNextDrain
<1>15. ASSUME OnStreamingActivated PROVE TypeOK'
  BY <1>15 DEF OnStreamingActivated, timers
<1>16. ASSUME Stop PROVE TypeOK'
  <2>1. items' \in Seq(Ids) /\ dispatch' \in Slots
    BY <1>0, <1>16 DEF Stop
  <2>2. fate' \in [Ids -> Fates]
    BY <1>16 DEF Stop, Fates
  <2>3. gen' \in Nat /\ stops' \in Nat
    BY <1>16 DEF Stop
  <2>4. /\ injecting' \in BOOLEAN /\ rescueTimer' \in BOOLEAN /\ suppressDrain' \in BOOLEAN
        /\ pollTimer' = NoPoll /\ escTimer' = NoEsc
        /\ UNCHANGED <<inflight, accepted, anchor, resume>>
    BY <1>16 DEF Stop
  <2>5. QED
    BY <2>1, <2>2, <2>3, <2>4
<1>17. ASSUME NEW c \in Calls, NEW p \in Probes, InjectResumeCommand(c, p) PROVE TypeOK'
  <2>1. /\ UNCHANGED <<rescueTimer, escTimer, suppressDrain, gen, stops, accepted, anchor>>
    BY <1>17 DEF InjectResumeCommand
  <2>2. CASE /\ resume' = [resume EXCEPT ![c] = "busy"]
             /\ UNCHANGED <<items, dispatch, injecting, pollTimer, inflight, fate>>
    BY <2>1, <2>2 DEF Replies
  <2>3. CASE WriteResume(c) /\ UNCHANGED pollTimer
    BY <2>1, <2>3, WriteResumeType DEF ContentTypes, WriterTypes
  <2>4. CASE /\ StartPoll("resume", c)
             /\ resume' = [resume EXCEPT ![c] = "pending"]
             /\ UNCHANGED <<items, dispatch, injecting, inflight, fate>>
    <3>1. pollTimer' \in Polls
      BY <2>4, StartPollType
    <3>2. QED
      BY <2>1, <2>4, <3>1 DEF Replies
  <2>5. QED
    BY <1>17, <2>2, <2>3, <2>4 DEF InjectResumeCommand
<1>18. ASSUME UNCHANGED vars PROVE TypeOK'
  BY <1>18 DEF vars, timers
<1>19. QED
  BY <1>1, <1>2, <1>3, <1>4, <1>5, <1>6, <1>7, <1>8, <1>9, <1>10, <1>11, <1>12,
     <1>13, <1>14, <1>15, <1>16, <1>17, <1>18 DEF Next

\* The variables always have the types the code gives them.
THEOREM TypeCorrect == Spec => []TypeOK
BY InitType, TypeStep, PTL DEF Spec
=============================================================================
