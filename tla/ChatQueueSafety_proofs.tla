----------------------- MODULE ChatQueueSafety_proofs -----------------------
(***************************************************************************)
(* The inductive invariant of the chat queue: every message is in one      *)
(* place, a dispatch has one owner, and a completion callback can tell     *)
(* whether the dispatch it was created for is still the current one.  On   *)
(* top of it: what clients see of the queue is a FIFO (MessageFifo), and a *)
(* dispatch only moves on towards its end.                                 *)
(***************************************************************************)
EXTENDS ChatQueue_proofs

HeldIds == {m \in Ids : fate[m] = "held"}

\* Ids are arrival numbers: exactly the accepted ones have a fate.
Numbered == \A m \in Ids : fate[m] = "new" <=> m > accepted

IInv ==
  /\ TypeOK
  /\ Numbered
  /\ EachMessageInOnePlace
  /\ DispatchHasOneOwner
  /\ CompletionsMatchDispatch

\* Only held messages change fate, and they do not become held again.
Moved ==
  \A m \in Ids : \/ fate'[m] = fate[m]
                 \/ fate[m] = "held" /\ fate'[m] \notin {"new", "held"}

-----------------------------------------------------------------------------
(* Facts about one state *)

LEMMA SlotLemma ==
  ASSUME TypeOK
  PROVE  /\ 0 \notin Ids
         /\ dispatch # NoDispatch => dispatch \in Dispatches /\ dispatch.item \in Ids
         /\ dispatch = NoDispatch => dispatch.item = NoItem
         /\ \A w \in inflight : w.tag # "resume" => w.id \in Ids
         /\ dispatch.item \in Ids => dispatch \in Dispatches
BY DEF TypeOK, Slots, Dispatches, NoDispatch, NoItem, Ids, Writes

\* EachMessageInOnePlace, case by case.
InPlace ==
  /\ NoDup(items)
  /\ dispatch.item \notin ToSet(items)
  /\ dispatch = NoDispatch => ToSet(items) = HeldIds
  /\ dispatch # NoDispatch => ToSet(items) \cup {dispatch.item} = HeldIds

LEMMA PlaceLemma == TypeOK => (EachMessageInOnePlace <=> InPlace)
<1> SUFFICES ASSUME TypeOK PROVE EachMessageInOnePlace <=> InPlace
  OBVIOUS
<1>1. ToSet(items) \in SUBSET Ids
  BY ToSetLemma DEF TypeOK
<1>2. dispatch = NoDispatch => {dispatch.item} \ {NoItem} = {}
  BY SlotLemma
<1>3. dispatch # NoDispatch => {dispatch.item} \ {NoItem} = {dispatch.item}
  BY SlotLemma DEF NoItem
<1>4. NoItem \notin ToSet(items)
  BY <1>1, SlotLemma DEF NoItem
<1>5. QED
  BY <1>2, <1>3, <1>4, SlotLemma DEF EachMessageInOnePlace, InPlace, HeldIds, Held, Queued, NoDup

LEMMA PlaceNext == TypeOK' => (EachMessageInOnePlace' <=> InPlace')
BY PlaceLemma, PTL

LEMMA NoWriteWithoutDispatch ==
  ASSUME TypeOK, CompletionsMatchDispatch, dispatch = NoDispatch
  PROVE  \A w \in inflight : w.tag # "resume" => w.gen # gen
BY SlotLemma DEF CompletionsMatchDispatch, NoItem

LEMMA NoOwnerWithoutDispatch == TypeOK /\ dispatch = NoDispatch => ~WriteOwns
BY SlotLemma DEF WriteOwns, StillMine, NoItem

LEMMA NoOwnerNext == TypeOK' /\ (dispatch = NoDispatch)' => ~WriteOwns'
BY NoOwnerWithoutDispatch, PTL

-----------------------------------------------------------------------------
(* What the helpers of the actions do to the places, and to the writes *)

LEMMA RestorePlace ==
  ASSUME TypeOK, TypeOK', NEW q \in Seq(Ids), NEW d \in Dispatches,
         NoDup(q), d.item \notin ToSet(q),
         ToSet(q) \cup {d.item} = HeldIds, Restore(q, d)
  PROVE  EachMessageInOnePlace' /\ dispatch' = NoDispatch /\ Moved
<1>1. d.item \in Ids
  BY DEF Dispatches
<1>2. RestorePoint(q, d) \in 0..Len(q)
  BY ReinsertedLemma
<1>3. PICK i \in 1..(Len(q) + 1) : i = RestorePoint(q, d) + 1
  BY <1>2
<1>4. NoDup(InsertAt(q, i, d.item)) /\ ToSet(InsertAt(q, i, d.item)) = ToSet(q) \cup {d.item}
  BY <1>1, InsertSet
<1>5. NoDup(items') /\ ToSet(items') = HeldIds' /\ dispatch' = NoDispatch
  BY <1>3, <1>4 DEF Restore, Reinserted, HeldIds
<1>6. dispatch'.item \notin ToSet(items')
  BY <1>5, SlotLemma DEF NoDispatch, NoItem, HeldIds
<1>7. EachMessageInOnePlace'
  BY <1>5, <1>6, PlaceNext DEF InPlace
<1>8. QED
  BY <1>5, <1>7 DEF Restore, Moved

LEMMA FailDispatchPlace ==
  ASSUME TypeOK, TypeOK', NEW q \in Seq(Ids), NEW d \in Dispatches,
         NoDup(q), d.item \notin ToSet(q),
         ToSet(q) \cup {d.item} = HeldIds, FailDispatch(q, d)
  PROVE  EachMessageInOnePlace' /\ dispatch' = NoDispatch /\ Moved
<1>1. d.item \in Ids
  BY DEF Dispatches
<1>2. CASE Restore(q, d)
  BY <1>2, RestorePlace
<1>3. CASE Reject(q, d)
  <2>1. ToSet(q) = HeldIds'
    BY <1>1, <1>3 DEF Reject, HeldIds, TypeOK
  <2>2. NoDup(items') /\ ToSet(items') = HeldIds' /\ dispatch' = NoDispatch
    BY <1>3, <2>1 DEF Reject
  <2>3. dispatch'.item \notin ToSet(items')
    BY <2>2, SlotLemma DEF NoDispatch, NoItem, HeldIds
  <2>4. EachMessageInOnePlace'
    BY <2>2, <2>3, PlaceNext DEF InPlace
  <2>5. Moved
    BY <1>1, <1>3 DEF Reject, Moved, TypeOK, HeldIds
  <2>6. QED
    BY <2>2, <2>4, <2>5
<1>4. QED
  BY <1>2, <1>3 DEF FailDispatch

LEMMA InjectHeadPlace ==
  ASSUME TypeOK, TypeOK', NEW q \in Seq(Ids), NEW fl \in SUBSET Writes,
         NEW ft \in [Ids -> Fates], NoDup(q), ToSet(q) = {m \in Ids : ft[m] = "held"},
         InjectHead(q, fl, ft)
  PROVE  /\ EachMessageInOnePlace'
         /\ \A m \in Ids : fate'[m] = ft[m] \/ (ft[m] = "held" /\ fate'[m] = "rejected")
         /\ \/ dispatch' = NoDispatch /\ inflight' = fl
            \/ \E m \in Ids : /\ dispatch' = [item |-> m, index |-> 0]
                              /\ fate'[m] = "held"
                              /\ inflight' = fl \cup {Write(m, "inject")}
<1>1. PICK n \in 0..Len(q) :
        /\ fate' = [m \in Ids |-> IF \E i \in 1..n : q[i] = m THEN "rejected" ELSE ft[m]]
        /\ HeadWritten(q, fl, n) \/ HeadKept(q, fl, n)
  BY InjectHeadEffect
<1>2. items' \in Seq(Ids)
  BY DEF TypeOK
<1>3. \A m \in Ids : fate'[m] = ft[m] \/ (ft[m] = "held" /\ fate'[m] = "rejected")
  <2>1. \A i \in 1..n : q[i] \in ToSet(q)
    BY ToSetLemma
  <2>2. QED
    BY <1>1, <2>1
<1>4. HeldIds' = ToSet(q) \ {q[j] : j \in 1..n}
  BY <1>1 DEF HeldIds
<1>5. CASE HeadWritten(q, fl, n)
  <2>1. n + 1 \in 1..Len(q) /\ n + 1 \in 0..Len(q)
    BY <1>5 DEF HeadWritten
  <2>2. /\ Len(items') = Len(q) - (n + 1)
        /\ \A j \in 1..(Len(q) - (n + 1)) : items'[j] = q[(n + 1) + j]
    BY <1>5 DEF HeadWritten
  <2>3. NoDup(items') /\ ToSet(items') = ToSet(q) \ {q[j] : j \in 1..(n + 1)}
    BY <1>2, <2>1, <2>2, DropSet
  <2>4. q[n + 1] \in ToSet(q) /\ q[n + 1] \in Ids
    BY <2>1, ToSetLemma
  <2>5. q[n + 1] \notin {q[j] : j \in 1..n}
    BY <2>1 DEF NoDup
  <2>6. {q[j] : j \in 1..(n + 1)} = {q[j] : j \in 1..n} \cup {q[n + 1]}
    OBVIOUS
  <2>7. dispatch' = [item |-> q[n + 1], index |-> 0] /\ dispatch'.item = q[n + 1]
    BY <1>5 DEF HeadWritten
  <2>8. dispatch' # NoDispatch
    BY <2>4, <2>7, SlotLemma DEF NoDispatch, NoItem
  <2>9. /\ dispatch'.item \notin ToSet(items')
        /\ ToSet(items') \cup {dispatch'.item} = HeldIds'
    BY <1>4, <2>3, <2>4, <2>5, <2>6, <2>7
  <2>10. EachMessageInOnePlace'
    BY <2>3, <2>8, <2>9, PlaceNext DEF InPlace
  <2>11. fate'[q[n + 1]] = "held"
    BY <2>7, <2>9 DEF HeldIds
  <2>12. QED
    BY <1>3, <1>5, <2>4, <2>7, <2>10, <2>11 DEF HeadWritten
<1>6. CASE HeadKept(q, fl, n)
  <2>1. NoDup(items') /\ ToSet(items') = HeldIds' /\ dispatch' = NoDispatch
    BY <1>2, <1>4, <1>6, DropSet DEF HeadKept
  <2>2. dispatch'.item \notin ToSet(items')
    BY <2>1, SlotLemma DEF NoDispatch, NoItem, HeldIds
  <2>3. EachMessageInOnePlace'
    BY <2>1, <2>2, PlaceNext DEF InPlace
  <2>4. QED
    BY <1>3, <1>6, <2>1, <2>3 DEF HeadKept
<1>7. QED
  BY <1>1, <1>5, <1>6

LEMMA NumberedStep ==
  ASSUME Numbered, Moved, accepted' = accepted
  PROVE  Numbered'
BY DEF Numbered, Moved

\* No write starts, and the generation stays.
LEMMA CompletionsKept ==
  ASSUME TypeOK, CompletionsMatchDispatch, Moved, gen' = gen, inflight' \subseteq inflight,
         \A w \in inflight' : w.tag # "resume" /\ w.gen = gen => dispatch'.item = w.id
  PROVE  CompletionsMatchDispatch'
BY SlotLemma DEF CompletionsMatchDispatch, Moved

\* One write starts, of the message that is now dispatched.
LEMMA CompletionsStarted ==
  ASSUME TypeOK, TypeOK', CompletionsMatchDispatch, Moved, gen' = gen,
         NEW m \in Ids, NEW tag \in {"inject", "send"}, NEW fl \in SUBSET inflight,
         \A w \in fl : w.tag # "resume" => w.gen # gen,
         inflight' = fl \cup {Write(m, tag)}, dispatch'.item = m, fate'[m] = "held"
  PROVE  CompletionsMatchDispatch' /\ WriteOwns'
<1>1. Write(m, tag) = [id |-> m, gen |-> gen, run |-> stops, tag |-> tag]
  BY DEF Write
<1>2. fate[m] # "cleared"
  BY DEF Moved
<1>3. \A w \in fl : w.tag # "resume" =>
        w.id \in Ids /\ w.id # m /\ w.gen <= gen /\ fate'[w.id] = "cleared"
  BY <1>2, SlotLemma DEF CompletionsMatchDispatch, Moved
<1>4. gen \in Nat
  BY DEF TypeOK
<1>5. CompletionsMatchDispatch'
  BY <1>1, <1>3, <1>4 DEF CompletionsMatchDispatch
<1>6. WriteOwns'
  BY <1>1 DEF WriteOwns, StillMine
<1>7. QED
  BY <1>5, <1>6

-----------------------------------------------------------------------------
(* What the branches shared by several actions do to the invariant *)

SafetyParts ==
  Numbered /\ EachMessageInOnePlace /\ DispatchHasOneOwner /\ CompletionsMatchDispatch

\* A branch that leaves the slot empty.
LEMMA OwnerNone ==
  ASSUME TypeOK', dispatch' = NoDispatch, escTimer' = NoEsc, pollTimer'.kind # "send"
  PROVE  DispatchHasOneOwner'
BY NoOwnerNext DEF DispatchHasOneOwner

\* A branch that leaves the slot to a new write.
LEMMA OwnerWrite ==
  ASSUME TypeOK', dispatch' # NoDispatch, escTimer' = NoEsc, pollTimer' = NoPoll, WriteOwns'
  PROVE  DispatchHasOneOwner'
BY DEF DispatchHasOneOwner

\* An automatic drain: no write of the current generation is left in fl, and the
\* queued messages are all that is held.
LEMMA DrainSafe ==
  ASSUME IInv, TypeOK', NEW fl \in SUBSET inflight, NEW ft \in [Ids -> Fates],
         NoDup(items), ToSet(items) = {m \in Ids : ft[m] = "held"},
         \A m \in Ids : ft[m] = fate[m] \/ (fate[m] = "held" /\ ft[m] = "rejected"),
         InjectHead(items, fl, ft),
         \A w \in fl : w.tag # "resume" => w.gen # gen,
         escTimer' = NoEsc, pollTimer' = NoPoll, gen' = gen, accepted' = accepted
  PROVE  SafetyParts'
<1>1. fl \in SUBSET Writes /\ items \in Seq(Ids)
  BY DEF IInv, TypeOK
<1>2. /\ EachMessageInOnePlace'
      /\ \A m \in Ids : fate'[m] = ft[m] \/ (ft[m] = "held" /\ fate'[m] = "rejected")
      /\ \/ dispatch' = NoDispatch /\ inflight' = fl
         \/ \E m \in Ids : /\ dispatch' = [item |-> m, index |-> 0]
                           /\ fate'[m] = "held"
                           /\ inflight' = fl \cup {Write(m, "inject")}
  BY <1>1, InjectHeadPlace DEF IInv
<1>3. Moved
  BY <1>2 DEF Moved
<1>4. Numbered'
  BY <1>3, NumberedStep DEF IInv
<1>5. pollTimer'.kind # "send"
  BY DEF NoPoll
<1>6. CASE dispatch' = NoDispatch /\ inflight' = fl
  <2>1. CompletionsMatchDispatch'
    BY <1>3, <1>6, CompletionsKept DEF IInv
  <2>2. DispatchHasOneOwner'
    BY <1>5, <1>6, OwnerNone
  <2>3. QED
    BY <1>2, <1>4, <2>1, <2>2 DEF SafetyParts
<1>7. ASSUME NEW m \in Ids, dispatch' = [item |-> m, index |-> 0], fate'[m] = "held",
             inflight' = fl \cup {Write(m, "inject")}
      PROVE  SafetyParts'
  <2>1. dispatch'.item = m /\ dispatch' # NoDispatch
    BY <1>7, SlotLemma DEF NoDispatch, NoItem, IInv
  <2>2. CompletionsMatchDispatch' /\ WriteOwns'
    BY <1>3, <1>7, <2>1, CompletionsStarted DEF IInv
  <2>3. DispatchHasOneOwner'
    BY <2>1, <2>2, OwnerWrite
  <2>4. QED
    BY <1>2, <1>4, <2>2, <2>3 DEF SafetyParts
<1>8. QED
  BY <1>2, <1>6, <1>7

\* An automatic drain with nothing else under way.
LEMMA InjectedSafe ==
  ASSUME IInv, TypeOK', dispatch = NoDispatch, InjectHead(items, inflight, fate),
         escTimer' = escTimer, pollTimer' = NoPoll, gen' = gen, accepted' = accepted
  PROVE  SafetyParts'
<1>1. NoDup(items) /\ ToSet(items) = {m \in Ids : fate[m] = "held"}
  BY PlaceLemma DEF IInv, InPlace, HeldIds
<1>2. \A w \in inflight : w.tag # "resume" => w.gen # gen
  BY NoWriteWithoutDispatch DEF IInv
<1>3. escTimer' = NoEsc /\ fate \in [Ids -> Fates]
  BY DEF IInv, TypeOK, DispatchHasOneOwner
<1>4. QED
  BY <1>1, <1>2, <1>3, DrainSafe

\* A dispatch d taken from queue q fails: restored or dropped.
LEMMA FailedSafe ==
  ASSUME IInv, TypeOK', NEW q \in Seq(Ids), NEW d \in Dispatches, NoDup(q),
         d.item \notin ToSet(q), ToSet(q) \cup {d.item} = HeldIds, FailDispatch(q, d),
         inflight' \subseteq inflight,
         \A w \in inflight' : w.tag # "resume" => w.gen # gen,
         escTimer' = NoEsc, pollTimer'.kind # "send", gen' = gen, accepted' = accepted
  PROVE  SafetyParts'
<1>1. EachMessageInOnePlace' /\ dispatch' = NoDispatch /\ Moved
  BY FailDispatchPlace DEF IInv
<1>2. Numbered'
  BY <1>1, NumberedStep DEF IInv
<1>3. CompletionsMatchDispatch'
  BY <1>1, CompletionsKept DEF IInv
<1>4. DispatchHasOneOwner'
  BY <1>1, OwnerNone
<1>5. QED
  BY <1>1, <1>2, <1>3, <1>4 DEF SafetyParts

\* The dispatch d taken from queue q is written, or its write is refused.
LEMMA WrittenSafe ==
  ASSUME IInv, TypeOK', NEW q \in Seq(Ids), NEW d \in Dispatches, NoDup(q),
         d.item \notin ToSet(q), ToSet(q) \cup {d.item} = HeldIds, WriteDispatch(q, d),
         \A w \in inflight : w.tag # "resume" => w.gen # gen,
         escTimer' = NoEsc, pollTimer' = NoPoll, gen' = gen, accepted' = accepted
  PROVE  SafetyParts'
<1>1. CASE FailDispatch(q, d) /\ inflight' = inflight
  BY <1>1, FailedSafe DEF NoPoll
<1>2. CASE /\ inflight' = inflight \cup {Write(d.item, "send")}
           /\ items' = q /\ dispatch' = d /\ fate' = fate
  <2>1. d.item \in Ids /\ d # NoDispatch
    BY SlotLemma DEF Dispatches, NoDispatch, NoItem, IInv
  <2>2. Moved /\ HeldIds' = HeldIds
    BY <1>2 DEF Moved, HeldIds
  <2>3. EachMessageInOnePlace'
    BY <1>2, <2>1, <2>2, PlaceNext DEF InPlace
  <2>4. fate'[d.item] = "held" /\ dispatch'.item = d.item
    BY <1>2, <2>1 DEF HeldIds
  <2>5. CompletionsMatchDispatch' /\ WriteOwns'
    BY <1>2, <2>1, <2>2, <2>4, CompletionsStarted DEF IInv
  <2>6. DispatchHasOneOwner'
    BY <1>2, <2>1, <2>5, OwnerWrite
  <2>7. Numbered'
    BY <2>2, NumberedStep DEF IInv
  <2>8. QED
    BY <2>3, <2>5, <2>6, <2>7 DEF SafetyParts
<1>3. QED
  BY <1>1, <1>2 DEF WriteDispatch

\* The messages, the slot and the writes of messages stay as they are.
LEMMA ContentSame ==
  ASSUME IInv, TypeOK', UNCHANGED <<items, dispatch, fate, gen, accepted>>,
         \A w : w.tag # "resume" => (w \in inflight' <=> w \in inflight)
  PROVE  /\ Numbered' /\ EachMessageInOnePlace' /\ CompletionsMatchDispatch'
         /\ WriteOwns' <=> WriteOwns
<1>1. Numbered' /\ EachMessageInOnePlace'
  BY DEF IInv, Numbered, EachMessageInOnePlace, Queued, Held
<1>2. CompletionsMatchDispatch'
  BY DEF IInv, CompletionsMatchDispatch
<1>3. WriteOwns' <=> WriteOwns
  BY DEF WriteOwns, StillMine
<1>4. QED
  BY <1>1, <1>2, <1>3

\* The same, with the timers that own a dispatch as they are too.
LEMMA OwnersSame ==
  ASSUME IInv, TypeOK', UNCHANGED <<items, dispatch, fate, gen, accepted, pollTimer, escTimer>>,
         \A w : w.tag # "resume" => (w \in inflight' <=> w \in inflight)
  PROVE  SafetyParts'
<1>1. /\ Numbered' /\ EachMessageInOnePlace' /\ CompletionsMatchDispatch'
      /\ WriteOwns' <=> WriteOwns
  BY ContentSame
<1>2. DispatchHasOneOwner'
  BY <1>1 DEF IInv, DispatchHasOneOwner, EscOwns, PollOwns, StillMine
<1>3. QED
  BY <1>1, <1>2 DEF SafetyParts

\* The same, while the slot is empty, for any change to the poll but a send-now's.
LEMMA EmptySlotSame ==
  ASSUME IInv, TypeOK', UNCHANGED <<items, dispatch, fate, gen, accepted, escTimer>>,
         \A w : w.tag # "resume" => (w \in inflight' <=> w \in inflight),
         dispatch = NoDispatch, pollTimer'.kind # "send"
  PROVE  SafetyParts'
<1>1. /\ Numbered' /\ EachMessageInOnePlace' /\ CompletionsMatchDispatch'
  BY ContentSame
<1>2. escTimer' = NoEsc
  BY DEF IInv, DispatchHasOneOwner
<1>3. DispatchHasOneOwner'
  BY <1>2, OwnerNone
<1>4. QED
  BY <1>1, <1>3 DEF SafetyParts

-----------------------------------------------------------------------------
(* The actions *)

LEMMA EnqueueSafe ==
  ASSUME IInv, TypeOK', NEW a \in Anchors, NEW p \in Probes, Enqueue(a, p)
  PROVE  SafetyParts'
<1> DEFINE m == accepted + 1
<1>1. m \in Ids
  BY BoundsAssumption DEF Enqueue, Ids, IInv, TypeOK
<1>2. fate[m] = "new" /\ m \notin HeldIds
  BY <1>1 DEF IInv, Numbered, HeldIds, TypeOK
<1>3. /\ items' = Append(items, m) /\ accepted' = m
      /\ fate' = [fate EXCEPT ![m] = "held"]
      /\ UNCHANGED <<dispatch, gen, inflight, pollTimer, escTimer>>
  BY DEF Enqueue
<1> HIDE DEF m
<1>4. InPlace /\ items \in Seq(Ids) /\ fate \in [Ids -> Fates]
  BY PlaceLemma DEF IInv, TypeOK
<1>5. m \notin ToSet(items) /\ (dispatch # NoDispatch => m # dispatch.item)
  BY <1>2, <1>4 DEF InPlace
<1>6. NoDup(items') /\ ToSet(items') = ToSet(items) \cup {m}
  BY <1>1, <1>3, <1>4, <1>5, AppendSet DEF InPlace
<1>7. HeldIds' = HeldIds \cup {m}
  BY <1>1, <1>3, <1>4 DEF HeldIds
<1>8. dispatch.item # m
  BY <1>1, <1>5, SlotLemma DEF NoItem, IInv
<1>9. EachMessageInOnePlace'
  BY <1>3, <1>4, <1>6, <1>7, <1>8, PlaceNext DEF InPlace
<1>10. Numbered'
  <2>1. accepted \in Nat /\ m = accepted + 1 /\ Ids \subseteq Nat
    BY BoundsAssumption DEF m, IInv, TypeOK, Ids
  <2>2. ASSUME NEW x \in Ids PROVE fate'[x] = "new" <=> x > accepted'
    BY <1>1, <1>3, <1>4, <2>1 DEF IInv, Numbered
  <2>3. QED
    BY <2>2 DEF Numbered
<1>11. CompletionsMatchDispatch'
  BY <1>1, <1>2, <1>3, <1>4, SlotLemma DEF IInv, CompletionsMatchDispatch
<1>12. DispatchHasOneOwner'
  BY <1>3 DEF IInv, DispatchHasOneOwner, EscOwns, PollOwns, WriteOwns, StillMine
<1>13. QED
  BY <1>9, <1>10, <1>11, <1>12 DEF SafetyParts

LEMMA RescueFiresSafe ==
  ASSUME IInv, TypeOK', NEW p \in Probes, RescueFires(p)
  PROVE  SafetyParts'
<1>1. UNCHANGED <<escTimer, gen, accepted>>
  BY DEF RescueFires
<1>2. CASE /\ MayDrain /\ pollTimer = NoPoll
           /\ InjectHead(items, inflight, fate) /\ UNCHANGED pollTimer
  BY <1>1, <1>2, InjectedSafe DEF MayDrain
<1>3. CASE /\ MayDrain /\ StartPoll("drain", NoItem)
           /\ UNCHANGED <<items, dispatch, injecting, inflight, fate>>
  BY <1>1, <1>3, EmptySlotSame DEF MayDrain, StartPoll
<1>4. CASE UNCHANGED <<items, dispatch, injecting, pollTimer, inflight, fate>>
  BY <1>1, <1>4, OwnersSame
<1>5. QED
  BY <1>2, <1>3, <1>4 DEF RescueFires

LEMMA OnTurnEndSafe ==
  ASSUME IInv, TypeOK', NEW p \in Probes, OnTurnEnd(p)
  PROVE  SafetyParts'
<1>1. UNCHANGED <<escTimer, gen, accepted>> /\ dispatch = NoDispatch /\ pollTimer = NoPoll
  BY DEF OnTurnEnd, SlotsFree
<1>2. CASE InjectHead(items, inflight, fate) /\ UNCHANGED pollTimer
  BY <1>1, <1>2, InjectedSafe
<1>3. CASE /\ StartPoll("drain", NoItem)
           /\ UNCHANGED <<items, dispatch, injecting, inflight, fate>>
  BY <1>1, <1>3, EmptySlotSame DEF StartPoll
<1>4. CASE UNCHANGED <<items, dispatch, injecting, pollTimer, inflight, fate>>
  BY <1>1, <1>4, OwnersSame
<1>5. QED
  BY <1>2, <1>3, <1>4 DEF OnTurnEnd

LEMMA PollTicksSafe ==
  ASSUME IInv, TypeOK', NEW p \in Probes, PollTicks(p)
  PROVE  SafetyParts'
<1>1. /\ UNCHANGED <<items, dispatch, fate, gen, accepted, escTimer, inflight>>
      /\ pollTimer \in Polls /\ pollTimer # NoPoll
      /\ pollTimer' = [pollTimer EXCEPT !.ticks = @ + 1]
  BY DEF PollTicks, IInv, TypeOK
<1>2. /\ pollTimer'.kind = pollTimer.kind /\ pollTimer'.id = pollTimer.id
      /\ pollTimer'.gen = pollTimer.gen
  BY <1>1 DEF Polls
<1>3. /\ Numbered' /\ EachMessageInOnePlace' /\ CompletionsMatchDispatch'
      /\ WriteOwns' <=> WriteOwns
  BY <1>1, ContentSame
<1>4. DispatchHasOneOwner'
  BY <1>1, <1>2, <1>3 DEF IInv, DispatchHasOneOwner, EscOwns, PollOwns, StillMine
<1>5. QED
  BY <1>3, <1>4 DEF SafetyParts

LEMMA QuietSafe ==
  ASSUME IInv, TypeOK', SuppressNextDrain \/ OnStreamingActivated
  PROVE  SafetyParts'
BY OwnersSame DEF SuppressNextDrain, OnStreamingActivated, timers

LEMMA ResumeCompletesSafe ==
  ASSUME IInv, TypeOK', NEW w \in inflight, NEW ok \in BOOLEAN, ResumeCompletes(w, ok)
  PROVE  SafetyParts'
<1>1. UNCHANGED <<items, dispatch, fate, gen, accepted, pollTimer, escTimer>>
  BY DEF ResumeCompletes, timers
<1>2. \A x : x.tag # "resume" => (x \in inflight' <=> x \in inflight)
  BY DEF ResumeCompletes
<1>3. QED
  BY <1>1, <1>2, OwnersSame

LEMMA WriteResumeKeepsWrites ==
  ASSUME NEW c, WriteResume(c)
  PROVE  \A x : x.tag # "resume" => (x \in inflight' <=> x \in inflight)
BY DEF WriteResume, Write

LEMMA InjectResumeCommandSafe ==
  ASSUME IInv, TypeOK', NEW c \in Calls, NEW p \in Probes, InjectResumeCommand(c, p)
  PROVE  SafetyParts'
<1>1. UNCHANGED <<escTimer, gen, accepted>>
  BY DEF InjectResumeCommand
<1>2. CASE UNCHANGED <<items, dispatch, injecting, pollTimer, inflight, fate>>
  BY <1>1, <1>2, OwnersSame
<1>3. CASE WriteResume(c) /\ UNCHANGED pollTimer
  <2>1. UNCHANGED <<items, dispatch, fate>>
    BY <1>3 DEF WriteResume
  <2>2. QED
    BY <1>1, <1>3, <2>1, WriteResumeKeepsWrites, OwnersSame
<1>4. CASE /\ SlotsFree /\ StartPoll("resume", c)
           /\ UNCHANGED <<items, dispatch, injecting, inflight, fate>>
  BY <1>1, <1>4, EmptySlotSame DEF SlotsFree, StartPoll
<1>5. QED
  BY <1>2, <1>3, <1>4 DEF InjectResumeCommand

\* A poll knows what it is for: the poll of a send-now is the only owner of the
\* current dispatch, and while any other poll runs there is no dispatch.
LEMMA PollOwner ==
  ASSUME IInv, pollTimer # NoPoll
  PROVE  /\ pollTimer.kind # "send" => dispatch = NoDispatch
         /\ pollTimer.kind = "send" =>
              /\ dispatch \in Dispatches /\ StillMine(pollTimer.id, pollTimer.gen)
              /\ escTimer = NoEsc
              /\ \A w \in inflight : w.tag # "resume" => w.gen # gen
<1>1. pollTimer.kind # "send" => dispatch = NoDispatch
  BY DEF IInv, DispatchHasOneOwner, PollOwns
<1>2. pollTimer.kind = "send" =>
        dispatch # NoDispatch /\ PollOwns /\ escTimer = NoEsc /\ ~WriteOwns
  BY DEF IInv, DispatchHasOneOwner
<1>3. ~WriteOwns => \A w \in inflight : w.tag # "resume" => w.gen # gen
  BY DEF IInv, CompletionsMatchDispatch, WriteOwns, StillMine
<1>4. dispatch # NoDispatch => dispatch \in Dispatches
  BY SlotLemma DEF IInv
<1>5. QED
  BY <1>1, <1>2, <1>3, <1>4 DEF PollOwns

\* While a dispatch is out, the queue and the dispatched message are what is held.
LEMMA DispatchPlace ==
  ASSUME IInv, dispatch \in Dispatches
  PROVE  /\ items \in Seq(Ids) /\ NoDup(items) /\ dispatch.item \notin ToSet(items)
         /\ ToSet(items) \cup {dispatch.item} = HeldIds
         /\ dispatch # NoDispatch
<1>1. dispatch # NoDispatch
  BY SlotLemma DEF IInv, Dispatches, NoDispatch, NoItem
<1>2. QED
  BY <1>1, PlaceLemma DEF IInv, InPlace, TypeOK

LEMMA PollFiresSafe ==
  ASSUME IInv, TypeOK', NEW p \in Probes, PollFires(p)
  PROVE  SafetyParts'
<1>1. UNCHANGED <<escTimer, gen, accepted>> /\ pollTimer # NoPoll /\ pollTimer' = NoPoll
  BY DEF PollFires
<1>2. pollTimer'.kind # "send"
  BY <1>1 DEF NoPoll
<1>3. CASE MayDrain /\ InjectHead(items, inflight, fate)
  BY <1>1, <1>3, InjectedSafe DEF MayDrain
<1>4. CASE pollTimer.kind = "send" /\ WriteDispatch(items, dispatch)
  <2>1. /\ dispatch \in Dispatches /\ escTimer' = NoEsc
        /\ \A w \in inflight : w.tag # "resume" => w.gen # gen
    BY <1>1, <1>4, PollOwner
  <2>2. QED
    BY <1>1, <1>4, <2>1, DispatchPlace, WrittenSafe
<1>5. CASE /\ pollTimer.kind = "send" => ~StillMine(pollTimer.id, pollTimer.gen)
           /\ UNCHANGED <<items, dispatch, injecting, inflight, fate, resume>>
  BY <1>1, <1>2, <1>5, PollOwner, EmptySlotSame
<1>6. CASE pollTimer.kind = "resume" /\ WriteResume(pollTimer.id)
  <2>1. UNCHANGED <<items, dispatch, fate>>
    BY <1>6 DEF WriteResume
  <2>2. \A x : x.tag # "resume" => (x \in inflight' <=> x \in inflight)
    BY <1>6, WriteResumeKeepsWrites
  <2>3. QED
    BY <1>1, <1>2, <1>6, <2>1, <2>2, PollOwner, EmptySlotSame
<1>7. QED
  BY <1>3, <1>4, <1>5, <1>6 DEF PollFires

LEMMA PollTimesOutSafe ==
  ASSUME IInv, TypeOK', PollTimesOut
  PROVE  SafetyParts'
<1>1. /\ UNCHANGED <<escTimer, gen, accepted, inflight>>
      /\ pollTimer # NoPoll /\ pollTimer' = NoPoll
  BY DEF PollTimesOut
<1>2. pollTimer'.kind # "send"
  BY <1>1 DEF NoPoll
<1>3. CASE pollTimer.kind = "send"
  <2>1. /\ dispatch \in Dispatches /\ escTimer' = NoEsc
        /\ StillMine(pollTimer.id, pollTimer.gen)
        /\ \A w \in inflight : w.tag # "resume" => w.gen # gen
    BY <1>1, <1>3, PollOwner
  <2>2. Restore(items, dispatch)
    BY <1>3, <2>1 DEF PollTimesOut
  <2>3. dispatch.item \in Ids
    BY <2>1 DEF Dispatches
  <2>4. EachMessageInOnePlace' /\ dispatch' = NoDispatch /\ Moved
    BY <2>1, <2>2, <2>3, DispatchPlace, RestorePlace DEF IInv
  <2>5. CompletionsMatchDispatch' /\ Numbered'
    BY <1>1, <2>1, <2>4, CompletionsKept, NumberedStep DEF IInv
  <2>6. DispatchHasOneOwner'
    BY <1>2, <2>1, <2>4, OwnerNone
  <2>7. QED
    BY <2>4, <2>5, <2>6 DEF SafetyParts
<1>4. CASE pollTimer.kind # "send"
  <2>1. UNCHANGED <<items, dispatch, fate>>
    BY <1>4 DEF PollTimesOut
  <2>2. QED
    BY <1>1, <1>2, <1>4, <2>1, PollOwner, EmptySlotSame
<1>5. QED
  BY <1>3, <1>4

LEMMA EscFiresSafe ==
  ASSUME IInv, TypeOK', EscFires
  PROVE  SafetyParts'
<1>1. /\ UNCHANGED <<gen, accepted, inflight>>
      /\ escTimer # NoEsc /\ escTimer' = NoEsc
  BY DEF EscFires
<1>2. dispatch # NoDispatch /\ EscOwns /\ pollTimer = NoPoll /\ ~WriteOwns
  BY <1>1 DEF IInv, DispatchHasOneOwner
<1>3. StillMine(escTimer.item, escTimer.gen) /\ escTimer.item = dispatch.item
  BY <1>2 DEF EscOwns, StillMine
<1>4. dispatch \in Dispatches
  BY <1>2, SlotLemma DEF IInv
<1>5. CASE StartPoll("send", escTimer.item) /\ UNCHANGED <<items, dispatch, fate>>
  <2>1. /\ Numbered' /\ EachMessageInOnePlace' /\ CompletionsMatchDispatch'
        /\ WriteOwns' <=> WriteOwns
    BY <1>1, <1>5, ContentSame
  <2>2. PollOwns'
    BY <1>1, <1>3, <1>5 DEF PollOwns, StillMine, StartPoll
  <2>3. DispatchHasOneOwner'
    BY <1>1, <1>2, <1>5, <2>1, <2>2 DEF DispatchHasOneOwner
  <2>4. QED
    BY <2>1, <2>3 DEF SafetyParts
<1>6. CASE FailDispatch(items, dispatch) /\ UNCHANGED pollTimer
  <2>1. \A w \in inflight : w.tag # "resume" => w.gen # gen
    BY <1>2 DEF IInv, CompletionsMatchDispatch, WriteOwns, StillMine
  <2>2. pollTimer'.kind # "send"
    BY <1>2, <1>6 DEF NoPoll
  <2>3. QED
    BY <1>1, <1>4, <1>6, <2>1, <2>2, DispatchPlace, FailedSafe
<1>7. QED
  BY <1>3, <1>5, <1>6 DEF EscFires

LEMMA RemoveQueuedSafe ==
  ASSUME IInv, TypeOK', NEW k \in DOMAIN items, NEW filter \in Scopes,
         RemoveQueued(k, filter)
  PROVE  SafetyParts'
<1> DEFINE m == items[k]
<1>1. /\ items' = RemoveAt(items, k) /\ dispatch' = Shifted(k)
      /\ fate' = [fate EXCEPT ![m] = "removed"]
      /\ UNCHANGED <<gen, accepted, inflight, pollTimer, escTimer>>
  BY DEF RemoveQueued, timers
<1>2. items \in Seq(Ids) /\ fate \in [Ids -> Fates] /\ InPlace
  BY PlaceLemma DEF IInv, TypeOK
<1>3. k \in 1..Len(items) /\ m \in Ids /\ m \in ToSet(items)
  BY <1>2, ElementType, ToSetLemma
<1>4. /\ dispatch'.item = dispatch.item
      /\ dispatch' = NoDispatch <=> dispatch = NoDispatch
  <2>1. k - 1 \in Nat
    BY <1>3
  <2>2. CASE dispatch = NoDispatch
    BY <1>1, <2>1, <2>2 DEF Shifted, NoDispatch
  <2>3. CASE dispatch # NoDispatch
    <3>1. dispatch \in Dispatches /\ dispatch.item \in Ids
      BY <2>3, SlotLemma DEF IInv
    <3>2. dispatch'.item = dispatch.item
      BY <1>1, <3>1 DEF Shifted, Dispatches
    <3>3. dispatch' # NoDispatch
      BY <3>1, <3>2, SlotLemma DEF IInv, NoDispatch, NoItem
    <3>4. QED
      BY <2>3, <3>2, <3>3
  <2>4. QED
    BY <2>2, <2>3
<1> HIDE DEF m
<1>5. NoDup(items') /\ ToSet(items') = ToSet(items) \ {m}
  BY <1>1, <1>2, <1>3, RemoveSet DEF InPlace, m
<1>6. HeldIds' = HeldIds \ {m}
  BY <1>1, <1>2, <1>3 DEF HeldIds
<1>7. EachMessageInOnePlace'
  BY <1>2, <1>3, <1>4, <1>5, <1>6, PlaceNext DEF InPlace
<1>8. m \in HeldIds
  BY <1>2, <1>3 DEF InPlace
<1>9. Moved
  BY <1>1, <1>2, <1>8 DEF Moved, HeldIds
<1>10. CompletionsMatchDispatch' /\ Numbered'
  BY <1>1, <1>4, <1>9, CompletionsKept, NumberedStep DEF IInv, CompletionsMatchDispatch
<1>11. DispatchHasOneOwner'
  BY <1>1, <1>4 DEF IInv, DispatchHasOneOwner, EscOwns, PollOwns, WriteOwns, StillMine
<1>12. QED
  BY <1>7, <1>10, <1>11 DEF SafetyParts

\* A full clear, or a stop: nothing is held any more, and every write in flight
\* becomes outdated.
LEMMA EmptiedSafe ==
  ASSUME IInv, TypeOK', items' = <<>>, dispatch' = NoDispatch,
         escTimer' = NoEsc, pollTimer' = NoPoll, gen' = gen + 1,
         UNCHANGED <<accepted, inflight>>,
         fate' = [m \in Ids |-> IF m \in Held THEN "cleared" ELSE fate[m]]
  PROVE  SafetyParts'
<1>1. Held = HeldIds
  BY DEF IInv, EachMessageInOnePlace, HeldIds
<1>2. Moved /\ HeldIds' = {}
  BY <1>1 DEF Moved, HeldIds
<1>3. EachMessageInOnePlace'
  BY <1>2, PlaceNext DEF InPlace, NoDup, ToSet
<1>4. Numbered'
  BY <1>2, NumberedStep DEF IInv
<1>5. DispatchHasOneOwner'
  BY OwnerNone DEF NoPoll
<1>6. CompletionsMatchDispatch'
  <2>1. ASSUME NEW w \in inflight, w.tag # "resume"
        PROVE  w.gen <= gen' /\ w.gen # gen' /\ fate'[w.id] = "cleared"
    <3>1. w.id \in Ids /\ w.gen \in Nat /\ gen \in Nat /\ w.gen <= gen
      BY <2>1, SlotLemma DEF IInv, TypeOK, CompletionsMatchDispatch, Writes
    <3>2. CASE w.gen = gen
      <4>1. dispatch.item = w.id
        BY <2>1, <3>2 DEF IInv, CompletionsMatchDispatch
      <4>2. w.id \in Held
        BY <3>1, <4>1, SlotLemma DEF Held, NoItem, IInv
      <4>3. QED
        BY <3>1, <4>2
    <3>3. CASE w.gen # gen
      <4>1. fate[w.id] = "cleared"
        BY <2>1, <3>3 DEF IInv, CompletionsMatchDispatch
      <4>2. QED
        BY <3>1, <4>1
    <3>4. QED
      BY <3>2, <3>3
  <2>2. QED
    BY <2>1 DEF IInv, CompletionsMatchDispatch
<1>7. QED
  BY <1>3, <1>4, <1>5, <1>6 DEF SafetyParts

LEMMA ClearAllSafe ==
  ASSUME IInv, TypeOK', ClearAll \/ Stop
  PROVE  SafetyParts'
BY EmptiedSafe DEF ClearAll, Stop

LEMMA SendNowSafe ==
  ASSUME IInv, TypeOK', NEW k \in DOMAIN items, NEW filter \in Scopes, NEW p \in Probes,
         SendNow(k, filter, p)
  PROVE  SafetyParts'
<1> DEFINE m == items[k]
           q == RemoveAt(items, k)
           d == [item |-> m, index |-> k - 1]
<1>1. /\ UNCHANGED <<gen, accepted>> /\ dispatch = NoDispatch /\ pollTimer = NoPoll
      /\ \/ /\ escTimer' = [item |-> m, gen |-> gen]
            /\ items' = q /\ dispatch' = d
            /\ UNCHANGED <<injecting, pollTimer, inflight, fate>>
         \/ /\ FailDispatch(q, d)
            /\ UNCHANGED <<injecting, pollTimer, escTimer, inflight>>
         \/ /\ WriteDispatch(q, d)
            /\ UNCHANGED <<pollTimer, escTimer>>
         \/ /\ StartPoll("send", m)
            /\ items' = q /\ dispatch' = d
            /\ UNCHANGED <<injecting, escTimer, inflight, fate>>
  BY DEF SendNow, SlotsFree
<1>2. items \in Seq(Ids) /\ InPlace
  BY PlaceLemma DEF IInv, TypeOK
<1>3. k \in 1..Len(items) /\ m \in Ids /\ m \in ToSet(items)
  BY <1>2, ElementType, ToSetLemma
<1>4. q \in Seq(Ids) /\ d \in Dispatches /\ d.item = m
  BY <1>2, RemoveQueuedType DEF IInv
<1>5. NoDup(q) /\ ToSet(q) = ToSet(items) \ {m}
  BY <1>2, <1>3, RemoveSet DEF InPlace
<1> HIDE DEF m, q, d
<1>6. d.item \notin ToSet(q) /\ ToSet(q) \cup {d.item} = HeldIds
  BY <1>1, <1>2, <1>3, <1>4, <1>5 DEF InPlace
<1>7. escTimer = NoEsc /\ pollTimer.kind # "send"
  BY <1>1 DEF IInv, DispatchHasOneOwner
<1>8. \A w \in inflight : w.tag # "resume" => w.gen # gen
  BY <1>1, NoWriteWithoutDispatch DEF IInv
<1>9. CASE FailDispatch(q, d) /\ UNCHANGED <<injecting, pollTimer, escTimer, inflight>>
  BY <1>1, <1>4, <1>5, <1>6, <1>7, <1>8, <1>9, FailedSafe
<1>10. CASE WriteDispatch(q, d) /\ UNCHANGED <<pollTimer, escTimer>>
  BY <1>1, <1>4, <1>5, <1>6, <1>7, <1>8, <1>10, WrittenSafe
<1>11. ASSUME items' = q, dispatch' = d, UNCHANGED <<inflight, fate>>,
              \/ EscOwns' /\ pollTimer' = NoPoll
              \/ PollOwns' /\ escTimer' = NoEsc
       PROVE  SafetyParts'
  <2>1. Moved /\ HeldIds' = HeldIds
    BY <1>11 DEF Moved, HeldIds
  <2>2. dispatch' # NoDispatch
    BY <1>3, <1>4, <1>11, SlotLemma DEF NoDispatch, NoItem, IInv
  <2>3. EachMessageInOnePlace'
    BY <1>5, <1>6, <1>11, <2>1, <2>2, PlaceNext DEF InPlace
  <2>4. CompletionsMatchDispatch' /\ Numbered'
    BY <1>1, <1>8, <1>11, <2>1, CompletionsKept, NumberedStep DEF IInv
  <2>5. ~WriteOwns'
    BY <1>1, <1>8, <1>11 DEF WriteOwns, StillMine
  <2>6. DispatchHasOneOwner'
    BY <1>11, <2>2, <2>5 DEF DispatchHasOneOwner
  <2>7. QED
    BY <2>3, <2>4, <2>6 DEF SafetyParts
<1>12. CASE /\ escTimer' = [item |-> m, gen |-> gen]
            /\ items' = q /\ dispatch' = d
            /\ UNCHANGED <<injecting, pollTimer, inflight, fate>>
  BY <1>1, <1>4, <1>11, <1>12 DEF EscOwns
<1>13. CASE /\ StartPoll("send", m)
            /\ items' = q /\ dispatch' = d
            /\ UNCHANGED <<injecting, escTimer, inflight, fate>>
  BY <1>1, <1>4, <1>7, <1>11, <1>13 DEF PollOwns, StillMine, StartPoll
<1>14. QED
  BY <1>1, <1>9, <1>10, <1>12, <1>13

\* A scoped clear: the queue keeps what does not match, in its order.
LEMMA ClearScopeSafe ==
  ASSUME IInv, TypeOK', NEW filter \in Scopes, ClearScope(filter)
  PROVE  SafetyParts'
<1> DEFINE hit(m) == MatchesScope(anchor[m].scope, filter)
           kept == {k \in DOMAIN items : ~hit(items[k])}
           drops == dispatch # NoDispatch /\ hit(dispatch.item)
<1>1. /\ \E f \in Enumerations(kept) : items' = [k \in DOMAIN f |-> items[f[k]]]
      /\ fate' = [m \in Ids |-> IF m \in Held /\ hit(m) THEN "cleared" ELSE fate[m]]
      /\ UNCHANGED <<inflight, accepted>>
      /\ \/ /\ drops
            /\ gen' = gen + 1
            /\ pollTimer' = NoPoll /\ escTimer' = NoEsc
            /\ dispatch' = NoDispatch
         \/ /\ ~drops
            /\ \E x : dispatch' = [dispatch EXCEPT !.index = x]
            /\ UNCHANGED <<gen, pollTimer, escTimer>>
  BY DEF ClearScope
<1>2. items \in Seq(Ids) /\ items' \in Seq(Ids) /\ InPlace /\ Held = HeldIds
  BY PlaceLemma DEF IInv, TypeOK, EachMessageInOnePlace, HeldIds
<1>3. NoDup(items') /\ ToSet(items') = {items[k] : k \in kept}
  <2>1. kept \in SUBSET (1..Len(items)) /\ Len(items) \in Nat
    BY <1>2
  <2> HIDE DEF kept
  <2>2. PICK f \in Enumerations(kept) : items' = [k \in DOMAIN f |-> items[f[k]]]
    BY <1>1
  <2>3. PICK n \in Nat : n = Cardinality(kept)
    BY <2>1, <2>2, EnumerationLemma
  <2>4. /\ f \in [1..n -> kept]
        /\ \A a, b \in 1..n : a < b => f[a] < f[b]
        /\ \A i \in kept : \E a \in 1..n : f[a] = i
    <3>1. /\ f \in [1..Cardinality(kept) -> kept]
          /\ \A a, b \in 1..Cardinality(kept) : a < b => f[a] < f[b]
          /\ \A i \in kept : \E a \in 1..Cardinality(kept) : f[a] = i
      BY <2>2 DEF Enumerations
    <3>2. QED
      BY <2>3, <3>1
  <2>5. items' = [k \in 1..n |-> items[f[k]]]
    BY <2>2, <2>4
  <2>6. DOMAIN items' = 1..n /\ \A a \in 1..n : items'[a] = items[f[a]]
    BY <2>5
  <2>7. Len(items') = n
    BY <1>2, <2>6, LenProperties
  <2>8. Lists(items', items, kept, f, n)
    BY <2>1, <2>4, <2>6, <2>7 DEF Lists
  <2>9. NoDup(items)
    BY <1>2 DEF InPlace
  <2>10. QED
    BY <1>2, <2>8, <2>9, KeepSet
<1> HIDE DEF hit
<1>4. ToSet(items') = {m \in ToSet(items) : ~hit(m)}
  <2>1. \A k \in kept : items[k] \in ToSet(items) /\ ~hit(items[k])
    BY <1>2, ToSetLemma
  <2>2. \A m \in ToSet(items) : ~hit(m) => \E k \in kept : items[k] = m
    <3>1. \A m \in ToSet(items) : \E k \in 1..Len(items) : items[k] = m
      BY <1>2, ToSetLemma
    <3>2. QED
      BY <1>2, <3>1
  <2> HIDE DEF kept
  <2>3. QED
    BY <1>3, <2>1, <2>2
<1> HIDE DEF kept
<1>5. HeldIds' = {m \in HeldIds : ~hit(m)}
  BY <1>1, <1>2 DEF HeldIds
<1>6. Moved
  BY <1>1, <1>2 DEF Moved, HeldIds
<1>7. Numbered'
  BY <1>1, <1>6, NumberedStep DEF IInv
<1>8. CASE /\ drops
           /\ gen' = gen + 1
           /\ pollTimer' = NoPoll /\ escTimer' = NoEsc
           /\ dispatch' = NoDispatch
  <2>1. ToSet(items') = HeldIds'
    BY <1>2, <1>4, <1>5, <1>8 DEF InPlace
  <2>2. dispatch'.item \notin ToSet(items')
    BY <1>8, <2>1, SlotLemma DEF NoDispatch, NoItem, HeldIds, IInv
  <2>3. EachMessageInOnePlace'
    BY <1>3, <1>8, <2>1, <2>2, PlaceNext DEF InPlace
  <2>4. DispatchHasOneOwner'
    BY <1>8, OwnerNone DEF NoPoll
  <2>5. ASSUME NEW w \in inflight, w.tag # "resume"
        PROVE  w.gen <= gen' /\ w.gen # gen' /\ fate'[w.id] = "cleared"
    <3>1. w.id \in Ids /\ w.gen \in Nat /\ gen \in Nat /\ w.gen <= gen
      BY <2>5, SlotLemma DEF IInv, TypeOK, CompletionsMatchDispatch, Writes
    <3>2. CASE w.gen = gen
      <4>1. dispatch.item = w.id
        BY <2>5, <3>2 DEF IInv, CompletionsMatchDispatch
      <4>2. w.id \in Held /\ hit(w.id)
        BY <1>8, <3>1, <4>1, SlotLemma DEF Held, NoItem, IInv
      <4>3. QED
        BY <1>1, <1>8, <3>1, <4>2
    <3>3. CASE w.gen # gen
      <4>1. fate[w.id] = "cleared"
        BY <2>5, <3>3 DEF IInv, CompletionsMatchDispatch
      <4>2. QED
        BY <1>1, <1>8, <3>1, <4>1
    <3>4. QED
      BY <3>2, <3>3
  <2>6. CompletionsMatchDispatch'
    BY <1>1, <2>5 DEF IInv, CompletionsMatchDispatch
  <2>7. QED
    BY <1>7, <2>3, <2>4, <2>6 DEF SafetyParts
<1>9. ASSUME ~drops, NEW x, dispatch' = [dispatch EXCEPT !.index = x],
             UNCHANGED <<gen, pollTimer, escTimer>>
      PROVE  SafetyParts'
  <2>1. dispatch'.item = dispatch.item
    BY <1>9 DEF IInv, TypeOK, Slots, Dispatches, NoDispatch
  <2>2. dispatch' = NoDispatch <=> dispatch = NoDispatch
    <3>1. dispatch' \in Slots
      BY DEF TypeOK
    <3>2. QED
      BY <2>1, <3>1, SlotLemma DEF IInv, TypeOK, Slots, Dispatches, NoDispatch, NoItem
  <2>3. /\ dispatch'.item \notin ToSet(items')
        /\ dispatch' = NoDispatch => ToSet(items') = HeldIds'
        /\ dispatch' # NoDispatch => ToSet(items') \cup {dispatch'.item} = HeldIds'
    BY <1>2, <1>4, <1>5, <1>9, <2>1, <2>2 DEF InPlace
  <2>4. EachMessageInOnePlace'
    BY <1>3, <2>3, PlaceNext DEF InPlace
  <2>5. CompletionsMatchDispatch'
    BY <1>1, <1>6, <1>9, <2>1, CompletionsKept DEF IInv, CompletionsMatchDispatch
  <2>6. DispatchHasOneOwner'
    BY <1>1, <1>9, <2>1, <2>2
       DEF IInv, DispatchHasOneOwner, EscOwns, PollOwns, WriteOwns, StillMine
  <2>7. QED
    BY <1>7, <2>4, <2>5, <2>6 DEF SafetyParts
<1>10. QED
  BY <1>1, <1>8, <1>9

\* A completion callback ends the dispatch it belongs to, and no other.
LEMMA WriteCompletesSafe ==
  ASSUME IInv, TypeOK', NEW w \in inflight, NEW ok \in BOOLEAN, NEW p \in Probes,
         WriteCompletes(w, ok, p)
  PROVE  SafetyParts'
<1>1. w.tag # "resume" /\ UNCHANGED <<gen, accepted, pollTimer, escTimer>>
  BY DEF WriteCompletes, timers
<1>2. w.id \in Ids /\ fate \in [Ids -> Fates] /\ items \in Seq(Ids)
  BY <1>1, SlotLemma DEF IInv, TypeOK
<1>3. /\ w.gen = gen => dispatch.item = w.id
      /\ w.gen # gen => fate[w.id] = "cleared"
      /\ \A x \in inflight \ {w} : x.tag # "resume" => x.id # w.id
  BY <1>1 DEF IInv, CompletionsMatchDispatch
<1>4. StillMine(w.id, w.gen) <=> w.gen = gen
  BY <1>3 DEF StillMine
<1>5. ASSUME w.gen = gen
      PROVE  /\ dispatch \in Dispatches /\ dispatch.item = w.id /\ fate[w.id] = "held"
             /\ escTimer' = NoEsc /\ pollTimer' = NoPoll
             /\ \A x \in inflight \ {w} : x.tag # "resume" => x.gen # gen
  <2>1. dispatch.item = w.id /\ dispatch \in Dispatches
    BY <1>2, <1>3, <1>5, SlotLemma DEF IInv
  <2>2. dispatch # NoDispatch /\ fate[w.id] = "held"
    BY <2>1, DispatchPlace DEF HeldIds
  <2>3. WriteOwns
    BY <1>1, <1>5, <2>1 DEF WriteOwns, StillMine
  <2>4. escTimer' = NoEsc /\ pollTimer' = NoPoll
    BY <1>1, <2>2, <2>3 DEF IInv, DispatchHasOneOwner
  <2>5. \A x \in inflight \ {w} : x.tag # "resume" => x.gen # gen
    BY <1>3, <2>1 DEF IInv, CompletionsMatchDispatch
  <2>6. QED
    BY <2>1, <2>2, <2>4, <2>5
<1>6. CASE /\ inflight' = inflight \ {w}
           /\ fate' = [fate EXCEPT ![w.id] = "sent"]
           /\ dispatch' = IF StillMine(w.id, w.gen) THEN NoDispatch ELSE dispatch
           /\ UNCHANGED items
  <2>1. Numbered'
    BY <1>1, <1>2, <1>3, <1>5, <1>6 DEF IInv, Numbered
  <2>2. CASE w.gen = gen
    <3>1. dispatch' = NoDispatch
      BY <1>4, <1>6, <2>2
    <3>2. HeldIds' = HeldIds \ {w.id}
      BY <1>2, <1>6 DEF HeldIds
    <3>3. NoDup(items') /\ ToSet(items') = HeldIds'
      BY <1>5, <1>6, <2>2, <3>2, DispatchPlace
    <3>4. dispatch'.item \notin ToSet(items')
      BY <3>1, <3>3, SlotLemma DEF NoDispatch, NoItem, HeldIds, IInv
    <3>5. EachMessageInOnePlace'
      BY <3>1, <3>3, <3>4, PlaceNext DEF InPlace
    <3>6. Moved
      BY <1>2, <1>5, <1>6, <2>2 DEF Moved
    <3>7. CompletionsMatchDispatch'
      BY <1>1, <1>5, <1>6, <2>2, <3>6, CompletionsKept DEF IInv
    <3>8. DispatchHasOneOwner'
      BY <1>5, <2>2, <3>1, OwnerNone DEF NoPoll
    <3>9. QED
      BY <2>1, <3>5, <3>7, <3>8 DEF SafetyParts
  <2>3. CASE w.gen # gen
    <3>1. dispatch' = dispatch
      BY <1>4, <1>6, <2>3
    <3>2. HeldIds' = HeldIds
      BY <1>2, <1>3, <1>6, <2>3 DEF HeldIds
    <3>3. InPlace
      BY PlaceLemma DEF IInv
    <3>4. EachMessageInOnePlace'
      BY <1>6, <3>1, <3>2, <3>3, PlaceNext DEF InPlace
    <3>5. CompletionsMatchDispatch'
      BY <1>1, <1>2, <1>3, <1>6, <3>1, SlotLemma DEF IInv, CompletionsMatchDispatch
    <3>6. WriteOwns' <=> WriteOwns
      BY <1>1, <1>6, <2>3, <3>1 DEF WriteOwns, StillMine
    <3>7. DispatchHasOneOwner'
      BY <1>1, <3>1, <3>6 DEF IInv, DispatchHasOneOwner, EscOwns, PollOwns, StillMine
    <3>8. QED
      BY <2>1, <3>4, <3>5, <3>7 DEF SafetyParts
  <2>4. QED
    BY <2>2, <2>3
<1>7. CASE /\ ~StillMine(w.id, w.gen) /\ inflight' = inflight \ {w}
           /\ UNCHANGED <<items, dispatch, fate>>
  <2>1. Numbered' /\ EachMessageInOnePlace'
    BY <1>1, <1>7 DEF IInv, Numbered, EachMessageInOnePlace, Queued, Held
  <2>2. CompletionsMatchDispatch'
    BY <1>1, <1>7 DEF IInv, CompletionsMatchDispatch
  <2>3. WriteOwns' <=> WriteOwns
    BY <1>1, <1>4, <1>7 DEF WriteOwns, StillMine
  <2>4. DispatchHasOneOwner'
    BY <1>1, <1>7, <2>3 DEF IInv, DispatchHasOneOwner, EscOwns, PollOwns, StillMine
  <2>5. QED
    BY <2>1, <2>2, <2>4 DEF SafetyParts
<1>8. CASE /\ StillMine(w.id, w.gen) /\ inflight' = inflight \ {w}
           /\ FailDispatch(items, dispatch)
  <2>1. /\ dispatch \in Dispatches /\ escTimer' = NoEsc /\ pollTimer'.kind # "send"
        /\ \A x \in inflight' : x.tag # "resume" => x.gen # gen
    BY <1>4, <1>5, <1>8 DEF NoPoll
  <2>2. QED
    BY <1>1, <1>2, <1>8, <2>1, DispatchPlace, FailedSafe
<1>9. CASE /\ StillMine(w.id, w.gen)
           /\ InjectHead(items, inflight \ {w}, [fate EXCEPT ![w.id] = "rejected"])
  <2> DEFINE ft == [fate EXCEPT ![w.id] = "rejected"]
  <2>1. /\ dispatch \in Dispatches /\ dispatch.item = w.id /\ fate[w.id] = "held"
        /\ escTimer' = NoEsc /\ pollTimer' = NoPoll
        /\ \A x \in inflight \ {w} : x.tag # "resume" => x.gen # gen
    BY <1>4, <1>5, <1>9
  <2>2. ft \in [Ids -> Fates]
    BY <1>2 DEF Fates
  <2>3. \A m \in Ids : ft[m] = fate[m] \/ (fate[m] = "held" /\ ft[m] = "rejected")
    BY <1>2, <2>1
  <2>4. NoDup(items) /\ ToSet(items) = HeldIds \ {w.id}
    BY <2>1, DispatchPlace
  <2>5. HeldIds \ {w.id} = {m \in Ids : ft[m] = "held"}
    BY <1>2 DEF HeldIds
  <2> HIDE DEF ft
  <2>6. InjectHead(items, inflight \ {w}, ft)
    BY <1>9 DEF ft
  <2>7. QED
    BY <1>1, <2>1, <2>2, <2>3, <2>4, <2>5, <2>6, DrainSafe
<1>10. QED
  <2>1. StillMine(w.id, w.gen) => dispatch.item = w.id
    BY DEF StillMine
  <2>2. QED
    BY <1>6, <1>7, <1>8, <1>9, <2>1 DEF WriteCompletes, FailDispatch

-----------------------------------------------------------------------------
(* The invariant and what it gives *)

LEMMA InitSafe == Init => IInv
<1> SUFFICES ASSUME Init PROVE IInv
  OBVIOUS
<1>1. TypeOK
  BY InitType
<1>2. Numbered
  BY BoundsAssumption DEF Init, Numbered, Ids
<1>3. EachMessageInOnePlace
  BY <1>1, PlaceLemma, SlotLemma
     DEF Init, InPlace, NoDup, ToSet, HeldIds, NoDispatch, NoItem
<1>4. DispatchHasOneOwner /\ CompletionsMatchDispatch
  BY DEF Init, DispatchHasOneOwner, CompletionsMatchDispatch, WriteOwns, NoPoll
<1>5. QED
  BY <1>1, <1>2, <1>3, <1>4 DEF IInv

LEMMA StepSafe == IInv /\ [Next]_vars => IInv'
<1> SUFFICES ASSUME IInv, [Next]_vars PROVE IInv'
  OBVIOUS
<1>1. TypeOK'
  BY TypeStep DEF IInv
<1>2. SafetyParts'
  <2>1. CASE UNCHANGED vars
    BY <1>1, <2>1, OwnersSame DEF vars, timers
  <2>2. CASE Next
    BY <1>1, <2>2, EnqueueSafe, RescueFiresSafe, OnTurnEndSafe, PollTicksSafe, PollFiresSafe,
       PollTimesOutSafe, EscFiresSafe, RemoveQueuedSafe, ClearAllSafe, ClearScopeSafe,
       SendNowSafe, WriteCompletesSafe, ResumeCompletesSafe, QuietSafe,
       InjectResumeCommandSafe DEF Next
  <2>3. QED
    BY <2>1, <2>2
<1>3. QED
  BY <1>1, <1>2 DEF IInv, SafetyParts

LEMMA InvariantHolds == Spec => []IInv
BY InitSafe, StepSafe, PTL DEF Spec

\* No message is lost, doubled or resurrected by the splices of the queue.
THEOREM EachMessageInOnePlaceHolds == Spec => []EachMessageInOnePlace
<1>1. IInv => EachMessageInOnePlace
  BY DEF IInv
<1>2. QED
  BY <1>1, InvariantHolds, PTL

\* A dispatch has exactly one live timer or write that will end it.
THEOREM DispatchHasOneOwnerHolds == Spec => []DispatchHasOneOwner
<1>1. IInv => DispatchHasOneOwner
  BY DEF IInv
<1>2. QED
  BY <1>1, InvariantHolds, PTL

\* A late completion callback never acts on a dispatch that is not its own.
THEOREM CompletionsMatchDispatchHolds == Spec => []CompletionsMatchDispatch
<1>1. IInv => CompletionsMatchDispatch
  BY DEF IInv
<1>2. QED
  BY <1>1, InvariantHolds, PTL

\* A message whose paste completed is never pasted again: a write in flight is
\* of the dispatched message, which is held, or of one that was cleared.
THEOREM NoSecondPasteHolds == Spec => []NoSecondPaste
<1>1. IInv => NoSecondPaste
  <2> SUFFICES ASSUME IInv, NEW w \in inflight, w.tag # "resume" PROVE fate[w.id] # "sent"
    BY DEF NoSecondPaste
  <2>1. w.id \in Ids
    BY SlotLemma DEF IInv
  <2>2. CASE w.gen = gen
    <3>1. dispatch.item = w.id /\ dispatch \in Dispatches
      BY <2>1, <2>2, SlotLemma DEF IInv, CompletionsMatchDispatch
    <3>2. QED
      BY <3>1, DispatchPlace DEF HeldIds
  <2>3. CASE w.gen # gen
    BY <2>3 DEF IInv, CompletionsMatchDispatch
  <2>4. QED
    BY <2>2, <2>3
<1>2. QED
  BY <1>1, InvariantHolds, PTL

-----------------------------------------------------------------------------
(* Order of arrival, and the cap *)

\* The queue is in order, the dispatched message belongs where its index says,
\* and the slot counts.
Arranged ==
  /\ Ascending(items)
  /\ dispatch # NoDispatch => Splits(items, dispatch.index, dispatch.item)
  /\ Outstanding <= MaxItems

LEMMA IdsFact == Ids \in SUBSET Int /\ Ids \subseteq Nat /\ NoItem \notin Ids
BY BoundsAssumption DEF Ids, NoItem

LEMMA SlotFact ==
  ASSUME IInv
  PROVE  /\ items \in Seq(Ids) /\ Len(items) \in Nat
         /\ dispatch # NoDispatch =>
              dispatch \in Dispatches /\ dispatch.item \in Ids /\ dispatch.index \in Nat
         /\ Outstanding = Len(items) + (IF dispatch = NoDispatch THEN 0 ELSE 1)
BY SlotLemma DEF IInv, TypeOK, Dispatches, Outstanding

\* A dispatch goes back to its place.
LEMMA BackInPlace ==
  ASSUME NEW q \in Seq(Ids), NEW d \in Dispatches, Ascending(q),
         Splits(q, d.index, d.item)
  PROVE  /\ Ascending(Reinserted(q, d)) /\ Reinserted(q, d) \in Seq(Ids)
         /\ Len(Reinserted(q, d)) = Len(q) + 1
<1>1. d.index \in 0..Len(q) /\ d.item \in Ids
  BY DEF Splits, Dispatches
<1>2. RestorePoint(q, d) = d.index
  BY <1>1 DEF RestorePoint
<1>3. Ascending(InsertAt(q, d.index + 1, d.item))
  BY <1>1, InsertAscending, IdsFact
<1>4. Ascending(Reinserted(q, d))
  BY <1>2, <1>3 DEF Reinserted
<1>5. QED
  BY <1>4, ReinsertedLemma

LEMMA FailedArranged ==
  ASSUME NEW q \in Seq(Ids), NEW d \in Dispatches, Ascending(q),
         Splits(q, d.index, d.item), Len(q) + 1 <= MaxItems, FailDispatch(q, d)
  PROVE  Arranged'
<1>1. dispatch' = NoDispatch /\ (items' = q \/ items' = Reinserted(q, d))
  BY DEF FailDispatch, Restore, Reject
<1>2. Ascending(items') /\ Len(items') <= MaxItems /\ Len(items') \in Nat
  BY <1>1, BackInPlace, BoundsAssumption
<1>3. Outstanding' <= MaxItems
  BY <1>1, <1>2, BoundsAssumption DEF Outstanding
<1>4. QED
  BY <1>1, <1>2, <1>3 DEF Arranged

LEMMA WrittenArranged ==
  ASSUME NEW q \in Seq(Ids), NEW d \in Dispatches, Ascending(q),
         Splits(q, d.index, d.item), Len(q) + 1 <= MaxItems,
         WriteDispatch(q, d) \/ (items' = q /\ dispatch' = d)
  PROVE  Arranged'
<1>1. CASE items' = q /\ dispatch' = d
  <2>1. Outstanding' <= MaxItems
    BY <1>1, BoundsAssumption DEF Outstanding
  <2>2. QED
    BY <1>1, <2>1 DEF Arranged
<1>2. QED
  BY <1>1, FailedArranged DEF WriteDispatch

LEMMA InjectArranged ==
  ASSUME IInv, Arranged, NEW fl, NEW ft, InjectHead(items, fl, ft)
  PROVE  Arranged'
<1>1. items \in Seq(Ids) /\ Len(items) \in Nat /\ Len(items) <= MaxItems /\ Ascending(items)
  BY SlotFact, BoundsAssumption DEF Arranged
<1>2. PICK n \in 0..Len(items) :
        HeadWritten(items, fl, n) \/ HeadKept(items, fl, n)
  BY <1>1, InjectHeadEffect
<1>3. items' \in Seq(Ids)
  BY <1>1, InjectHeadEffect
<1>4. CASE HeadWritten(items, fl, n)
  <2>1. n + 1 \in 0..Len(items) /\ n + 1 \in 1..(n + 1)
    BY <1>1, <1>4 DEF HeadWritten
  <2>2. /\ Len(items') = Len(items) - (n + 1)
        /\ \A j \in 1..(Len(items) - (n + 1)) : items'[j] = items[(n + 1) + j]
    BY <1>4 DEF HeadWritten
  <2>3. Ascending(items') /\ Splits(items', 0, items[n + 1])
    BY <1>1, <1>3, <2>1, <2>2, DropAscending, IdsFact
  <2>4. dispatch' = [item |-> items[n + 1], index |-> 0]
    BY <1>4 DEF HeadWritten
  <2>5. Outstanding' <= MaxItems
    BY <1>1, <2>1, <2>2, BoundsAssumption DEF Outstanding
  <2>6. QED
    BY <2>3, <2>4, <2>5 DEF Arranged
<1>5. CASE HeadKept(items, fl, n)
  <2>1. Ascending(items') /\ dispatch' = NoDispatch /\ Len(items') = Len(items) - n
    BY <1>1, <1>3, <1>5, DropAscending, IdsFact DEF HeadKept
  <2>2. Outstanding' <= MaxItems
    BY <1>1, <2>1, BoundsAssumption DEF Outstanding
  <2>3. QED
    BY <2>1, <2>2 DEF Arranged
<1>6. QED
  BY <1>2, <1>4, <1>5

\* A step that leaves the queue alone and at most empties the slot.
LEMMA SameArranged ==
  ASSUME IInv, Arranged, items' = items, dispatch' \in {dispatch, NoDispatch}
  PROVE  Arranged'
<1>1. Outstanding' <= MaxItems
  BY SlotFact, BoundsAssumption DEF Arranged, Outstanding
<1>2. QED
  BY <1>1 DEF Arranged

\* The slot's message is restored or dropped.
LEMMA SlotFailsArranged ==
  ASSUME IInv, Arranged, dispatch \in Dispatches,
         FailDispatch(items, dispatch) \/ Restore(items, dispatch) \/ Reject(items, dispatch)
           \/ WriteDispatch(items, dispatch)
  PROVE  Arranged'
<1>1. dispatch # NoDispatch
  BY DispatchPlace
<1>2. /\ items \in Seq(Ids) /\ Ascending(items) /\ Len(items) + 1 <= MaxItems
      /\ Splits(items, dispatch.index, dispatch.item)
  BY <1>1, SlotFact DEF Arranged
<1>3. CASE Restore(items, dispatch) \/ Reject(items, dispatch)
  <2>1. dispatch' = NoDispatch /\ (items' = items \/ items' = Reinserted(items, dispatch))
    BY <1>3 DEF Restore, Reject
  <2>2. Ascending(items') /\ Len(items') <= MaxItems /\ Len(items') \in Nat
    BY <1>2, <2>1, BackInPlace, BoundsAssumption
  <2>3. Outstanding' <= MaxItems
    BY <2>1, <2>2, BoundsAssumption DEF Outstanding
  <2>4. QED
    BY <2>1, <2>2, <2>3 DEF Arranged
<1>4. QED
  BY <1>2, <1>3, FailedArranged, WrittenArranged

LEMMA EnqueueArranged ==
  ASSUME IInv, Arranged, NEW a \in Anchors, NEW p \in Probes, Enqueue(a, p)
  PROVE  Arranged'
<1>1. /\ items' = Append(items, accepted + 1) /\ dispatch' = dispatch
      /\ Outstanding < MaxItems /\ accepted + 1 \in Ids /\ accepted \in Nat
  BY BoundsAssumption DEF Enqueue, IInv, TypeOK, Ids
<1>2. PICK m \in Ids : m = accepted + 1
  BY <1>1
<1>3. \A x \in HeldIds : x < m
  <2>1. ASSUME NEW x \in HeldIds PROVE x < m
    <3>1. x \in Ids /\ x \in Nat /\ ~(x > accepted)
      BY IdsFact DEF HeldIds, IInv, Numbered
    <3>2. QED
      BY <1>1, <1>2, <3>1
  <2>2. QED
    BY <2>1
<1>4. InPlace /\ items \in Seq(Ids)
  BY PlaceLemma, SlotFact DEF IInv
<1>5. (\A j \in 1..Len(items) : items[j] < m) /\ (dispatch # NoDispatch => dispatch.item < m)
  BY <1>3, <1>4, ToSetLemma DEF InPlace
<1>6. Ascending(items)
  BY DEF Arranged
<1>7. /\ Ascending(Append(items, m))
      /\ \A i, d : Splits(items, i, d) /\ d < m => Splits(Append(items, m), i, d)
  BY <1>4, <1>5, <1>6, AppendAscending, IdsFact
<1>8. dispatch' # NoDispatch => Splits(items', dispatch'.index, dispatch'.item)
  BY <1>1, <1>2, <1>5, <1>7 DEF Arranged
<1>9. Outstanding' <= MaxItems
  <2>1. Len(items') = Len(items) + 1
    BY <1>1, <1>2, <1>4, AppendProperties
  <2>2. QED
    BY <1>1, <2>1, SlotFact, BoundsAssumption DEF Outstanding
<1>10. QED
  BY <1>1, <1>2, <1>7, <1>8, <1>9 DEF Arranged

LEMMA RemoveQueuedArranged ==
  ASSUME IInv, Arranged, NEW k \in DOMAIN items, NEW filter, RemoveQueued(k, filter)
  PROVE  Arranged'
<1>1. items' = RemoveAt(items, k) /\ dispatch' = Shifted(k)
  BY DEF RemoveQueued
<1>2. items \in Seq(Ids) /\ k \in 1..Len(items) /\ Ascending(items)
  BY SlotFact DEF Arranged
<1>3. /\ Ascending(items') /\ Len(items') = Len(items) - 1
      /\ \A i, e : Splits(items, i, e) => Splits(items', IF k <= i THEN i - 1 ELSE i, e)
  BY <1>1, <1>2, RemoveAscending, RemoveAtLemma, IdsFact
<1>4. CASE dispatch = NoDispatch
  <2>1. dispatch' = NoDispatch
    BY <1>1, <1>2, <1>4 DEF Shifted, NoDispatch
  <2>2. Outstanding' <= MaxItems
    BY <1>2, <1>3, <1>4, <2>1, SlotFact, BoundsAssumption DEF Outstanding, Arranged
  <2>3. QED
    BY <1>3, <2>1, <2>2 DEF Arranged
<1>5. CASE dispatch # NoDispatch
  <2>1. PICK i \in Nat, e \in Ids : dispatch = [item |-> e, index |-> i]
    BY <1>5, SlotFact DEF Dispatches
  <2>2. PICK y : y = (IF k <= i THEN i - 1 ELSE i)
    OBVIOUS
  <2>3. dispatch' = [item |-> e, index |-> y]
    BY <1>1, <1>2, <2>1, <2>2 DEF Shifted
  <2>4. Splits(items', y, e)
    BY <1>3, <1>5, <2>1, <2>2 DEF Arranged
  <2>5. Outstanding' <= MaxItems
    BY <1>2, <1>3, <1>5, SlotFact, BoundsAssumption DEF Outstanding, Arranged
  <2>6. QED
    BY <1>3, <2>3, <2>4, <2>5 DEF Arranged
<1>6. QED
  BY <1>4, <1>5

LEMMA SendNowArranged ==
  ASSUME IInv, Arranged, NEW k \in DOMAIN items, NEW filter, NEW p, SendNow(k, filter, p)
  PROVE  Arranged'
<1> DEFINE q == RemoveAt(items, k)
           d == [item |-> items[k], index |-> k - 1]
<1>1. /\ dispatch = NoDispatch
      /\ WriteDispatch(q, d) \/ FailDispatch(q, d) \/ (items' = q /\ dispatch' = d)
  BY DEF SendNow, SlotsFree
<1>2. items \in Seq(Ids) /\ k \in 1..Len(items) /\ Ascending(items) /\ Len(items) <= MaxItems
  BY <1>1, SlotFact DEF Arranged
<1>3. /\ q \in Seq(Ids) /\ Len(q) + 1 <= MaxItems /\ Ascending(q)
      /\ Splits(q, k - 1, items[k])
  <2>1. q \in Seq(Ids) /\ Len(q) = Len(items) - 1
    BY <1>2, RemoveAtLemma
  <2>2. Ascending(q) /\ Splits(q, k - 1, items[k])
    BY <1>2, RemoveAscending, IdsFact
  <2>3. QED
    BY <1>2, <2>1, <2>2, SlotFact, BoundsAssumption
<1>4. d \in Dispatches /\ d.index = k - 1 /\ d.item = items[k]
  BY <1>2, ElementType DEF Dispatches
<1> HIDE DEF q, d
<1>5. Splits(q, d.index, d.item)
  BY <1>3, <1>4
<1>6. QED
  BY <1>1, <1>3, <1>4, <1>5, FailedArranged, WrittenArranged

\* Scoped clears keep the order, and shift the dispatched message's place by the
\* messages dropped ahead of it.
LEMMA ClearScopeArranged ==
  ASSUME IInv, TypeOK', Arranged, NEW filter \in Scopes, ClearScope(filter)
  PROVE  Arranged'
<1> DEFINE hit(m) == MatchesScope(anchor[m].scope, filter)
           kept == {k \in DOMAIN items : ~hit(items[k])}
           ahead == {k \in DOMAIN items \ kept : k - 1 < dispatch.index}
<1>1. /\ \E f \in Enumerations(kept) : items' = [k \in DOMAIN f |-> items[f[k]]]
      /\ \/ dispatch' = NoDispatch
         \/ dispatch' = [dispatch EXCEPT !.index = @ - Cardinality(ahead)]
  BY DEF ClearScope
<1>2. items \in Seq(Ids) /\ items' \in Seq(Ids) /\ DOMAIN items = 1..Len(items)
      /\ Ascending(items)
  BY SlotFact DEF TypeOK, Arranged
<1>3. kept \in SUBSET (1..Len(items)) /\ Len(items) \in Nat
  BY <1>2
<1>4. dispatch # NoDispatch => ahead = (1..dispatch.index) \ kept
  <2>1. CASE dispatch # NoDispatch
    <3>1. PICK x \in Nat : x = dispatch.index /\ x <= Len(items)
      BY <2>1, SlotFact DEF Arranged, Splits
    <3>2. \A k : k \in 1..x <=> k \in 1..Len(items) /\ k - 1 < x
      BY <1>3, <3>1
    <3> HIDE DEF kept
    <3>3. QED
      BY <1>2, <3>1, <3>2
  <2>2. QED
    BY <2>1
<1> HIDE DEF kept, ahead
<1>5. PICK f \in Enumerations(kept) : items' = [k \in DOMAIN f |-> items[f[k]]]
  BY <1>1
<1>6. PICK n \in Nat : n = Cardinality(kept)
  BY <1>3, <1>5, EnumerationLemma
<1>7. Lists(items', items, kept, f, n)
  <2>1. /\ f \in [1..n -> kept]
        /\ \A a, b \in 1..n : a < b => f[a] < f[b]
        /\ \A i \in kept : \E a \in 1..n : f[a] = i
    <3>1. /\ f \in [1..Cardinality(kept) -> kept]
          /\ \A a, b \in 1..Cardinality(kept) : a < b => f[a] < f[b]
          /\ \A i \in kept : \E a \in 1..Cardinality(kept) : f[a] = i
      BY <1>5 DEF Enumerations
    <3>2. QED
      BY <1>6, <3>1
  <2>2. items' = [k \in 1..n |-> items[f[k]]]
    BY <1>5, <2>1
  <2>3. DOMAIN items' = 1..n /\ \A a \in 1..n : items'[a] = items[f[a]]
    BY <2>2
  <2>4. Len(items') = n
    BY <1>2, <1>6, <2>3, LenProperties
  <2>5. QED
    BY <1>3, <1>6, <2>1, <2>3, <2>4 DEF Lists
<1>8. Ascending(items')
  BY <1>2, <1>7, KeepAscending, IdsFact
<1>9. Len(items') <= Len(items) /\ Len(items') \in Nat
  <2>1. IsFiniteSet(1..Len(items)) /\ Cardinality(1..Len(items)) = Len(items)
    BY <1>3, FS_Interval, Z3
  <2>2. n <= Len(items)
    BY <1>3, <1>6, <2>1, FS_Subset
  <2>3. QED
    BY <1>6, <1>7, <2>2 DEF Lists
<1>10. CASE dispatch' = NoDispatch
  <2>1. Outstanding' <= MaxItems
    BY <1>9, <1>10, SlotFact, BoundsAssumption DEF Outstanding, Arranged
  <2>2. QED
    BY <1>8, <1>10, <2>1 DEF Arranged
<1>11. CASE dispatch' # NoDispatch /\ dispatch = NoDispatch
  <2>1. dispatch'.item = NoItem
    BY <1>1, <1>11 DEF NoDispatch
  <2>2. dispatch' \in Slots
    BY DEF TypeOK
  <2>3. QED
    BY <1>11, <2>1, <2>2, IdsFact DEF Slots, Dispatches
<1>12. CASE dispatch' # NoDispatch /\ dispatch # NoDispatch
  <2>1. dispatch' = [dispatch EXCEPT !.index = @ - Cardinality(ahead)]
    BY <1>1, <1>12
  <2>2. /\ dispatch'.item = dispatch.item
        /\ dispatch'.index = dispatch.index - Cardinality((1..dispatch.index) \ kept)
    BY <1>4, <1>12, <2>1, SlotFact DEF Dispatches
  <2>3. Splits(items, dispatch.index, dispatch.item)
    BY <1>12 DEF Arranged
  <2>4. Splits(items', dispatch.index - Cardinality((1..dispatch.index) \ kept), dispatch.item)
    BY <1>2, <1>7, <2>3, KeepSplits, IdsFact
  <2>5. Outstanding' <= MaxItems
    BY <1>9, <1>12, SlotFact, BoundsAssumption DEF Outstanding, Arranged
  <2>6. QED
    BY <1>8, <2>2, <2>4, <2>5 DEF Arranged
<1>13. QED
  BY <1>10, <1>11, <1>12

LEMMA WriteCompletesArranged ==
  ASSUME IInv, Arranged, NEW w \in inflight, NEW ok \in BOOLEAN, NEW p \in Probes,
         WriteCompletes(w, ok, p)
  PROVE  Arranged'
<1>1. w.id \in Ids
  BY SlotLemma DEF IInv, WriteCompletes
<1>2. StillMine(w.id, w.gen) => dispatch \in Dispatches
  BY <1>1, SlotLemma DEF StillMine, IInv
<1>3. CASE items' = items /\ dispatch' \in {dispatch, NoDispatch}
  BY <1>3, SameArranged
<1>4. CASE /\ StillMine(w.id, w.gen)
           /\ Restore(items, dispatch) \/ Reject(items, dispatch)
  BY <1>2, <1>4, SlotFailsArranged
<1>5. ASSUME NEW fl, NEW ft, InjectHead(items, fl, ft) PROVE Arranged'
  BY <1>5, InjectArranged
<1>6. QED
  BY <1>3, <1>4, <1>5 DEF WriteCompletes

LEMMA PollFiresArranged ==
  ASSUME IInv, Arranged, NEW p \in Probes, PollFires(p)
  PROVE  Arranged'
<1>1. CASE InjectHead(items, inflight, fate)
  BY <1>1, InjectArranged
<1>2. CASE pollTimer.kind = "send" /\ WriteDispatch(items, dispatch)
  <2>1. dispatch \in Dispatches
    BY <1>2, PollOwner DEF PollFires
  <2>2. QED
    BY <1>2, <2>1, SlotFailsArranged
<1>3. CASE UNCHANGED <<items, dispatch>>
  BY <1>3, SameArranged
<1>4. QED
  BY <1>1, <1>2, <1>3 DEF PollFires, WriteResume

LEMMA PollTimesOutArranged ==
  ASSUME IInv, Arranged, PollTimesOut
  PROVE  Arranged'
<1>1. CASE pollTimer.kind = "send" /\ Restore(items, dispatch)
  <2>1. dispatch \in Dispatches
    BY <1>1, PollOwner DEF PollTimesOut
  <2>2. QED
    BY <1>1, <2>1, SlotFailsArranged
<1>2. CASE UNCHANGED <<items, dispatch>>
  BY <1>2, SameArranged
<1>3. QED
  BY <1>1, <1>2 DEF PollTimesOut

LEMMA EscFiresArranged ==
  ASSUME IInv, Arranged, EscFires
  PROVE  Arranged'
<1>1. CASE StillMine(escTimer.item, escTimer.gen) /\ FailDispatch(items, dispatch)
  <2>1. escTimer.item \in Ids
    BY DEF EscFires, IInv, TypeOK, Escs
  <2>2. dispatch \in Dispatches
    BY <1>1, <2>1, SlotLemma DEF StillMine, IInv
  <2>3. QED
    BY <1>1, <2>2, SlotFailsArranged
<1>2. CASE UNCHANGED <<items, dispatch>>
  BY <1>2, SameArranged
<1>3. QED
  BY <1>1, <1>2 DEF EscFires

LEMMA ClearedArranged ==
  ASSUME items' = <<>>, dispatch' = NoDispatch
  PROVE  Arranged'
<1>1. Ascending(items')
  BY DEF Ascending
<1>2. Outstanding' <= MaxItems
  BY BoundsAssumption DEF Outstanding
<1>3. QED
  BY <1>1, <1>2 DEF Arranged

LEMMA StepArranged == IInv /\ IInv' /\ Arranged /\ [Next]_vars => Arranged'
<1> SUFFICES ASSUME IInv, TypeOK', Arranged, [Next]_vars PROVE Arranged'
  BY DEF IInv
<1>1. CASE UNCHANGED <<items, dispatch>>
  BY <1>1, SameArranged
<1>2. ASSUME NEW a \in Anchors, NEW p \in Probes, Enqueue(a, p) PROVE Arranged'
  BY <1>2, EnqueueArranged
<1>3. ASSUME NEW p \in Probes, RescueFires(p) \/ PollTicks(p) \/ OnTurnEnd(p)
      PROVE  Arranged'
  BY <1>1, <1>3, InjectArranged DEF RescueFires, PollTicks, OnTurnEnd
<1>4. ASSUME NEW p \in Probes, PollFires(p) PROVE Arranged'
  BY <1>4, PollFiresArranged
<1>5. ASSUME NEW k \in DOMAIN items, NEW filter, NEW p,
             RemoveQueued(k, filter) \/ SendNow(k, filter, p)
      PROVE  Arranged'
  BY <1>5, RemoveQueuedArranged, SendNowArranged
<1>6. CASE ClearAll \/ Stop
  BY <1>6, ClearedArranged DEF ClearAll, Stop
<1>7. ASSUME NEW filter \in Scopes, ClearScope(filter) PROVE Arranged'
  BY <1>7, ClearScopeArranged
<1>8. CASE EscFires \/ PollTimesOut
  BY <1>8, EscFiresArranged, PollTimesOutArranged
<1>9. ASSUME NEW w \in inflight, NEW ok \in BOOLEAN, NEW p \in Probes, WriteCompletes(w, ok, p)
      PROVE  Arranged'
  BY <1>9, WriteCompletesArranged
<1>10. ASSUME NEW w, NEW ok, ResumeCompletes(w, ok) PROVE Arranged'
  BY <1>1, <1>10 DEF ResumeCompletes
<1>11. ASSUME NEW c, NEW p, InjectResumeCommand(c, p) PROVE Arranged'
  BY <1>1, <1>11 DEF InjectResumeCommand, WriteResume
<1>12. CASE SuppressNextDrain \/ OnStreamingActivated
  BY <1>1, <1>12 DEF SuppressNextDrain, OnStreamingActivated
<1>13. CASE UNCHANGED vars
  BY <1>1, <1>13 DEF vars
<1>14. QED
  BY <1>2, <1>3, <1>4, <1>5, <1>6, <1>7, <1>8, <1>9, <1>10, <1>11, <1>12, <1>13 DEF Next

LEMMA ArrangedHolds == Spec => [](IInv /\ Arranged)
<1>1. Init => Arranged
  BY BoundsAssumption DEF Init, Arranged, Ascending, Outstanding
<1>2. QED
  BY <1>1, InitSafe, StepSafe, StepArranged, PTL DEF Spec

\* What clients render, and the order after a failed send, is the order of
\* arrival: every splice keeps the remembered position right.
THEOREM SnapshotInArrivalOrderHolds == Spec => []SnapshotInArrivalOrder
<1>1. IInv /\ Arranged => SnapshotInArrivalOrder
  <2> SUFFICES ASSUME IInv, Arranged PROVE SnapshotInArrivalOrder
    OBVIOUS
  <2>1. Ascending(Snapshot) /\ Snapshot \in Seq(Ids)
    BY SlotFact, BackInPlace DEF Arranged, Snapshot
  <2>2. DOMAIN Snapshot = 1..Len(Snapshot)
    BY <2>1
  <2>3. QED
    BY <2>1, <2>2 DEF SnapshotInArrivalOrder, Ascending
<1>2. QED
  BY <1>1, ArrangedHolds, PTL

\* The cap holds of the whole queue, the message being sent included.
THEOREM CapCountsDispatchHolds == Spec => []CapCountsDispatch
<1>1. IInv /\ Arranged => CapCountsDispatch
  <2> SUFFICES ASSUME IInv, Arranged PROVE CapCountsDispatch
    OBVIOUS
  <2>1. Len(Snapshot) = Outstanding
    BY SlotFact, BackInPlace DEF Arranged, Snapshot
  <2>2. QED
    BY <2>1 DEF CapCountsDispatch, Arranged
<1>2. QED
  BY <1>1, ArrangedHolds, PTL

-----------------------------------------------------------------------------
(* Two properties of single steps *)

LEMMA InjectHeadWrites ==
  ASSUME NEW q, NEW fl, NEW ft, InjectHead(q, fl, ft)
  PROVE  /\ injecting' \in BOOLEAN
         /\ injecting' => inflight' # {}
BY DEF InjectHead

LEMMA WriteDispatchWrites ==
  ASSUME NEW q, NEW d, WriteDispatch(q, d)
  PROVE  /\ injecting' => inflight' # {}
         /\ \A w \in inflight' \ inflight : w.tag = "send"
<1>1. \/ \E m : injecting' = TRUE /\ inflight' = inflight \cup {Write(m, "send")}
      \/ injecting' = FALSE /\ inflight' = inflight
  BY DEF WriteDispatch
<1>2. CASE injecting' = FALSE /\ inflight' = inflight
  BY <1>2
<1>3. ASSUME NEW m, injecting' = TRUE, inflight' = inflight \cup {Write(m, "send")}
      PROVE  inflight' # {} /\ \A w \in inflight' \ inflight : w.tag = "send"
  <2>1. Write(m, "send") \in inflight'
    BY <1>3
  <2>2. Write(m, "send").tag = "send"
    BY DEF Write
  <2>3. \A w \in inflight' \ inflight : w = Write(m, "send")
    BY <1>3
  <2>4. QED
    BY <2>1, <2>2, <2>3
<1>4. QED
  BY <1>1, <1>2, <1>3

LEMMA WriteResumeWrites ==
  ASSUME NEW c, WriteResume(c)
  PROVE  /\ injecting' => inflight' # {}
         /\ \A w \in inflight' \ inflight : w.tag = "resume"
<1>1. \/ \E m : injecting' = TRUE /\ inflight' = inflight \cup {Write(m, "resume")}
      \/ injecting' = FALSE /\ inflight' = inflight
  BY DEF WriteResume
<1>2. CASE injecting' = FALSE /\ inflight' = inflight
  BY <1>2
<1>3. ASSUME NEW m, injecting' = TRUE, inflight' = inflight \cup {Write(m, "resume")}
      PROVE  inflight' # {} /\ \A w \in inflight' \ inflight : w.tag = "resume"
  <2>1. Write(m, "resume") \in inflight'
    BY <1>3
  <2>2. Write(m, "resume").tag = "resume"
    BY DEF Write
  <2>3. \A w \in inflight' \ inflight : w = Write(m, "resume")
    BY <1>3
  <2>4. QED
    BY <2>1, <2>2, <2>3
<1>4. QED
  BY <1>1, <1>2, <1>3

\* The single-flight flag is set only while a completion that resets it is due.
THEOREM InjectingHasWriterHolds == Spec => []InjectingHasWriter
<1>1. Init => InjectingHasWriter
  BY DEF Init, InjectingHasWriter
<1>2. InjectingHasWriter /\ [Next]_vars => InjectingHasWriter'
  <2> SUFFICES ASSUME InjectingHasWriter, [Next]_vars PROVE InjectingHasWriter'
    OBVIOUS
  <2> USE DEF InjectingHasWriter
  <2>1. CASE UNCHANGED <<injecting, inflight>>
    BY <2>1
  <2>2. ASSUME NEW p \in Probes, RescueFires(p) PROVE InjectingHasWriter'
    BY <2>1, <2>2, InjectHeadWrites DEF RescueFires
  <2>3. ASSUME NEW p \in Probes, OnTurnEnd(p) PROVE InjectingHasWriter'
    BY <2>1, <2>3, InjectHeadWrites DEF OnTurnEnd
  <2>4. ASSUME NEW p \in Probes, PollFires(p) PROVE InjectingHasWriter'
    BY <2>1, <2>4, InjectHeadWrites, WriteDispatchWrites, WriteResumeWrites DEF PollFires
  <2>5. ASSUME NEW k, NEW filter, NEW p, SendNow(k, filter, p) PROVE InjectingHasWriter'
    BY <2>1, <2>5, WriteDispatchWrites DEF SendNow
  <2>6. ASSUME NEW c, NEW p, InjectResumeCommand(c, p) PROVE InjectingHasWriter'
    BY <2>1, <2>6, WriteResumeWrites DEF InjectResumeCommand
  <2>7. ASSUME NEW w, NEW ok, NEW p, WriteCompletes(w, ok, p) PROVE InjectingHasWriter'
    BY <2>7, InjectHeadWrites DEF WriteCompletes
  <2>8. ASSUME NEW w, NEW ok, ResumeCompletes(w, ok) PROVE InjectingHasWriter'
    BY <2>8 DEF ResumeCompletes
  <2>9. CASE Stop
    BY <2>9 DEF Stop
  <2>10. ASSUME NEW a, NEW p, NEW k, NEW filter,
                \/ Enqueue(a, p) \/ PollTicks(p) \/ RemoveQueued(k, filter)
                \/ ClearAll \/ ClearScope(filter)
         PROVE  InjectingHasWriter'
    BY <2>1, <2>10 DEF Enqueue, PollTicks, RemoveQueued, ClearAll, ClearScope
  <2>11. CASE EscFires \/ PollTimesOut \/ SuppressNextDrain \/ OnStreamingActivated
    BY <2>1, <2>11 DEF EscFires, PollTimesOut, SuppressNextDrain, OnStreamingActivated
  <2>12. CASE UNCHANGED vars
    BY <2>1, <2>12 DEF vars
  <2>13. QED
    BY <2>2, <2>3, <2>4, <2>5, <2>6, <2>7, <2>8, <2>9, <2>10, <2>11, <2>12 DEF Next
<1>3. QED
  BY <1>1, <1>2, PTL DEF Spec

\* No path to an automatic paste ignores a Stop.
THEOREM ParkedMeansNoDrainHolds == Spec => ParkedMeansNoDrain
<1> DEFINE Parked == suppressDrain => \A w \in inflight' \ inflight : w.tag # "inject"
<1>1. [Next]_vars => [Parked]_vars
  <2> SUFFICES ASSUME Next, suppressDrain
               PROVE  \A w \in inflight' \ inflight : w.tag # "inject"
    OBVIOUS
  <2>1. CASE inflight' \subseteq inflight
    BY <2>1
  <2>2. ASSUME NEW p \in Probes, RescueFires(p) PROVE inflight' = inflight
    BY <2>2 DEF RescueFires, MayDrain
  <2>3. ASSUME NEW p \in Probes, OnTurnEnd(p) PROVE inflight' = inflight
    BY <2>3 DEF OnTurnEnd
  <2>4. ASSUME NEW p \in Probes, PollFires(p)
        PROVE  \A w \in inflight' \ inflight : w.tag # "inject"
    BY <2>1, <2>4, WriteDispatchWrites, WriteResumeWrites DEF PollFires, MayDrain
  <2>5. ASSUME NEW k, NEW filter, NEW p, SendNow(k, filter, p)
        PROVE  \A w \in inflight' \ inflight : w.tag # "inject"
    BY <2>1, <2>5, WriteDispatchWrites DEF SendNow
  <2>6. ASSUME NEW c, NEW p, InjectResumeCommand(c, p)
        PROVE  \A w \in inflight' \ inflight : w.tag # "inject"
    BY <2>1, <2>6, WriteResumeWrites DEF InjectResumeCommand
  <2>7. ASSUME NEW w, NEW ok, NEW p, WriteCompletes(w, ok, p)
        PROVE  inflight' \subseteq inflight
    BY <2>7 DEF WriteCompletes, DrainsAfterDrop
  <2>8. ASSUME NEW w, NEW ok, ResumeCompletes(w, ok) PROVE inflight' \subseteq inflight
    BY <2>8 DEF ResumeCompletes
  <2>9. ASSUME NEW a, NEW p, NEW k, NEW filter,
               \/ Enqueue(a, p) \/ PollTicks(p) \/ RemoveQueued(k, filter)
               \/ ClearAll \/ ClearScope(filter) \/ Stop
        PROVE  inflight' = inflight
    BY <2>9 DEF Enqueue, PollTicks, RemoveQueued, ClearAll, ClearScope, Stop
  <2>10. CASE EscFires \/ PollTimesOut \/ SuppressNextDrain \/ OnStreamingActivated
    BY <2>1, <2>10 DEF EscFires, PollTimesOut, SuppressNextDrain, OnStreamingActivated
  <2>11. QED
    BY <2>1, <2>2, <2>3, <2>4, <2>5, <2>6, <2>7, <2>8, <2>9, <2>10 DEF Next
<1>2. QED
  BY <1>1, PTL DEF Spec, ParkedMeansNoDrain

-----------------------------------------------------------------------------
(* Single flight, as long as the viewer is not stopped *)

\* The flag is set while the one paste that can be in flight is.
OneFlight ==
  /\ inflight # {} => injecting
  /\ \A w, x \in inflight : w = x

\* A handler that found the flag down starts at most one write, and raises it.
LEMMA FirstFlight ==
  ASSUME OneFlight, ~injecting,
         \/ inflight' = inflight
         \/ \E m, tag : inflight' = inflight \cup {Write(m, tag)} /\ injecting' = TRUE
  PROVE  OneFlight'
<1>1. inflight = {}
  BY DEF OneFlight
<1>2. QED
  BY <1>1 DEF OneFlight

LEMMA InjectFlight ==
  ASSUME NEW q, NEW ft, InjectHead(q, {}, ft)
  PROVE  OneFlight'
<1>1. \/ inflight' = {}
      \/ \E m : inflight' = {Write(m, "inject")} /\ injecting' = TRUE
  BY DEF InjectHead
<1>2. QED
  BY <1>1 DEF OneFlight

LEMMA StepOneFlight ==
  ASSUME MaxStops = 0, TypeOK, OneFlight, [Next]_vars
  PROVE  OneFlight'
<1>1. CASE UNCHANGED <<injecting, inflight>>
  BY <1>1 DEF OneFlight
<1>2. ASSUME NEW q, NEW ft, ~injecting, InjectHead(q, inflight, ft) PROVE OneFlight'
  <2>1. inflight = {}
    BY <1>2 DEF OneFlight
  <2>2. QED
    BY <1>2, <2>1, InjectFlight
<1>3. ASSUME NEW q, NEW d, ~injecting, WriteDispatch(q, d) PROVE OneFlight'
  BY <1>3, FirstFlight DEF WriteDispatch
<1>4. ASSUME NEW c, ~injecting, WriteResume(c) PROVE OneFlight'
  BY <1>4, FirstFlight DEF WriteResume
<1>5. ASSUME NEW p \in Probes, RescueFires(p) PROVE OneFlight'
  BY <1>1, <1>2, <1>5 DEF RescueFires, SafeToInject
<1>6. ASSUME NEW p \in Probes, OnTurnEnd(p) PROVE OneFlight'
  BY <1>1, <1>2, <1>6 DEF OnTurnEnd, SafeToInject
<1>7. ASSUME NEW p \in Probes, PollFires(p) PROVE OneFlight'
  BY <1>1, <1>2, <1>3, <1>4, <1>7 DEF PollFires, SafeToInject
<1>8. ASSUME NEW k, NEW filter, NEW p, SendNow(k, filter, p) PROVE OneFlight'
  BY <1>1, <1>3, <1>8 DEF SendNow, SafeToInject
<1>9. ASSUME NEW c, NEW p, InjectResumeCommand(c, p) PROVE OneFlight'
  BY <1>1, <1>4, <1>9 DEF InjectResumeCommand, SlotsFree
<1>10. ASSUME NEW w \in inflight, NEW ok, NEW p, WriteCompletes(w, ok, p) PROVE OneFlight'
  <2>1. inflight \ {w} = {}
    BY DEF OneFlight
  <2>2. CASE inflight' = inflight \ {w}
    BY <2>1, <2>2 DEF OneFlight
  <2>3. ASSUME NEW ft, InjectHead(items, inflight \ {w}, ft) PROVE OneFlight'
    BY <2>1, <2>3, InjectFlight
  <2>4. QED
    BY <1>10, <2>2, <2>3 DEF WriteCompletes
<1>11. ASSUME NEW w \in inflight, NEW ok, ResumeCompletes(w, ok) PROVE OneFlight'
  <2>1. inflight' = {}
    BY <1>11 DEF ResumeCompletes, OneFlight
  <2>2. QED
    BY <2>1 DEF OneFlight
<1>12. ~Stop
  BY DEF Stop, TypeOK
<1>13. ASSUME NEW a, NEW p, NEW k, NEW filter,
              \/ Enqueue(a, p) \/ PollTicks(p) \/ RemoveQueued(k, filter)
              \/ ClearAll \/ ClearScope(filter)
       PROVE  OneFlight'
  BY <1>1, <1>13 DEF Enqueue, PollTicks, RemoveQueued, ClearAll, ClearScope
<1>14. CASE EscFires \/ PollTimesOut \/ SuppressNextDrain \/ OnStreamingActivated
  BY <1>1, <1>14 DEF EscFires, PollTimesOut, SuppressNextDrain, OnStreamingActivated
<1>15. CASE UNCHANGED vars
  BY <1>1, <1>15 DEF vars
<1>16. QED
  BY <1>5, <1>6, <1>7, <1>8, <1>9, <1>10, <1>11, <1>12, <1>13, <1>14, <1>15 DEF Next

\* Without a stop/start cycle at most one paste is in flight: the flag is tested
\* by all who start one, and clear() leaves it to the completion.
THEOREM SingleFlightHolds == ASSUME MaxStops = 0 PROVE Spec => []SingleFlight
<1>1. Init => OneFlight
  BY DEF Init, OneFlight
<1>2. TypeOK /\ OneFlight /\ [Next]_vars => OneFlight'
  BY StepOneFlight
<1>3. OneFlight => SingleFlight
  BY DEF OneFlight, SingleFlight
<1>4. QED
  BY <1>1, <1>2, <1>3, TypeCorrect, PTL DEF Spec

-----------------------------------------------------------------------------
(* The queue implements a FIFO *)

\* A message that a drain is pasting was the head when it was taken, and nothing
\* comes ahead of the head.
DrainsTakeHeads ==
  \A w \in inflight : w.tag = "inject" /\ w.gen = gen => dispatch.index = 0

Ordered == IInv /\ Arranged /\ DrainsTakeHeads

\* What clients see is, in order, what is held.
Shown ==
  /\ Snapshot \in Seq(Ids) /\ Ascending(Snapshot)
  /\ ToSet(Snapshot) = HeldIds /\ Len(Snapshot) = Outstanding

LEMMA SnapshotFact == IInv /\ Arranged => Shown
<1> SUFFICES ASSUME IInv, Arranged
             PROVE  /\ Snapshot \in Seq(Ids) /\ Ascending(Snapshot)
                    /\ ToSet(Snapshot) = HeldIds /\ Len(Snapshot) = Outstanding
  BY DEF Shown
<1>1. InPlace /\ items \in Seq(Ids) /\ Ascending(items)
  BY PlaceLemma DEF IInv, TypeOK, Arranged
<1>2. CASE dispatch = NoDispatch
  BY <1>1, <1>2 DEF Snapshot, Outstanding, InPlace
<1>3. CASE dispatch # NoDispatch
  <2>1. /\ dispatch \in Dispatches /\ dispatch.item \in Ids
        /\ Splits(items, dispatch.index, dispatch.item)
    BY <1>3, SlotFact DEF Arranged
  <2>2. Snapshot = Reinserted(items, dispatch)
    BY <1>3 DEF Snapshot
  <2>3. RestorePoint(items, dispatch) + 1 \in 1..(Len(items) + 1)
    BY <1>1, <2>1, ReinsertedLemma
  <2>4. ToSet(Snapshot) = ToSet(items) \cup {dispatch.item}
    BY <1>1, <2>1, <2>2, <2>3, InsertSet DEF Reinserted, InPlace
  <2>5. /\ Snapshot \in Seq(Ids) /\ Ascending(Snapshot) /\ Len(Snapshot) = Len(items) + 1
    BY <1>1, <2>1, <2>2, BackInPlace
  <2> QED
    BY <1>1, <1>3, <2>4, <2>5 DEF InPlace, Outstanding
<1> QED
  BY <1>2, <1>3

LEMMA SnapshotNext == IInv' /\ Arranged' => Shown'
BY SnapshotFact, PTL

\* Of two queues in order, the smaller is the larger without some of its messages.
LEMMA ThinnedFact ==
  ASSUME NEW q \in Seq(Ids), NEW r \in Seq(Ids), Ascending(q), Ascending(r),
         ToSet(r) \subseteq ToSet(q)
  PROVE  Fifo!Thinned(q, r)
<1>1. DOMAIN q = 1..Len(q) /\ DOMAIN r = 1..Len(r) /\ Len(q) \in Nat /\ Len(r) \in Nat
  OBVIOUS
<1>2. ASSUME NEW j \in DOMAIN r, NEW k \in DOMAIN r, j < k
      PROVE  \E a, b \in DOMAIN q : a < b /\ q[a] = r[j] /\ q[b] = r[k]
  <2>1. r[j] \in ToSet(q) /\ r[k] \in ToSet(q) /\ r[j] < r[k]
    BY <1>1, <1>2, ToSetLemma DEF Ascending
  <2>2. PICK a \in 1..Len(q), b \in 1..Len(q) : q[a] = r[j] /\ q[b] = r[k]
    BY <2>1, ToSetLemma
  <2>3. q[a] \in Nat /\ q[b] \in Nat
    BY <2>2, ElementType, IdsFact
  <2>4. ~(b <= a)
    <3>1. b = a => q[b] = q[a]
      OBVIOUS
    <3>2. b < a => q[b] < q[a]
      BY DEF Ascending
    <3> QED
      BY <1>1, <2>1, <2>2, <2>3, <3>1, <3>2
  <2> QED
    BY <1>1, <2>2, <2>4
<1> QED
  BY <1>2 DEF Fifo!Thinned, Fifo!ToSet, ToSet

\* The message of a write in flight was cleared, or is held: by its turn or picked.
LEMMA WriteFact ==
  ASSUME Ordered, NEW w \in inflight, w.tag # "resume"
  PROVE  /\ w.id \in Ids
         /\ \/ fate[w.id] = "cleared"
            \/ fate[w.id] = "held" /\ (Fifo!InTurn(w.id) \/ w.id \in Picked)
<1>1. w.id \in Ids /\ w \in Writes
  BY SlotLemma DEF Ordered, IInv, TypeOK
<1>2. CASE w.gen # gen
  BY <1>1, <1>2 DEF Ordered, IInv, CompletionsMatchDispatch
<1>3. CASE w.gen = gen
  <2>1. dispatch.item = w.id /\ dispatch \in Dispatches
    BY <1>1, <1>3, SlotLemma DEF Ordered, IInv, CompletionsMatchDispatch
  <2>2. fate[w.id] = "held" /\ dispatch # NoDispatch /\ items \in Seq(Ids)
    BY <2>1, DispatchPlace DEF Ordered, HeldIds
  <2>3. CASE w.tag = "send"
    BY <1>1, <2>2, <2>3 DEF Picked
  <2>4. CASE w.tag # "send"
    <3>1. w.tag = "inject"
      BY <1>1, <2>4 DEF Writes
    <3>2. dispatch.index = 0
      BY <1>3, <3>1 DEF Ordered, DrainsTakeHeads
    <3>3. RestorePoint(items, dispatch) = 0 /\ Len(items) \in Nat
      BY <2>2, <3>2 DEF RestorePoint
    <3>4. 1 \in 1..(Len(items) + 1) /\ Snapshot = Reinserted(items, dispatch)
      BY <2>2, <3>3 DEF Snapshot
    <3>5. Snapshot[1] = dispatch.item /\ Snapshot \in Seq(Ids) /\ Len(Snapshot) = Len(items) + 1
      BY <2>1, <2>2, <3>3, <3>4, ReinsertedLemma
    <3>6. Snapshot # <<>> /\ Head(Snapshot) = w.id
      BY <2>1, <3>3, <3>5
    <3> QED
      BY <1>1, <2>2, <3>6 DEF Fifo!InTurn
  <2> QED
    BY <2>3, <2>4
<1> QED
  BY <1>2, <1>3

\* What a step may do to a message that was accepted before: only the completion
\* of its paste sends it, and only while it is held does it leave.
Falls ==
  \A m \in Ids :
    \/ fate'[m] = fate[m]
    \/ fate[m] = "held" /\ fate'[m] \in {"removed", "cleared", "rejected"}
    \/ fate'[m] = "sent" /\ \E w \in inflight : w.tag # "resume" /\ w.id = m

LEMMA FailedFalls ==
  ASSUME TypeOK, NEW q, NEW d, d.item \in HeldIds,
         FailDispatch(q, d) \/ WriteDispatch(q, d) \/ Restore(q, d)
  PROVE  Falls
<1>1. fate' = fate \/ fate' = [fate EXCEPT ![d.item] = "rejected"]
  BY DEF FailDispatch, WriteDispatch, Restore, Reject
<1> QED
  BY <1>1 DEF Falls, TypeOK, HeldIds

LEMMA InjectedFalls ==
  ASSUME IInv, TypeOK', NEW fl \in SUBSET inflight, NEW ft \in [Ids -> Fates],
         NoDup(items), ToSet(items) = {m \in Ids : ft[m] = "held"},
         \A m \in Ids : ft[m] = fate[m] \/ (fate[m] = "held" /\ ft[m] = "rejected"),
         InjectHead(items, fl, ft)
  PROVE  Falls
<1>1. fl \in SUBSET Writes /\ items \in Seq(Ids) /\ TypeOK
  BY DEF IInv, TypeOK
<1>2. \A m \in Ids : fate'[m] = ft[m] \/ (ft[m] = "held" /\ fate'[m] = "rejected")
  BY <1>1, InjectHeadPlace
<1> QED
  BY <1>2 DEF Falls

LEMMA DrainedFalls ==
  ASSUME IInv, TypeOK', dispatch = NoDispatch, InjectHead(items, inflight, fate)
  PROVE  Falls
<1>1. NoDup(items) /\ ToSet(items) = {m \in Ids : fate[m] = "held"} /\ fate \in [Ids -> Fates]
  BY PlaceLemma DEF IInv, TypeOK, InPlace, HeldIds
<1> QED
  BY <1>1, InjectedFalls

LEMMA CompletedFalls ==
  ASSUME IInv, TypeOK', NEW w \in inflight, NEW ok, NEW p, WriteCompletes(w, ok, p)
  PROVE  Falls
<1>1. w.tag # "resume" /\ w.id \in Ids /\ fate \in [Ids -> Fates]
  BY SlotLemma DEF WriteCompletes, IInv, TypeOK
<1>2. StillMine(w.id, w.gen) =>
        dispatch \in Dispatches /\ dispatch.item = w.id /\ w.id \in HeldIds
  BY <1>1, SlotLemma, DispatchPlace DEF StillMine, IInv
<1>3. CASE fate' = [fate EXCEPT ![w.id] = "sent"]
  BY <1>1, <1>3 DEF Falls
<1>4. CASE fate' = fate
  BY <1>4 DEF Falls
<1>5. CASE StillMine(w.id, w.gen) /\ (Restore(items, dispatch) \/ Reject(items, dispatch))
  BY <1>1, <1>2, <1>5 DEF Restore, Reject, Falls, HeldIds
<1>6. CASE /\ StillMine(w.id, w.gen)
           /\ InjectHead(items, inflight \ {w}, [fate EXCEPT ![w.id] = "rejected"])
  <2> DEFINE ft == [fate EXCEPT ![w.id] = "rejected"]
  <2>1. /\ ft \in [Ids -> Fates]
        /\ \A m \in Ids : ft[m] = fate[m] \/ (fate[m] = "held" /\ ft[m] = "rejected")
        /\ HeldIds \ {w.id} = {m \in Ids : ft[m] = "held"}
    BY <1>1, <1>2, <1>6 DEF HeldIds, Fates
  <2>2. NoDup(items) /\ ToSet(items) = HeldIds \ {w.id}
    BY <1>2, <1>6, DispatchPlace
  <2> HIDE DEF ft
  <2>3. InjectHead(items, inflight \ {w}, ft)
    BY <1>6 DEF ft
  <2> QED
    BY <2>1, <2>2, <2>3, InjectedFalls
<1> QED
  BY <1>3, <1>4, <1>5, <1>6 DEF WriteCompletes

LEMMA StepFalls ==
  ASSUME IInv, TypeOK', Next, accepted' = accepted
  PROVE  Falls
<1>0. TypeOK /\ fate \in [Ids -> Fates] /\ Held = HeldIds /\ items \in Seq(Ids)
  BY DEF IInv, TypeOK, EachMessageInOnePlace, HeldIds
<1>1. CASE fate' = fate
  BY <1>1 DEF Falls
<1>2. \A k \in DOMAIN items : items[k] \in Queued /\ items[k] \in HeldIds
  BY <1>0, ToSetLemma DEF Held, Queued
<1>3. ASSUME NEW p \in Probes, RescueFires(p) \/ OnTurnEnd(p) PROVE Falls
  BY <1>1, <1>3, DrainedFalls DEF RescueFires, OnTurnEnd, MayDrain, SlotsFree
<1>4. ASSUME NEW p \in Probes, PollFires(p) PROVE Falls
  <2>1. CASE MayDrain /\ InjectHead(items, inflight, fate)
    BY <2>1, DrainedFalls DEF MayDrain
  <2>2. CASE pollTimer.kind = "send" /\ WriteDispatch(items, dispatch)
    <3>1. dispatch \in Dispatches
      BY <1>4, <2>2, PollOwner DEF PollFires
    <3> QED
      BY <1>0, <2>2, <3>1, DispatchPlace, FailedFalls
  <2> QED
    BY <1>1, <1>4, <2>1, <2>2 DEF PollFires, WriteResume
<1>5. CASE EscFires \/ PollTimesOut
  <2>1. CASE fate' # fate
    <3>1. dispatch.item \in Ids
      <4>1. escTimer # NoEsc => escTimer.item \in Ids
        BY <1>0 DEF TypeOK, Escs
      <4>2. pollTimer.kind = "send" => pollTimer.id \in Ids
        BY <1>0 DEF TypeOK, Polls, NoPoll
      <4> QED
        BY <1>5, <2>1, <4>1, <4>2 DEF EscFires, PollTimesOut, StillMine
    <3>2. dispatch.item \in HeldIds
      BY <1>0, <3>1, SlotLemma, DispatchPlace
    <3> QED
      BY <1>0, <1>1, <1>5, <3>2, FailedFalls DEF EscFires, PollTimesOut
  <2> QED
    BY <1>1, <2>1
<1>6. ASSUME NEW k \in DOMAIN items, NEW filter, RemoveQueued(k, filter) PROVE Falls
  BY <1>0, <1>2, <1>6 DEF RemoveQueued, Falls, HeldIds
<1>7. CASE ClearAll \/ Stop
  BY <1>0, <1>7 DEF ClearAll, Stop, Falls, HeldIds
<1>8. ASSUME NEW filter, ClearScope(filter) PROVE Falls
  BY <1>0, <1>8 DEF ClearScope, Falls, HeldIds
<1>9. ASSUME NEW k \in DOMAIN items, NEW filter, NEW p, SendNow(k, filter, p) PROVE Falls
  <2> DEFINE d == [item |-> items[k], index |-> k - 1]
             q == RemoveAt(items, k)
  <2>1. fate' = fate \/ FailDispatch(q, d) \/ WriteDispatch(q, d)
    BY <1>9 DEF SendNow
  <2>2. d.item \in HeldIds
    BY <1>2
  <2> HIDE DEF d, q
  <2> QED
    BY <1>0, <1>1, <2>1, <2>2, FailedFalls
<1>10. ASSUME NEW w \in inflight, NEW ok, NEW p, WriteCompletes(w, ok, p) PROVE Falls
  BY <1>10, CompletedFalls
<1>11. ASSUME NEW p, NEW w, NEW ok, NEW c,
              \/ PollTicks(p) \/ ResumeCompletes(w, ok) \/ SuppressNextDrain
              \/ OnStreamingActivated \/ InjectResumeCommand(c, p)
       PROVE  Falls
  BY <1>1, <1>11 DEF PollTicks, ResumeCompletes, SuppressNextDrain, OnStreamingActivated,
                     InjectResumeCommand, WriteResume
<1>12. ASSUME NEW a, NEW p, Enqueue(a, p) PROVE FALSE
  BY <1>0, <1>12 DEF Enqueue, TypeOK
<1> QED
  BY <1>3, <1>4, <1>5, <1>6, <1>7, <1>8, <1>9, <1>10, <1>11, <1>12 DEF Next

\* Which pastes start: of picked messages that were held, and of heads.
Takes ==
  /\ DrainsTakeHeads'
  /\ \A w \in inflight' \ inflight : w.tag = "send" => w.id \in HeldIds

\* No drain starts, and the place of a head is not moved.
LEMMA PlaceKept ==
  ASSUME DrainsTakeHeads, gen' = gen, dispatch.index = 0 => dispatch'.index = 0,
         \A w \in inflight' \ inflight : w.tag = "resume" \/ (w.tag = "send" /\ w.id \in HeldIds)
  PROVE  Takes
BY DEF Takes, DrainsTakeHeads

\* What is dispatched now, if anything, is a head.
LEMMA HeadTaken ==
  ASSUME dispatch'.index = 0,
         \A w \in inflight' \ inflight : w.tag = "send" => w.id \in HeldIds
  PROVE  Takes
BY DEF Takes, DrainsTakeHeads

LEMMA InjectTakes ==
  ASSUME NEW q, NEW ft, NEW fl \in SUBSET inflight, InjectHead(q, fl, ft)
  PROVE  Takes
<1>1. \/ dispatch' = NoDispatch /\ inflight' = fl
      \/ \E m : /\ dispatch' = [item |-> m, index |-> 0]
                /\ inflight' = fl \cup {Write(m, "inject")}
  BY DEF InjectHead
<1>2. NoDispatch.index = 0 /\ \A m : [item |-> m, index |-> 0].index = 0
  BY DEF NoDispatch
<1>3. \A m : Write(m, "inject").tag = "inject"
  BY DEF Write
<1>4. dispatch'.index = 0 /\ \A w \in inflight' \ inflight : w.tag = "inject"
  BY <1>1, <1>2, <1>3
<1> QED
  BY <1>4, HeadTaken

LEMMA WriteDispatchStarts ==
  ASSUME NEW q, NEW d, d.item \in HeldIds, WriteDispatch(q, d)
  PROVE  \A w \in inflight' \ inflight : w.tag = "send" /\ w.id \in HeldIds
<1>1. inflight' = inflight \/ inflight' = inflight \cup {Write(d.item, "send")}
  BY DEF WriteDispatch
<1>2. Write(d.item, "send").tag = "send" /\ Write(d.item, "send").id = d.item
  BY DEF Write
<1> QED
  BY <1>1, <1>2

LEMMA StepTakes ==
  ASSUME IInv, DrainsTakeHeads, Next
  PROVE  Takes
<1>0. TypeOK /\ Held = HeldIds /\ items \in Seq(Ids) /\ NoDispatch.index = 0
  BY DEF IInv, TypeOK, EachMessageInOnePlace, HeldIds, NoDispatch
<1>1. CASE inflight' \subseteq inflight /\ dispatch' \in {dispatch, NoDispatch} /\ gen' = gen
  BY <1>0, <1>1, PlaceKept
<1>2. CASE inflight' \subseteq inflight /\ dispatch' = NoDispatch
  BY <1>0, <1>2, HeadTaken
<1>3. ASSUME NEW p \in Probes, RescueFires(p) \/ OnTurnEnd(p) PROVE Takes
  BY <1>1, <1>3, InjectTakes DEF RescueFires, OnTurnEnd
<1>4. ASSUME NEW p \in Probes, PollFires(p) PROVE Takes
  <2>1. gen' = gen
    BY <1>4 DEF PollFires
  <2>2. CASE InjectHead(items, inflight, fate)
    BY <2>2, InjectTakes
  <2>3. CASE pollTimer.kind = "send" /\ WriteDispatch(items, dispatch)
    <3>1. dispatch \in Dispatches
      BY <1>4, <2>3, PollOwner DEF PollFires
    <3>2. dispatch.item \in HeldIds
      BY <3>1, DispatchPlace
    <3>3. \A w \in inflight' \ inflight : w.tag = "send" /\ w.id \in HeldIds
      BY <2>3, <3>2, WriteDispatchStarts
    <3>4. dispatch' \in {dispatch, NoDispatch}
      BY <2>3 DEF WriteDispatch, FailDispatch, Restore, Reject
    <3> QED
      BY <1>0, <2>1, <3>3, <3>4, PlaceKept
  <2>4. CASE WriteResume(pollTimer.id)
    <3>1. dispatch' = dispatch /\ \A w \in inflight' \ inflight : w.tag = "resume"
      BY <2>4, WriteResumeWrites DEF WriteResume
    <3> QED
      BY <2>1, <3>1, PlaceKept
  <2> QED
    BY <1>1, <1>4, <2>1, <2>2, <2>3, <2>4 DEF PollFires
<1>5. CASE EscFires \/ PollTimesOut
  BY <1>1, <1>5 DEF EscFires, PollTimesOut, FailDispatch, Restore, Reject
<1>6. ASSUME NEW k \in DOMAIN items, NEW filter, RemoveQueued(k, filter) PROVE Takes
  <2>1. dispatch' = Shifted(k) /\ inflight' = inflight /\ gen' = gen /\ k >= 1
    BY <1>0, <1>6 DEF RemoveQueued
  <2>2. dispatch.index = 0 => dispatch'.index = 0
    BY <1>0, <2>1 DEF Shifted
  <2> QED
    BY <2>1, <2>2, PlaceKept
<1>7. CASE ClearAll \/ Stop
  BY <1>2, <1>7 DEF ClearAll, Stop
<1>8. ASSUME NEW filter, ClearScope(filter) PROVE Takes
  <2> DEFINE kept == {k \in DOMAIN items : ~MatchesScope(anchor[items[k]].scope, filter)}
             ahead == {k \in DOMAIN items \ kept : k - 1 < dispatch.index}
  <2>1. /\ inflight' = inflight
        /\ \/ dispatch' = NoDispatch
           \/ gen' = gen /\ dispatch' = [dispatch EXCEPT !.index = @ - Cardinality(ahead)]
    BY <1>8 DEF ClearScope
  <2>2. dispatch.index = 0 => ahead = {}
    BY <1>0
  <2>3. dispatch.index = 0 => Cardinality(ahead) = 0
    BY <2>2, FS_EmptySet
  <2> HIDE DEF ahead, kept
  <2>4. CASE gen' = gen /\ dispatch' = [dispatch EXCEPT !.index = @ - Cardinality(ahead)]
    <3>1. \E i, m : dispatch = [item |-> m, index |-> i]
      BY <1>0 DEF TypeOK, Slots, Dispatches, NoDispatch
    <3>2. dispatch.index = 0 => dispatch'.index = 0
      BY <2>3, <2>4, <3>1
    <3> QED
      BY <2>1, <2>4, <3>2, PlaceKept
  <2> QED
    BY <1>2, <2>1, <2>4
<1>9. ASSUME NEW k \in DOMAIN items, NEW filter, NEW p, SendNow(k, filter, p) PROVE Takes
  <2> DEFINE d == [item |-> items[k], index |-> k - 1]
             q == RemoveAt(items, k)
  <2>1. /\ inflight' = inflight \/ WriteDispatch(q, d)
        /\ dispatch = NoDispatch /\ gen' = gen
    BY <1>9 DEF SendNow, SlotsFree
  <2>2. d.item \in HeldIds
    BY <1>0, ToSetLemma DEF Held, Queued
  <2> HIDE DEF d, q
  <2>3. \A w \in inflight' \ inflight : w.tag = "send" /\ w.id \in HeldIds
    BY <2>1, <2>2, WriteDispatchStarts
  <2>4. \A w \in inflight : w.tag = "inject" => w.gen # gen
    BY <2>1, NoWriteWithoutDispatch DEF IInv
  <2> QED
    BY <2>1, <2>3, <2>4 DEF Takes, DrainsTakeHeads
<1>10. ASSUME NEW w \in inflight, NEW ok, NEW p, WriteCompletes(w, ok, p) PROVE Takes
  <2>1. CASE InjectHead(items, inflight \ {w}, [fate EXCEPT ![w.id] = "rejected"])
    BY <2>1, InjectTakes
  <2>2. gen' = gen
    BY <1>10 DEF WriteCompletes
  <2> QED
    BY <1>1, <1>10, <2>1, <2>2 DEF WriteCompletes, Restore, Reject
<1>11. ASSUME NEW c, NEW p, InjectResumeCommand(c, p) PROVE Takes
  <2>1. gen' = gen /\ dispatch' = dispatch
    BY <1>11 DEF InjectResumeCommand, WriteResume
  <2>2. CASE WriteResume(c)
    <3>1. \A w \in inflight' \ inflight : w.tag = "resume"
      BY <2>2, WriteResumeWrites
    <3> QED
      BY <2>1, <3>1, PlaceKept
  <2> QED
    BY <1>1, <1>11, <2>1, <2>2 DEF InjectResumeCommand
<1>12. ASSUME NEW a, NEW p, NEW w, NEW ok,
              \/ Enqueue(a, p) \/ PollTicks(p) \/ ResumeCompletes(w, ok)
              \/ SuppressNextDrain \/ OnStreamingActivated
       PROVE  Takes
  BY <1>1, <1>12 DEF Enqueue, PollTicks, ResumeCompletes, SuppressNextDrain, OnStreamingActivated
<1> QED
  BY <1>3, <1>4, <1>5, <1>6, <1>7, <1>8, <1>9, <1>10, <1>11, <1>12 DEF Next

\* An accepted message goes to the end of what clients see, dispatch or not.
LEMMA EnqueuedAtEnd ==
  ASSUME IInv, Arranged, NEW a, NEW p, Enqueue(a, p)
  PROVE  Snapshot' = Append(Snapshot, accepted + 1)
<1>1. /\ items' = Append(items, accepted + 1) /\ dispatch' = dispatch
      /\ accepted + 1 \in Ids /\ items \in Seq(Ids)
  BY BoundsAssumption DEF Enqueue, IInv, TypeOK, Ids
<1>2. CASE dispatch = NoDispatch
  BY <1>1, <1>2 DEF Snapshot
<1>3. CASE dispatch # NoDispatch
  <2> DEFINE q == Append(items, accepted + 1)
             r == Reinserted(items, dispatch)
             s == Append(r, accepted + 1)
             t == Reinserted(q, dispatch)
  <2>0. PICK i, n : i = dispatch.index /\ n = Len(items)
    OBVIOUS
  <2>1. /\ dispatch \in Dispatches /\ i \in 0..n /\ n \in Nat /\ n = Len(items)
        /\ dispatch.item \in Ids
    BY <1>3, <2>0, SlotFact DEF Arranged, Splits
  <2>2. /\ q \in Seq(Ids) /\ Len(q) = n + 1 /\ q[n + 1] = accepted + 1
        /\ \A j \in 1..n : q[j] = items[j]
    BY <1>1, <2>1, AppendProperties
  <2>3. RestorePoint(items, dispatch) = i /\ RestorePoint(q, dispatch) = i
    BY <2>0, <2>1, <2>2 DEF RestorePoint
  <2> HIDE DEF q
  <2>4. /\ r \in Seq(Ids) /\ Len(r) = n + 1
        /\ \A j \in 1..(n + 1) :
             r[j] = IF j < i + 1 THEN items[j] ELSE IF j = i + 1 THEN dispatch.item ELSE items[j - 1]
    BY <1>1, <2>1, <2>3, ReinsertedLemma
  <2>5. /\ t \in Seq(Ids) /\ Len(t) = n + 2
        /\ \A j \in 1..(n + 2) :
             t[j] =
               IF j < i + 1 THEN q[j] ELSE IF j = i + 1 THEN dispatch.item ELSE q[j - 1]
    BY <2>1, <2>2, <2>3, ReinsertedLemma
  <2> HIDE DEF r
  <2>6. /\ s \in Seq(Ids) /\ Len(s) = n + 2
        /\ \A j \in 1..(n + 1) : s[j] = r[j]
        /\ s[n + 2] = accepted + 1
    BY <1>1, <2>1, <2>4, AppendProperties
  <2> HIDE DEF s, t
  <2>7. ASSUME NEW j \in 1..(n + 2)
        PROVE  t[j] = s[j]
    <3>1. CASE j < i + 1
      BY <2>1, <2>2, <2>4, <2>5, <2>6, <3>1
    <3>2. CASE j = i + 1
      BY <2>1, <2>4, <2>5, <2>6, <3>2
    <3>3. CASE j > i + 1 /\ j <= n + 1
      <4>1. j - 1 \in 1..n /\ j \in 1..(n + 1)
        BY <2>1, <3>3
      <4>2. ~(j < i + 1) /\ j # i + 1 /\ j \in 1..(n + 2)
        BY <2>1, <3>3
      <4>3. t[j] = q[j - 1]
        BY <2>5, <4>2
      <4>4. q[j - 1] = items[j - 1]
        BY <2>2, <4>1
      <4>5. r[j] = items[j - 1]
        BY <2>4, <4>1, <4>2
      <4>6. s[j] = r[j]
        BY <2>6, <4>1
      <4> QED
        BY <4>3, <4>4, <4>5, <4>6
    <3>4. CASE j = n + 2
      <4>1. j - 1 = n + 1 /\ ~(j < i + 1) /\ j # i + 1
        BY <2>1, <3>4
      <4> QED
        BY <2>2, <2>5, <2>6, <3>4, <4>1
    <3> QED
      BY <2>1, <3>1, <3>2, <3>3, <3>4
  <2>8. t = s
    BY <2>5, <2>6, <2>7, SeqEqual
  <2> QED
    BY <1>1, <1>3, <2>8 DEF Snapshot, q, r, s, t
<1> QED
  BY <1>2, <1>3

LEMMA AcceptImplements ==
  ASSUME Ordered, Ordered', NEW a, NEW p, Enqueue(a, p)
  PROVE  Fifo!Next
<1> DEFINE m == accepted + 1
<1>1. /\ m \in Ids /\ fate' = [fate EXCEPT ![m] = "held"] /\ Outstanding < MaxItems
      /\ inflight' = inflight /\ accepted \in Nat
  BY BoundsAssumption DEF Ordered, Enqueue, IInv, TypeOK, Ids
<1>2. fate[m] = "new" /\ \A n \in Ids : n < m => fate[n] # "new"
  BY <1>1, IdsFact DEF Ordered, IInv, Numbered
<1>3. Snapshot' = Append(Snapshot, m)
  BY EnqueuedAtEnd DEF Ordered
<1>4. Len(Snapshot) < MaxItems
  BY <1>1, SnapshotFact DEF Ordered, Shown
<1>5. Picked' = Picked
  BY <1>1 DEF Picked
<1> HIDE DEF m
<1>6. Fifo!Accept(m)
  BY <1>1, <1>2, <1>3, <1>4, <1>5 DEF Fifo!Accept
<1> QED
  BY <1>1, <1>6 DEF Fifo!Next

LEMMA LeaveImplements ==
  ASSUME Ordered, Ordered', Next, accepted' = accepted
  PROVE  Fifo!Next
<1>1. Shown /\ Shown'
  BY SnapshotFact, SnapshotNext DEF Ordered
<1>2. Falls /\ Takes
  BY StepFalls, StepTakes DEF Ordered, IInv
<1>3. fate \in [Ids -> Fates] /\ fate' \in [Ids -> Fates]
  BY DEF Ordered, IInv, TypeOK
<1>4. Fates = Fifo!Reasons \cup {"new", "held"}
  BY DEF Fates, Fifo!Reasons
<1>5. ToSet(Snapshot) = HeldIds /\ ToSet(Snapshot') = HeldIds'
  BY <1>1 DEF Shown
<1>6. ASSUME NEW m \in Ids, \E w \in inflight : w.tag # "resume" /\ w.id = m
      PROVE  fate[m] = "cleared" \/ (fate[m] = "held" /\ (Fifo!InTurn(m) \/ m \in Picked))
  BY <1>6, WriteFact
<1>7. HeldIds' \subseteq HeldIds
  BY <1>2, <1>3 DEF HeldIds, Falls
<1>8. Fifo!Thinned(Snapshot, Snapshot')
  BY <1>1, <1>5, <1>7, ThinnedFact DEF Shown
<1>9. ASSUME NEW m \in Ids
      PROVE  IF m \in HeldIds \ HeldIds'
             THEN /\ fate'[m] \in Fifo!Reasons
                  /\ fate'[m] = "sent" => Fifo!InTurn(m) \/ m \in Picked
             ELSE fate'[m] = fate[m] \/ Fifo!SentAfterAll(m)
  <2>1. CASE m \in HeldIds \ HeldIds'
    BY <1>2, <1>6, <2>1 DEF HeldIds, Falls, Fifo!Reasons
  <2>2. CASE m \notin HeldIds \ HeldIds'
    BY <1>2, <1>6, <2>2 DEF HeldIds, Falls, Fifo!SentAfterAll
  <2> QED
    BY <2>1, <2>2
<1>10. Picked' \subseteq Picked \cup HeldIds
  BY <1>2 DEF Takes, Picked
<1>11. Fifo!Leave
  BY <1>3, <1>4, <1>5, <1>8, <1>9, <1>10 DEF Fifo!Leave, Fifo!ToSet, ToSet
<1> QED
  BY <1>11 DEF Fifo!Next

LEMMA StepOrdered == Ordered /\ [Next]_vars => Ordered'
<1> SUFFICES ASSUME Ordered, [Next]_vars PROVE Ordered'
  OBVIOUS
<1>1. IInv' /\ Arranged'
  BY StepSafe, StepArranged DEF Ordered
<1>2. CASE Next
  BY <1>1, <1>2, StepTakes DEF Ordered, Takes
<1>3. CASE UNCHANGED vars
  BY <1>1, <1>3 DEF Ordered, DrainsTakeHeads, vars
<1> QED
  BY <1>2, <1>3

\* The queue with its splices, slot, timers and late completions is a FIFO: each
\* step accepts one message at the end, or lets messages go that are sent in
\* their turn, picked, removed, cleared or rejected.
THEOREM ImplementsFifoHolds == Spec => ImplementsFifo
<1>1. Init => Ordered
  <2>1. Init => IInv
    BY InitSafe
  <2>2. Init => Arranged /\ DrainsTakeHeads
    BY BoundsAssumption DEF Init, Arranged, Ascending, Outstanding, DrainsTakeHeads
  <2> QED
    BY <2>1, <2>2 DEF Ordered
<1>2. Init => Fifo!Init
  BY DEF Init, Fifo!Init, Snapshot, Picked
<1>3. Ordered /\ Ordered' /\ [Next]_vars => [Fifo!Next]_(Fifo!fifoVars)
  <2> SUFFICES ASSUME Ordered, Ordered', [Next]_vars PROVE [Fifo!Next]_(Fifo!fifoVars)
    OBVIOUS
  <2>1. CASE Next /\ accepted' = accepted
    BY <2>1, LeaveImplements
  <2>2. CASE Next /\ accepted' # accepted
    <3>1. \E a, p : Enqueue(a, p)
      BY <2>2 DEF Next, RescueFires, PollTicks, PollFires, OnTurnEnd, RemoveQueued, ClearAll,
                  ClearScope, SendNow, EscFires, PollTimesOut, ResumeCompletes, WriteCompletes,
                  SuppressNextDrain, OnStreamingActivated, Stop, InjectResumeCommand
    <3> QED
      BY <3>1, AcceptImplements
  <2>3. CASE UNCHANGED vars
    BY <2>3 DEF vars, Fifo!fifoVars, Snapshot, Picked
  <2> QED
    BY <2>1, <2>2, <2>3
<1> QED
  BY <1>1, <1>2, <1>3, StepOrdered, PTL DEF Spec, ImplementsFifo, Fifo!Spec
-----------------------------------------------------------------------------
(* A dispatch only goes forward *)

\* While message m is dispatched, a timer that runs is its owner.
LEMMA OwnersOf ==
  ASSUME IInv, NEW m \in Ids, dispatch.item = m
  PROVE  /\ dispatch \in Dispatches /\ dispatch # NoDispatch
         /\ fate[m] = "held" /\ items \in Seq(Ids) /\ m \notin ToSet(items)
         /\ escTimer # NoEsc => EscOwns /\ DispatchRank = MaxTicks + 3
         /\ pollTimer # NoPoll =>
              /\ escTimer = NoEsc /\ PollOwns
              /\ DispatchRank = MaxTicks + 2 - pollTimer.ticks
<1>1. dispatch \in Dispatches /\ dispatch # NoDispatch
  BY SlotLemma, IdsFact DEF IInv
<1>2. fate[m] = "held" /\ items \in Seq(Ids) /\ m \notin ToSet(items)
  BY <1>1, DispatchPlace DEF HeldIds
<1>3. ASSUME escTimer # NoEsc PROVE EscOwns /\ DispatchRank = MaxTicks + 3
  BY <1>1, <1>3 DEF IInv, DispatchHasOneOwner, DispatchRank
<1>4. ASSUME pollTimer # NoPoll
      PROVE  escTimer = NoEsc /\ PollOwns /\ DispatchRank = MaxTicks + 2 - pollTimer.ticks
  <2>1. escTimer = NoEsc /\ PollOwns
    BY <1>1, <1>4 DEF IInv, DispatchHasOneOwner
  <2>2. ~EscOwns
    BY <1>1, <2>1, IdsFact DEF EscOwns, NoEsc
  <2> QED
    BY <1>1, <2>1, <2>2 DEF DispatchRank
<1> QED
  BY <1>1, <1>2, <1>3, <1>4

\* The dispatched message is held.
DispatchedHeld == \A m \in Ids : dispatch.item = m => fate[m] = "held"

LEMMA DispatchedHeldFact == IInv => DispatchedHeld
BY OwnersOf DEF DispatchedHeld

LEMMA DispatchedHeldNext == IInv' => DispatchedHeld'
BY DispatchedHeldFact, PTL

\* A failed dispatch leaves the slot, and so does one that was drained past.
LEMMA FailedLeaves ==
  ASSUME NEW q, NEW d, FailDispatch(q, d) \/ Restore(q, d) \/ Reject(q, d)
  PROVE  dispatch' = NoDispatch
BY DEF FailDispatch, Restore, Reject

LEMMA EscAdvances ==
  ASSUME IInv, NEW m \in Ids, dispatch.item = m, dispatch'.item = m, EscFires
  PROVE  DispatchRank' < DispatchRank
<1>1. /\ EscOwns /\ DispatchRank = MaxTicks + 3 /\ dispatch # NoDispatch
      /\ escTimer' = NoEsc /\ gen' = gen
  BY OwnersOf DEF EscFires
<1>2. ~(dispatch' = NoDispatch)
  BY IdsFact DEF NoDispatch
<1>3. StillMine(escTimer.item, escTimer.gen) /\ escTimer.item = m
  BY <1>1 DEF EscOwns, StillMine
<1>4. StartPoll("send", m) /\ dispatch' = dispatch
  BY <1>2, <1>3, FailedLeaves DEF EscFires
<1>5. ~EscOwns'
  BY <1>1, IdsFact DEF EscOwns, NoEsc
<1>6. PollOwns' /\ pollTimer'.ticks = 0
  BY <1>1, <1>4 DEF PollOwns, StillMine, StartPoll
<1>7. DispatchRank' = MaxTicks + 2 - 0
  BY <1>1, <1>4, <1>5, <1>6 DEF DispatchRank
<1> QED
  BY <1>1, <1>7, BoundsAssumption

LEMMA PollAdvances ==
  ASSUME IInv, NEW m \in Ids, dispatch.item = m, dispatch'.item = m, NEW p,
         PollTicks(p) \/ PollFires(p) \/ PollTimesOut
  PROVE  DispatchRank' < DispatchRank
<1>1. pollTimer # NoPoll
  BY DEF PollTicks, PollFires, PollTimesOut
<1>2. /\ escTimer = NoEsc /\ PollOwns /\ DispatchRank = MaxTicks + 2 - pollTimer.ticks
      /\ pollTimer.kind = "send" /\ StillMine(pollTimer.id, pollTimer.gen)
      /\ dispatch # NoDispatch
  BY <1>1, OwnersOf DEF PollOwns
<1>3. pollTimer \in Polls /\ pollTimer.ticks \in Nat
  BY <1>1 DEF IInv, TypeOK, Polls
<1>4. ~(dispatch' = NoDispatch)
  BY IdsFact DEF NoDispatch
<1>5. ~EscOwns'
  BY <1>2, IdsFact DEF EscOwns, NoEsc, PollTicks, PollFires, PollTimesOut
<1>6. ~PollTimesOut
  BY <1>2, <1>4, FailedLeaves DEF PollTimesOut
<1>7. CASE PollTicks(p)
  <2>1. /\ dispatch' = dispatch /\ gen' = gen
        /\ pollTimer' = [pollTimer EXCEPT !.ticks = pollTimer.ticks + 1]
    BY <1>7 DEF PollTicks
  <2>2. pollTimer'.ticks = pollTimer.ticks + 1 /\ PollOwns'
    BY <1>2, <1>3, <2>1 DEF PollOwns, StillMine, Polls
  <2>3. DispatchRank' = MaxTicks + 2 - (pollTimer.ticks + 1)
    BY <1>2, <1>5, <2>1, <2>2 DEF DispatchRank
  <2> QED
    BY <1>2, <1>3, <2>3, BoundsAssumption
<1>8. CASE PollFires(p)
  <2>1. WriteDispatch(items, dispatch) /\ pollTimer' = NoPoll /\ gen' = gen
        /\ pollTimer.ticks < MaxTicks
    BY <1>2, <1>8 DEF PollFires
  <2>2. dispatch' = dispatch /\ Write(m, "send") \in inflight'
    BY <1>4, <2>1, FailedLeaves DEF WriteDispatch
  <2>3. WriteOwns'
    BY <2>1, <2>2 DEF WriteOwns, StillMine, Write
  <2>4. ~PollOwns'
    BY <2>1 DEF PollOwns, NoPoll
  <2>5. DispatchRank' = 1
    BY <1>2, <1>5, <2>2, <2>3, <2>4 DEF DispatchRank
  <2> QED
    BY <1>2, <1>3, <2>1, <2>5, BoundsAssumption
<1> QED
  BY <1>6, <1>7, <1>8

LEMMA CompletionAdvances ==
  ASSUME IInv, IInv', NEW m \in Ids, dispatch.item = m, dispatch'.item = m,
         NEW w \in inflight, NEW ok, NEW p, WriteCompletes(w, ok, p)
  PROVE  UNCHANGED <<gen, escTimer, pollTimer, WritesOf(m)>>
<1>1. UNCHANGED <<gen, escTimer, pollTimer>> /\ w.tag # "resume"
  BY DEF WriteCompletes, timers
<1>2. ~(dispatch' = NoDispatch)
  BY IdsFact DEF NoDispatch
<1>3. ~StillMine(w.id, w.gen)
  <2> SUFFICES ASSUME StillMine(w.id, w.gen) PROVE FALSE
    OBVIOUS
  <2>1. w.id = m /\ fate \in [Ids -> Fates]
    BY DEF StillMine, IInv, TypeOK
  <2>2. InjectHead(items, inflight \ {w}, [fate EXCEPT ![m] = "rejected"])
    BY <1>2, <2>1, FailedLeaves DEF WriteCompletes
  <2>3. PICK n \in 0..Len(items) :
          fate' = [i \in Ids |-> IF \E j \in 1..n : items[j] = i THEN "rejected"
                                 ELSE [fate EXCEPT ![m] = "rejected"][i]]
    BY <2>2 DEF InjectHead
  <2>4. fate'[m] = "rejected"
    BY <2>1, <2>3
  <2>5. fate'[m] = "held"
    BY DispatchedHeldNext DEF DispatchedHeld
  <2> QED
    BY <2>4, <2>5
<1>4. inflight' = inflight \ {w}
  BY <1>3 DEF WriteCompletes
<1>5. w.id # m
  <2> SUFFICES ASSUME w.id = m PROVE FALSE
    OBVIOUS
  <2>1. w.gen # gen
    BY <1>3 DEF StillMine
  <2>2. fate[m] = "cleared"
    BY <1>1, <2>1 DEF IInv, CompletionsMatchDispatch
  <2> QED
    BY <2>2, OwnersOf
<1> QED
  BY <1>1, <1>4, <1>5 DEF WritesOf

\* Each of its own events brings a dispatch nearer to its end, and no other event
\* touches what will end it.
LEMMA StepAdvances == IInv /\ IInv' /\ [Next]_vars => [DispatchAdvances]_vars
<1> SUFFICES ASSUME IInv, IInv', Next, NEW m \in Ids, dispatch.item = m, dispatch'.item = m
             PROVE  \/ DispatchRank' < DispatchRank
                    \/ UNCHANGED <<gen, escTimer, pollTimer, WritesOf(m)>>
  BY DEF DispatchAdvances
<1>1. dispatch # NoDispatch /\ ~(dispatch' = NoDispatch)
  BY IdsFact DEF NoDispatch
<1>2. CASE EscFires
  BY <1>2, EscAdvances
<1>3. ASSUME NEW p, PollTicks(p) \/ PollFires(p) \/ PollTimesOut
      PROVE  DispatchRank' < DispatchRank
  BY <1>3, PollAdvances
<1>4. ASSUME NEW w \in inflight, NEW ok, NEW p, WriteCompletes(w, ok, p)
      PROVE  UNCHANGED <<gen, escTimer, pollTimer, WritesOf(m)>>
  BY <1>4, CompletionAdvances
<1>5. CASE UNCHANGED <<gen, escTimer, pollTimer, inflight>>
  BY <1>5 DEF WritesOf
<1>6. ASSUME NEW w, NEW ok, ResumeCompletes(w, ok)
      PROVE  UNCHANGED <<gen, escTimer, pollTimer, WritesOf(m)>>
  BY <1>6 DEF ResumeCompletes, WritesOf, timers
<1>7. ASSUME NEW a, NEW p, NEW k, NEW filter, NEW c,
             \/ Enqueue(a, p) \/ RescueFires(p) \/ RemoveQueued(k, filter)
             \/ ClearScope(filter) \/ SuppressNextDrain \/ OnStreamingActivated
             \/ InjectResumeCommand(c, p)
      PROVE  UNCHANGED <<gen, escTimer, pollTimer, inflight>>
  BY <1>1, <1>7 DEF Enqueue, RescueFires, RemoveQueued, ClearScope, SuppressNextDrain,
     OnStreamingActivated, InjectResumeCommand, MayDrain, SlotsFree, timers
<1>8. ASSUME NEW p, NEW k, NEW filter,
             SendNow(k, filter, p) \/ OnTurnEnd(p) \/ ClearAll \/ Stop
      PROVE  FALSE
  BY <1>1, <1>8 DEF SendNow, OnTurnEnd, ClearAll, Stop, SlotsFree
<1> QED
  BY <1>2, <1>3, <1>4, <1>5, <1>6, <1>7, <1>8 DEF Next

\* A dispatch ends after a fixed number of events of its own, whatever else
\* happens: its ESC, its poll's ticks, its write.
THEOREM DispatchOnlyAdvancesHolds == Spec => DispatchOnlyAdvances
BY InvariantHolds, StepAdvances, PTL DEF Spec, DispatchOnlyAdvances
=============================================================================
