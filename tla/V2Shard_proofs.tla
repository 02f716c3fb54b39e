---------------------------- MODULE V2Shard_proofs ----------------------------
(***************************************************************************)
(* Proofs about V2Shard: numbers are given in the order of arrival, the    *)
(* lines of a request stay in one shard, the in-flight counts are those of *)
(* the open requests, an armed cut is never forgotten, and the markers of  *)
(* the cuts send readers to the right shard.                               *)
(*                                                                         *)
(* The thread through all of it is Trace: what has a line or a handle came *)
(* before what is still to be logged, and its number is no greater than the*)
(* one the journal in memory, or the seed of the next one, goes on after,  *)
(* unless that seed could not see its line.                                *)
(***************************************************************************)
EXTENDS V2Shard, FifoLemmas

Kinds == {"req", "resp", "done"}

\* A request that left something behind: a line, or a handle in memory.
Has(r, t) == <<r, t>> \in queue \cup disk
InMemory(r) == r \in handle \/ r \in ToSet(late) \/ r \in counted
Trace(r) == InMemory(r) \/ \E t \in Kinds : Has(r, t)

\* A request that may have lines still to come.
Queued(r) == \E t \in Kinds : <<r, t>> \in queue
MayWrite(r) == r \in Open \/ Queued(r)

\* Requests are sent one after the other; what is held came after all that left
\* a trace.
Arrivals ==
  /\ \A r, x \in Reqs : x < r /\ r \in Sent => x \in Sent
  /\ \A r \in Reqs : Trace(r) => r \in Sent
  /\ \A i \in DOMAIN pending : /\ pending[i] \in Sent
                               /\ \A x \in Reqs : Trace(x) => x < pending[i]
  /\ \A i, k \in DOMAIN pending : i < k => pending[i] < pending[k]
  /\ known => pending = <<>>

\* Handles and cuts are of session objects that were made.
Objs ==
  /\ bound => made > 0
  /\ queue # {} => draining
  /\ armed \subseteq 1..made
  /\ \A r \in Reqs : InMemory(r) => objOf[r] \in 1..made

\* The newest journal counts on from all that it or its seed has seen.
Numbers ==
  /\ made > 0 => \A r \in Reqs : Logged(r) /\ r \notin unseen => seqOf[r] <= seq[made]
  /\ NumbersInArrivalOrder

\* The handles of held requests are apart from those of callers, once each, and
\* counted.
Handles ==
  /\ NoDup(late) /\ ToSet(late) \subseteq counted /\ ToSet(late) \cap handle = {}
  /\ Len(late) <= LateMax /\ (late # <<>> => known)

\* What a request that may still write has on disk is in the live files.
Live ==
  \A r \in Reqs \ parted, t \in Kinds :
    MayWrite(r) /\ <<r, t>> \in disk => shard[<<r, t>>] = parts + 1

IInv == /\ TypeOK /\ Arrivals /\ Objs /\ Numbers /\ Handles /\ OpenIsCounted
        /\ ArmedCutIsComing /\ Live /\ LinesStayTogether

-----------------------------------------------------------------------------
(* Sequences and sets *)

LEMMA ReqsFinite ==
  /\ Reqs \subseteq Nat \ {0} /\ IsFiniteSet(Reqs)
  /\ \A S \in SUBSET Reqs : IsFiniteSet(S) /\ Cardinality(S) \in Nat
<1>1. 1 \in Int /\ MaxReqs \in Int
  BY ShardAssumption
<1>2. IsFiniteSet(Reqs)
  BY <1>1, FS_Interval DEF Reqs
<1>3. Reqs \subseteq Nat \ {0}
  BY ShardAssumption DEF Reqs
<1>4. \A S \in SUBSET Reqs : IsFiniteSet(S)
  BY <1>2, FS_Subset
<1> QED
  BY <1>2, <1>3, <1>4, FS_CardinalityType

\* A sequence without duplicates is as long as its set is large.
LEMMA SetSize ==
  ASSUME NEW S, NEW q \in Seq(S), NoDup(q)
  PROVE  IsFiniteSet(ToSet(q)) /\ Cardinality(ToSet(q)) = Len(q)
<1>1. Len(q) \in Nat /\ DOMAIN q = 1..Len(q)
  OBVIOUS
<1>2. IsFiniteSet(1..Len(q)) /\ Cardinality(1..Len(q)) = Len(q)
  <2>1. 1 \in Int /\ Len(q) \in Int
    BY <1>1
  <2>2. IsFiniteSet(1..Len(q)) /\ Cardinality(1..Len(q)) = IF 1 > Len(q) THEN 0 ELSE Len(q) - 1 + 1
    BY <2>1, FS_Interval
  <2> QED
    BY <1>1, <2>2
<1> DEFINE f == [j \in 1..Len(q) |-> q[j]]
<1>3. /\ \A j \in 1..Len(q) : q[j] \in ToSet(q)
      /\ \A x \in ToSet(q) : \E j \in 1..Len(q) : q[j] = x
  BY ToSetLemma
<1>4. f \in Surjection(1..Len(q), ToSet(q))
  BY <1>3 DEF Surjection
<1>5. f \in Injection(1..Len(q), ToSet(q))
  BY <1>3 DEF Injection, IsInjective, NoDup
<1> HIDE DEF f
<1> QED
  BY <1>2, <1>4, <1>5, FS_Surjection

LEMMA ConcatSet ==
  ASSUME NEW S, NEW q \in Seq(S), NEW r \in Seq(S), NoDup(q), NoDup(r),
         ToSet(q) \cap ToSet(r) = {}
  PROVE  /\ q \o r \in Seq(S) /\ NoDup(q \o r)
         /\ ToSet(q \o r) = ToSet(q) \cup ToSet(r)
<1> DEFINE c == q \o r
<1>1. /\ c \in Seq(S) /\ Len(c) = Len(q) + Len(r) /\ Len(q) \in Nat /\ Len(r) \in Nat
      /\ \A j \in 1..Len(q) : c[j] = q[j]
      /\ \A j \in 1..Len(r) : c[Len(q) + j] = r[j]
      /\ \A j \in (Len(q) + 1)..Len(c) : j - Len(q) \in 1..Len(r) /\ c[j] = r[j - Len(q)]
  OBVIOUS
<1>2. /\ \A j \in 1..Len(q) : q[j] \in ToSet(q)
      /\ \A x \in ToSet(q) : \E j \in 1..Len(q) : q[j] = x
      /\ \A j \in 1..Len(r) : r[j] \in ToSet(r)
      /\ \A x \in ToSet(r) : \E j \in 1..Len(r) : r[j] = x
      /\ \A j \in 1..Len(c) : c[j] \in ToSet(c)
      /\ \A x \in ToSet(c) : \E j \in 1..Len(c) : c[j] = x
  BY <1>1, ToSetLemma
<1> HIDE DEF c
<1>3. \A j \in 1..Len(c) : \/ j \in 1..Len(q) /\ c[j] = q[j]
                           \/ j - Len(q) \in 1..Len(r) /\ c[j] = r[j - Len(q)]
  BY <1>1
<1>4. NoDup(c)
  <2> SUFFICES ASSUME NEW j \in 1..Len(c), NEW k \in 1..Len(c), c[j] = c[k] PROVE j = k
    BY DEF NoDup
  <2>1. CASE j \in 1..Len(q) /\ k \in 1..Len(q)
    BY <1>1, <2>1 DEF NoDup
  <2>2. CASE j - Len(q) \in 1..Len(r) /\ k - Len(q) \in 1..Len(r)
    <3>1. c[j] = r[j - Len(q)] /\ c[k] = r[k - Len(q)]
      BY <1>1, <2>2
    <3>2. j - Len(q) = k - Len(q)
      BY <2>2, <3>1 DEF NoDup
    <3> QED
      BY <1>1, <3>2
  <2>3. ~(j \in 1..Len(q) /\ k - Len(q) \in 1..Len(r) /\ c[k] = r[k - Len(q)])
    BY <1>1, <1>2
  <2>4. ~(k \in 1..Len(q) /\ j - Len(q) \in 1..Len(r) /\ c[j] = r[j - Len(q)])
    BY <1>1, <1>2
  <2> QED
    BY <1>3, <2>1, <2>2, <2>3, <2>4
<1>5. ToSet(c) \subseteq ToSet(q) \cup ToSet(r)
  BY <1>2, <1>3
<1>6. ToSet(q) \subseteq ToSet(c)
  <2> SUFFICES ASSUME NEW j \in 1..Len(q) PROVE q[j] \in ToSet(c)
    BY <1>2
  <2>1. j \in 1..Len(c)
    BY <1>1
  <2> QED
    BY <1>1, <1>2, <2>1
<1>7. ToSet(r) \subseteq ToSet(c)
  <2> SUFFICES ASSUME NEW j \in 1..Len(r) PROVE r[j] \in ToSet(c)
    BY <1>2
  <2>1. Len(q) + j \in 1..Len(c)
    BY <1>1
  <2> QED
    BY <1>1, <1>2, <2>1
<1> QED
  BY <1>1, <1>4, <1>5, <1>6, <1>7 DEF c

\* The memory of held requests splits into what is forgotten and what stays.
LEMMA SplitSet ==
  ASSUME NEW s \in Seq(Reqs), NoDup(s)
  PROVE  /\ Forgotten(s) \in Seq(Reqs) /\ NoDup(Forgotten(s))
         /\ Remembered(s) \in Seq(Reqs) /\ NoDup(Remembered(s))
         /\ ToSet(Forgotten(s)) \subseteq ToSet(s)
         /\ ToSet(Remembered(s)) = ToSet(s) \ ToSet(Forgotten(s))
         /\ Len(Remembered(s)) <= LateMax
         /\ Len(s) <= LateMax => Forgotten(s) = <<>>
<1> DEFINE n == IF Len(s) > LateMax THEN Len(s) - LateMax ELSE 0
           f == Forgotten(s)
<1>1. n \in 0..Len(s)
  BY ShardAssumption
<1> HIDE DEF n
<1>2. f \in Seq(Reqs) /\ Len(f) = n /\ \A j \in 1..n : f[j] = s[j]
  <2>1. CASE Len(s) > LateMax
    <3>1. f = SubSeq(s, 1, n) /\ n = Len(s) - LateMax /\ n >= 1
      BY <2>1, ShardAssumption DEF n, Forgotten
    <3>2. \A j \in 1..n : s[j] \in Reqs
      BY <1>1, ElementOfSeq
    <3>3. f \in Seq(Reqs) /\ Len(f) = n /\ \A j \in 1..n : f[j] = s[1 + j - 1]
      BY <1>1, <3>1, <3>2, SubSeqProperties
    <3> QED
      BY <1>1, <3>3
  <2>2. CASE ~(Len(s) > LateMax)
    BY <2>2 DEF n, Forgotten
  <2> QED
    BY <2>1, <2>2
<1>3. Remembered(s) = SubSeq(s, n + 1, Len(s))
  BY <1>2 DEF Remembered
<1>4. /\ Remembered(s) \in Seq(Reqs) /\ Len(Remembered(s)) = Len(s) - n
      /\ \A j \in 1..(Len(s) - n) : Remembered(s)[j] = s[n + j]
  BY <1>1, <1>3, DropHeadsLemma
<1>5. NoDup(Remembered(s)) /\ ToSet(Remembered(s)) = ToSet(s) \ {s[j] : j \in 1..n}
  BY <1>1, <1>4, DropSet
<1> HIDE DEF f
<1>6. ToSet(f) = {s[j] : j \in 1..n}
  <2>1. \A j \in 1..n : f[j] \in ToSet(f)
    BY <1>2, ToSetLemma
  <2>2. \A x \in ToSet(f) : \E j \in 1..n : f[j] = x
    BY <1>2, ToSetLemma
  <2> QED
    BY <1>2, <2>1, <2>2
<1>7. NoDup(f)
  BY <1>1, <1>2 DEF NoDup
<1>8. {s[j] : j \in 1..n} \subseteq ToSet(s)
  <2>1. \A j \in 1..n : j \in 1..Len(s)
    BY <1>1
  <2> QED
    BY <2>1, ToSetLemma
<1>9. Len(Remembered(s)) <= LateMax
  BY <1>4, ShardAssumption DEF n
<1>10. Len(s) <= LateMax => Forgotten(s) = <<>>
  BY ShardAssumption DEF Forgotten
<1> QED
  BY <1>2, <1>4, <1>5, <1>6, <1>7, <1>8, <1>9, <1>10 DEF f

LEMMA PositionFact ==
  ASSUME NEW S, NEW s \in Seq(S), NEW x \in ToSet(s)
  PROVE  Position(s, x) \in 1..Len(s) /\ s[Position(s, x)] = x
<1>1. PICK j \in 1..Len(s) : s[j] = x
  BY ToSetLemma
<1>2. DOMAIN s = 1..Len(s)
  OBVIOUS
<1> QED
  BY <1>1, <1>2 DEF Position

LEMMA WithoutSet ==
  ASSUME NEW s \in Seq(Reqs), NoDup(s), NEW x
  PROVE  /\ Without(s, x) \in Seq(Reqs) /\ NoDup(Without(s, x))
         /\ ToSet(Without(s, x)) = ToSet(s) \ {x}
<1>1. CASE x \in ToSet(s)
  <2>1. Position(s, x) \in 1..Len(s) /\ s[Position(s, x)] = x
    BY <1>1, PositionFact
  <2>2. Without(s, x) = RemoveAt(s, Position(s, x))
    BY <1>1 DEF Without
  <2> QED
    BY <2>1, <2>2, RemoveSet, RemoveAtLemma
<1>2. CASE x \notin ToSet(s)
  BY <1>2 DEF Without
<1> QED
  BY <1>1, <1>2

\* A finite set of numbers has a greatest one.
LEMMA GreatestOf ==
  ASSUME NEW T \in SUBSET Nat, IsFiniteSet(T), T # {}
  PROVE  \E n \in T : \A m \in T : m <= n
<1> DEFINE Up(x) == {y \in T : y >= x}
           F == {Up(x) : x \in T}
<1>1. F \subseteq FiniteSubsetsOf(T) /\ F # {}
  <2>1. \A x \in T : Up(x) \subseteq T /\ IsFiniteSet(Up(x))
    BY FS_Subset
  <2> QED
    BY <2>1 DEF FiniteSubsetsOf
<1>2. IsWellFoundedOn(StrictSubsetOrdering(T), FiniteSubsetsOf(T))
  BY FS_StrictSubsetOrderingWellFounded
<1>3. PICK A \in F : \A B \in F : ~ (<<B, A>> \in StrictSubsetOrdering(T))
  BY <1>1, <1>2, WFMin
<1>4. PICK x \in T : A = Up(x)
  OBVIOUS
<1>5. ASSUME NEW y \in T, y > x PROVE FALSE
  <2>0. x \in Nat /\ y \in Nat /\ \A z \in T : z \in Nat
    OBVIOUS
  <2>1. Up(y) \in F /\ Up(y) \subseteq Up(x) /\ x \in Up(x) /\ x \notin Up(y)
    <3>1. Up(y) \in F
      OBVIOUS
    <3>2. \A z \in T : z >= y => z >= x
      BY <1>5, <2>0
    <3>3. x >= x /\ ~(x >= y)
      BY <1>5, <2>0
    <3>4. Up(y) \subseteq Up(x)
      BY <3>2
    <3> QED
      BY <3>1, <3>3, <3>4
  <2>2. Up(y) \subseteq T /\ Up(x) \subseteq T /\ Up(y) # Up(x)
    BY <2>1
  <2> HIDE DEF Up
  <2>3. <<Up(y), Up(x)>> \in StrictSubsetOrdering(T)
    BY <2>1, <2>2 DEF StrictSubsetOrdering
  <2> QED
    BY <1>3, <1>4, <2>1, <2>3
<1> QED
  BY <1>5

-----------------------------------------------------------------------------
(* The number the journal goes on after *)

LEMMA SeedFact ==
  ASSUME TypeOK
  PROVE  Seed \in Nat /\ Seed \in {0} \cup SeqsOf(disk) /\ \A l \in disk : l[2] \in {"req", "done"} => seqOf[l[1]] <= Seed
<1> DEFINE M == {m \in disk : m[2] \in {"req", "done"}}
           f == [l \in M |-> seqOf[l[1]]]
           T == {0} \cup SeqsOf(disk)
<1>1. disk \subseteq Reqs \X Kinds /\ seqOf \in [Reqs -> Nat]
  BY DEF TypeOK, Lines, Kinds
<1>2. IsFiniteSet(M)
  <2>1. Kinds = {"req"} \cup {"resp"} \cup {"done"}
    BY DEF Kinds
  <2>2. IsFiniteSet(Kinds)
    BY <2>1, FS_Singleton, FS_Union
  <2>3. IsFiniteSet(Reqs \X Kinds)
    BY <2>2, ReqsFinite, FS_Product
  <2>4. M \in SUBSET (Reqs \X Kinds)
    BY <1>1
  <2> QED
    BY <2>3, <2>4, FS_Subset
<1>3. SeqsOf(disk) = {f[l] : l \in M}
  BY DEF SeqsOf
<1>4. f \in Surjection(M, SeqsOf(disk))
  BY <1>3 DEF Surjection
<1>5. \A l \in M : f[l] \in Nat /\ f[l] = seqOf[l[1]]
  BY <1>1
<1> HIDE DEF f
<1>6. IsFiniteSet(SeqsOf(disk)) /\ SeqsOf(disk) \in SUBSET Nat
  BY <1>2, <1>3, <1>4, <1>5, FS_Surjection
<1>7. IsFiniteSet(T)
  BY <1>6, FS_Singleton, FS_Union
<1>8. T \in SUBSET Nat /\ T # {}
  BY <1>6
<1>9. \E n \in T : \A m \in T : m <= n
  BY <1>7, <1>8, GreatestOf
<1>10. \E n \in T : \A m \in SeqsOf(disk) : m <= n
  BY <1>9
<1>11. Seed \in T /\ \A m \in SeqsOf(disk) : m <= Seed
  BY <1>10 DEF Seed
<1> QED
  BY <1>3, <1>5, <1>8, <1>11


\* A journal, kept or made anew, goes on after all numbers that it can know of.
LEMMA SeqNowFact ==
  ASSUME TypeOK, Objs, Numbers
  PROVE  /\ SeqNow \in Nat
         /\ \A r \in Reqs : Logged(r) /\ r \notin unseen /\ (bound \/ <<r, "req">> \notin queue)
                              => seqOf[r] <= SeqNow
<1>1. CASE bound
  <2>1. made > 0 /\ made \in Objects
    BY <1>1, ShardAssumption DEF Objs, TypeOK, Objects
  <2> QED
    BY <1>1, <2>1 DEF TypeOK, Numbers, SeqNow
<1>2. CASE ~bound
  <2>1. SeqNow = Seed
    BY <1>2 DEF SeqNow
  <2>2. ASSUME NEW r \in Reqs, Logged(r), <<r, "req">> \notin queue PROVE seqOf[r] <= Seed
    <3>1. <<r, "req">> \in disk
      BY <2>2 DEF Logged
    <3> QED
      BY <3>1, SeedFact
  <2> QED
    BY <1>2, <2>1, <2>2, SeedFact
<1> QED
  BY <1>1, <1>2

LEMMA PromptsFact ==
  ASSUME TypeOK, Objs, NEW S \in SUBSET Reqs
  PROVE  PromptsNow \in Nat /\ NewPrompts(S) \in Nat
<1>1. {r \in S : prompt[r]} \in SUBSET Reqs
  OBVIOUS
<1>2. NewPrompts(S) \in Nat
  BY <1>1, ReqsFinite DEF NewPrompts
<1>3. bound => made \in Objects
  BY ShardAssumption DEF Objs, TypeOK, Objects
<1> QED
  BY <1>2, <1>3 DEF TypeOK, PromptsNow

\* Objects that are counted.
LEMMA ObjectsFact ==
  ASSUME TypeOK, Objs
  PROVE  /\ Objects \subseteq Nat \ {0} /\ made \in Nat
         /\ Current \in Nat /\ made <= Current /\ 1..made \subseteq Objects
         /\ Current = made \/ Current = made + 1
         /\ made > 0 => made \in Objects
BY ShardAssumption DEF TypeOK, Objects, Current

\* The counted handles of an object are a finite set.
LEMMA CountedFact ==
  ASSUME TypeOK, NEW o
  PROVE  /\ IsFiniteSet({r \in counted : objOf[r] = o})
         /\ {r \in counted : objOf[r] = o} \subseteq Reqs
<1>1. {r \in counted : objOf[r] = o} \in SUBSET Reqs
  BY DEF TypeOK
<1> QED
  BY <1>1, ReqsFinite

\* An object with nothing in flight has logged none of the open requests.
LEMMA NoneOpen ==
  ASSUME TypeOK, OpenIsCounted, NEW o \in Objects, inflight[o] = 0
  PROVE  /\ \A x \in counted : objOf[x] # o
         /\ \A x \in Open : objOf[x] # o
<1>1. Cardinality({r \in counted : objOf[r] = o}) = 0
  BY DEF OpenIsCounted
<1>2. {r \in counted : objOf[r] = o} = {}
  BY <1>1, CountedFact, FS_EmptySet
<1> QED
  BY <1>2 DEF OpenIsCounted

LEMMA ConcatFact ==
  ASSUME NEW q \in Seq(Nat), NEW r \in Seq(Nat)
  PROVE  /\ q \o r \in Seq(Nat) /\ Len(q \o r) = Len(q) + Len(r)
         /\ \A j \in 1..Len(q) : (q \o r)[j] = q[j]
         /\ \A j \in 1..Len(r) : (q \o r)[Len(q) + j] = r[j]
OBVIOUS

\* A cut adds a shard for each object that makes one, and parts the requests that
\* others have open.
LEMMA CutsFact ==
  ASSUME TypeOK, NEW os \in Seq(Objects), NEW marks \in Seq(Nat), Len(marks) = Len(os),
         NEW count \in Nat, Cuts(os, marks, count)
  PROVE  /\ parts' = parts + Len(os) /\ parts' \in Nat /\ parts <= parts'
         /\ cut' \in Seq(Nat) /\ Len(cut') = parts' /\ meta' \in Nat
         /\ \A n \in 1..parts : cut'[n] = cut[n]
         /\ \A i \in 1..Len(os) : cut'[parts + i] = marks[i]
         /\ stale \subseteq stale' /\ stale' \subseteq 1..parts'
         /\ \A i \in 1..Len(os) : os[i] < made => parts + i \in stale'
         /\ parted \subseteq parted' /\ parted' \subseteq Reqs
         /\ \A x \in Open, i \in 1..Len(os) : objOf[x] # os[i] => x \in parted'
<1>1. /\ parts \in Nat /\ cut \in Seq(Nat) /\ Len(cut) = parts /\ stale \subseteq 1..parts
      /\ parted \subseteq Reqs /\ Len(os) \in Nat /\ DOMAIN os = 1..Len(os)
  BY DEF TypeOK
<1>2. /\ parts' = parts + Len(os) /\ cut' = cut \o marks /\ meta' = count
      /\ stale' = stale \cup {parts + i : i \in {j \in DOMAIN os : os[j] < made}}
      /\ parted' = parted \cup {r \in Open : \E i \in DOMAIN os : objOf[r] # os[i]}
  BY DEF Cuts
<1>3. parts' \in Nat /\ parts <= parts'
  BY <1>1, <1>2
<1>4. /\ cut' \in Seq(Nat) /\ Len(cut') = parts'
      /\ \A n \in 1..parts : cut'[n] = cut[n]
      /\ \A i \in 1..Len(os) : cut'[parts + i] = marks[i]
  <2>1. /\ cut \o marks \in Seq(Nat) /\ Len(cut \o marks) = Len(cut) + Len(marks)
        /\ \A n \in 1..Len(cut) : (cut \o marks)[n] = cut[n]
        /\ \A i \in 1..Len(marks) : (cut \o marks)[Len(cut) + i] = marks[i]
    BY ConcatFact, cut \in Seq(Nat) DEF TypeOK
  <2>2. Len(marks) = Len(os)
    OBVIOUS
  <2> HIDE DEF Cuts
  <2>3. /\ Len(cut') = Len(cut) + Len(marks) /\ cut' \in Seq(Nat)
        /\ \A n \in 1..Len(cut) : cut'[n] = cut[n]
        /\ \A i \in 1..Len(marks) : cut'[Len(cut) + i] = marks[i]
    BY <1>2, <2>1
  <2> QED
    BY <1>1, <1>2, <2>2, <2>3
<1>5. stale \subseteq stale' /\ stale' \subseteq 1..parts'
  <2>1. \A i \in DOMAIN os : parts + i \in 1..parts'
    BY <1>1, <1>2
  <2>2. 1..parts \subseteq 1..parts'
    BY <1>1, <1>3
  <2> QED
    BY <1>1, <1>2, <2>1, <2>2
<1>6. \A i \in 1..Len(os) : os[i] < made => parts + i \in stale'
  BY <1>1, <1>2
<1>7. parted \subseteq parted' /\ parted' \subseteq Reqs
  BY <1>1, <1>2 DEF Open
<1>8. \A x \in Open, i \in 1..Len(os) : objOf[x] # os[i] => x \in parted'
  BY <1>1, <1>2
<1> QED
  BY <1>2, <1>3, <1>4, <1>5, <1>6, <1>7, <1>8

\* The same for a single cut.
LEMMA CutFact ==
  ASSUME TypeOK, NEW o \in Objects, NEW q \in Nat, NEW count \in Nat, Cut(o, q, count)
  PROVE  /\ parts' = parts + 1 /\ parts' \in Nat /\ parts <= parts'
         /\ cut' \in Seq(Nat) /\ Len(cut') = parts' /\ meta' \in Nat
         /\ \A n \in 1..parts : cut'[n] = cut[n]
         /\ cut'[parts + 1] = q
         /\ stale \subseteq stale' /\ stale' \subseteq 1..parts'
         /\ o < made => parts + 1 \in stale'
         /\ parted \subseteq parted' /\ parted' \subseteq Reqs
         /\ \A x \in Open : objOf[x] # o => x \in parted'
<1>1. /\ <<o>> \in Seq(Objects) /\ <<q>> \in Seq(Nat) /\ Len(<<q>>) = Len(<<o>>)
      /\ Len(<<o>>) = 1 /\ <<o>>[1] = o /\ <<q>>[1] = q /\ 1 \in 1..Len(<<o>>)
  OBVIOUS
<1>2. Cuts(<<o>>, <<q>>, count)
  BY DEF Cut
<1>3. /\ parts' = parts + Len(<<o>>) /\ parts' \in Nat /\ parts <= parts'
      /\ cut' \in Seq(Nat) /\ Len(cut') = parts' /\ meta' \in Nat
      /\ \A n \in 1..parts : cut'[n] = cut[n]
      /\ \A i \in 1..Len(<<o>>) : cut'[parts + i] = <<q>>[i]
      /\ stale \subseteq stale' /\ stale' \subseteq 1..parts'
      /\ \A i \in 1..Len(<<o>>) : <<o>>[i] < made => parts + i \in stale'
      /\ parted \subseteq parted' /\ parted' \subseteq Reqs
      /\ \A x \in Open, i \in 1..Len(<<o>>) : objOf[x] # <<o>>[i] => x \in parted'
  <2> DEFINE os == <<o>>
             qs == <<q>>
  <2>1. os \in Seq(Objects) /\ qs \in Seq(Nat) /\ Len(qs) = Len(os) /\ Cuts(os, qs, count)
    BY <1>1, <1>2
  <2> HIDE DEF os, qs
  <2>2. /\ parts' = parts + Len(os) /\ parts' \in Nat /\ parts <= parts'
        /\ cut' \in Seq(Nat) /\ Len(cut') = parts' /\ meta' \in Nat
        /\ \A n \in 1..parts : cut'[n] = cut[n]
        /\ \A i \in 1..Len(os) : cut'[parts + i] = qs[i]
        /\ stale \subseteq stale' /\ stale' \subseteq 1..parts'
        /\ \A i \in 1..Len(os) : os[i] < made => parts + i \in stale'
        /\ parted \subseteq parted' /\ parted' \subseteq Reqs
        /\ \A x \in Open, i \in 1..Len(os) : objOf[x] # os[i] => x \in parted'
    BY <2>1, CutsFact
  <2> QED
    BY <2>2 DEF os, qs
<1> QED
  BY <1>1, <1>3

\* Parking adds to what waits.
LEMMA ParkFact ==
  ASSUME TypeOK, NEW o \in Objects
  PROVE  Park(o) \in Seq(Objects) /\ ToSet(Park(o)) = ToSet(waiting) \cup {o}
<1>1. waiting \in Seq(Objects)
  BY DEF TypeOK
<1>2. CASE o \in ToSet(waiting)
  BY <1>1, <1>2 DEF Park
<1>3. CASE o \notin ToSet(waiting)
  <2>1. Park(o) = Append(waiting, o) /\ Append(waiting, o) \in Seq(Objects)
    BY <1>1, <1>3 DEF Park
  <2>2. /\ \A i \in 1..Len(waiting) : waiting[i] \in ToSet(waiting)
        /\ \A x \in ToSet(waiting) : \E i \in 1..Len(waiting) : waiting[i] = x
        /\ \A i \in 1..Len(Park(o)) : Park(o)[i] \in ToSet(Park(o))
        /\ \A x \in ToSet(Park(o)) : \E i \in 1..Len(Park(o)) : Park(o)[i] = x
    BY <1>1, <2>1, ToSetLemma
  <2>3. /\ Len(Park(o)) = Len(waiting) + 1 /\ Len(waiting) \in Nat
        /\ \A i \in 1..Len(waiting) : Park(o)[i] = waiting[i]
        /\ Park(o)[Len(waiting) + 1] = o
    BY <1>1, <2>1
  <2>4. ToSet(waiting) \cup {o} \subseteq ToSet(Park(o))
    <3>1. \A i \in 1..Len(waiting) : i \in 1..Len(Park(o))
      BY <2>3
    <3>2. Len(waiting) + 1 \in 1..Len(Park(o))
      BY <2>3
    <3>3. ToSet(waiting) \subseteq ToSet(Park(o))
      BY <2>2, <2>3, <3>1
    <3> QED
      BY <2>2, <2>3, <3>2, <3>3
  <2>5. ToSet(Park(o)) \subseteq ToSet(waiting) \cup {o}
    <3>1. \A i \in 1..Len(Park(o)) : i \in 1..Len(waiting) \/ i = Len(waiting) + 1
      BY <2>3
    <3> QED
      BY <2>2, <2>3, <3>1
  <2> QED
    BY <2>1, <2>4, <2>5
<1> QED
  BY <1>2, <1>3


-----------------------------------------------------------------------------
(* Requests that come *)

\* The next request is newer than all that were sent.
LEMMA NextFact ==
  ASSUME TypeOK, Arrivals, NEW r \in Reqs, IsNext(r)
  PROVE  r \notin Sent /\ \A x \in Sent : x < r
<1>1. r \notin Sent /\ Sent \subseteq Reqs /\ Reqs \subseteq Nat
  BY ReqsFinite DEF IsNext, Sent
<1>2. ASSUME NEW x \in Sent, ~(x < r) PROVE FALSE
  <2>1. x # r /\ x \in Nat /\ r \in Nat /\ x \in Reqs
    BY <1>1
  <2>2. r < x
    BY <1>2, <2>1
  <2> QED
    BY <1>1, <2>1, <2>2 DEF Arrivals
<1> QED
  BY <1>1, <1>2

\* When it is sent, all before it are.
LEMMA SentFact ==
  ASSUME TypeOK, Arrivals, NEW r \in Reqs, IsNext(r), status' = [status EXCEPT ![r] = "running"]
  PROVE  /\ Sent' = Sent \cup {r} /\ status' \in [Reqs -> {"new", "running", "over"}]
         /\ \A y, x \in Reqs : x < y /\ y \in Sent' => x \in Sent'
<1>1. status \in [Reqs -> {"new", "running", "over"}]
  BY DEF TypeOK
<1>2. Sent' = Sent \cup {r}
  BY <1>1 DEF Sent
<1>3. \A x \in Reqs : x < r => x \in Sent
  <2>1. \A x \in Reqs : x < r => x \in 1..r - 1
    BY ReqsFinite
  <2> QED
    BY <2>1 DEF IsNext
<1> QED
  BY <1>1, <1>2, <1>3 DEF Arrivals

\* The held requests with the next one, oldest first.
LEMMA LoggedFact ==
  ASSUME TypeOK, Arrivals, NEW r \in Reqs, IsNext(r)
  PROVE  /\ Append(pending, r) \in Seq(Reqs) /\ NoDup(Append(pending, r)) /\ NoDup(pending)
         /\ ToSet(Append(pending, r)) = ToSet(pending) \cup {r} /\ r \notin ToSet(pending)
         /\ Len(Append(pending, r)) \in Nat
         /\ \A i, k \in DOMAIN Append(pending, r) : i < k => Append(pending, r)[i] < Append(pending, r)[k]
         /\ \A i \in DOMAIN Append(pending, r) :
              Append(pending, r)[i] \in Sent \cup {r} /\ \A x \in Reqs : Trace(x) => x < Append(pending, r)[i]
         /\ \A y \in ToSet(Append(pending, r)) : ~Trace(y) /\ y \in Reqs /\ \A x \in Reqs : Trace(x) => x < y
<1> DEFINE l == Append(pending, r)
<1>1. /\ pending \in Seq(Reqs) /\ l \in Seq(Reqs) /\ Len(l) = Len(pending) + 1 /\ Len(pending) \in Nat
      /\ \A i \in 1..Len(pending) : l[i] = pending[i]
      /\ l[Len(pending) + 1] = r
      /\ DOMAIN l = 1..Len(l) /\ DOMAIN pending = 1..Len(pending)
  BY DEF TypeOK
<1>2. r \notin Sent /\ \A x \in Sent : x < r
  BY NextFact
<1>3. \A i \in 1..Len(pending) : pending[i] \in Sent /\ pending[i] \in Nat /\ pending[i] \in Reqs
  <2>1. \A i \in 1..Len(pending) : pending[i] \in Reqs /\ pending[i] \in Nat
    BY <1>1, ElementOfSeq, ReqsFinite
  <2>2. \A i \in DOMAIN pending : pending[i] \in Sent
    BY DEF Arrivals
  <2> QED
    BY <1>1, <2>1, <2>2
<1>4. NoDup(pending)
  <2> SUFFICES ASSUME NEW i \in 1..Len(pending), NEW k \in 1..Len(pending), pending[i] = pending[k], i # k
               PROVE FALSE
    BY DEF NoDup
  <2>0. \A a, b \in 1..Len(pending) : a < b => pending[a] < pending[b]
    <3>1. DOMAIN pending = 1..Len(pending)
      BY <1>1
    <3>2. \A a, b \in DOMAIN pending : a < b => pending[a] < pending[b]
      BY DEF Arrivals
    <3> QED
      BY <3>1, <3>2
  <2>1. i < k \/ k < i
    BY <1>1
  <2>2. pending[i] < pending[k] \/ pending[k] < pending[i]
    BY <2>0, <2>1
  <2> QED
    BY <1>3, <2>2
<1>5. r \notin ToSet(pending)
  BY <1>1, <1>2, <1>3, ToSetLemma
<1>6. NoDup(l) /\ ToSet(l) = ToSet(pending) \cup {r}
  BY <1>1, <1>4, <1>5, AppendSet
<1> HIDE DEF l
<1>7. \A i \in DOMAIN l : \/ i \in 1..Len(pending) /\ l[i] = pending[i]
                          \/ i = Len(pending) + 1 /\ l[i] = r
  BY <1>1
<1>8. \A i \in DOMAIN l : l[i] \in Sent \cup {r} /\ l[i] \in Reqs /\ \A x \in Reqs : Trace(x) => x < l[i]
  <2>1. \A x \in Reqs : Trace(x) => x < r
    BY <1>2 DEF Arrivals
  <2> QED
    BY <1>1, <1>3, <1>7, <2>1 DEF Arrivals
<1>9. ASSUME NEW i \in DOMAIN l, NEW k \in DOMAIN l, i < k PROVE l[i] < l[k]
  <2>1. i \in 1..Len(pending)
    BY <1>1, <1>7, <1>9
  <2>2. CASE k \in 1..Len(pending)
    BY <1>1, <1>7, <1>9, <2>1, <2>2 DEF Arrivals
  <2>3. CASE k = Len(pending) + 1
    BY <1>1, <1>2, <1>3, <2>1, <2>3
  <2> QED
    BY <1>7, <2>2, <2>3
<1>10. \A y \in ToSet(l) : ~Trace(y) /\ y \in Reqs /\ \A x \in Reqs : Trace(x) => x < y
  <2> SUFFICES ASSUME NEW i \in DOMAIN l
               PROVE ~Trace(l[i]) /\ l[i] \in Reqs /\ \A x \in Reqs : Trace(x) => x < l[i]
    BY <1>1, ToSetLemma
  <2>0. l[i] \in Reqs /\ l[i] \in Nat
    BY <1>8, ReqsFinite
  <2>1. l[i] \in Reqs /\ ~(l[i] < l[i])
    BY <2>0
  <2> QED
    BY <1>8, <2>1
<1> QED
  BY <1>1, <1>4, <1>5, <1>6, <1>8, <1>9, <1>10 DEF l

-----------------------------------------------------------------------------
(* What an action keeps that logs no new request *)

LEMMA ArrivalsStay ==
  ASSUME Arrivals, Sent' = Sent, \A x \in Reqs : Trace(x)' => Trace(x),
         pending' = pending \/ pending' = <<>>, known' = known \/ ~known' \/ pending' = <<>>
  PROVE  Arrivals'
<1>1. \A i \in DOMAIN pending' : pending' = pending
  OBVIOUS
<1>2. pending' = pending \/ (pending' = <<>> /\ DOMAIN pending' = {})
  OBVIOUS
<1> QED
  BY <1>1, <1>2 DEF Arrivals

LEMMA ObjsStay ==
  ASSUME Objs, made' = made, objOf' = objOf, bound' => bound, armed' \subseteq armed,
         queue' # {} => draining', \A x \in Reqs : InMemory(x)' => InMemory(x)
  PROVE  Objs'
BY DEF Objs

LEMMA NumbersStay ==
  ASSUME Numbers, seqOf' = seqOf, unseen' = unseen, made' = 0 \/ (made' = made /\ seq' = seq),
         \A x \in Reqs : Logged(x)' => Logged(x)
  PROVE  Numbers'
<1>1. NumbersInArrivalOrder'
  BY DEF Numbers, NumbersInArrivalOrder
<1>2. ~(0 > 0)
  OBVIOUS
<1>3. made' > 0 => made' = made /\ seq' = seq
  BY <1>2
<1>4. ASSUME made' > 0, NEW r \in Reqs, Logged(r)', r \notin unseen' PROVE seqOf'[r] <= seq'[made']
  BY <1>3, <1>4 DEF Numbers
<1> QED
  BY <1>1, <1>4 DEF Numbers

\* Cuts wait until nothing of their own object can be written any more; the rest
\* they part.
LEMMA LiveStays ==
  ASSUME Live, disk' = disk, shard' = shard, parted \subseteq parted',
         \A x \in Reqs : MayWrite(x)' => MayWrite(x) \/ \A t \in Kinds : <<x, t>> \notin disk,
         parts' = parts \/ \A x \in Reqs \ parted' : MayWrite(x)' => \A t \in Kinds : <<x, t>> \notin disk
  PROVE  Live'
<1> SUFFICES ASSUME NEW x \in Reqs \ parted', NEW t \in Kinds, MayWrite(x)', <<x, t>> \in disk
             PROVE  shard[<<x, t>>] = parts' + 1
  BY DEF Live
<1>1. parts' = parts /\ MayWrite(x) /\ x \in Reqs \ parted
  OBVIOUS
<1> QED
  BY <1>1 DEF Live

LEMMA TogetherStays ==
  ASSUME LinesStayTogether, disk' = disk, shard' = shard, parted \subseteq parted', torn' = torn
  PROVE  LinesStayTogether'
BY DEF LinesStayTogether

\* A request that goes on or ends was sent before.
LEMMA SentStays ==
  ASSUME TypeOK, NEW r \in Reqs, status[r] # "new", status' = [status EXCEPT ![r] = "over"]
  PROVE  /\ Sent' = Sent /\ status' \in [Reqs -> {"new", "running", "over"}]
         /\ \A x \in Reqs : status'[x] = "running" => x # r /\ status[x] = "running"
         /\ status'[r] = "over"
BY DEF TypeOK, Sent

\* A handle is closed once, by whoever comes first, in the object that counted it.
LEMMA CloseHandleFact ==
  ASSUME TypeOK, Objs, OpenIsCounted, NEW r \in Reqs, InMemory(r), CloseHandle(r), objOf' = objOf
  PROVE  /\ counted' = counted \ {r} /\ counted' \subseteq Reqs
         /\ inflight' \in [Objects -> Nat]
         /\ \A o \in Objects : inflight'[o] = Cardinality({x \in counted' : objOf'[x] = o})
         /\ \A o \in Objects : inflight'[o] = 0 /\ inflight[o] # 0
              => r \in counted /\ o = objOf[r] /\ inflight[o] = 1
         /\ r \in counted /\ inflight[objOf[r]] = 1 => \A x \in counted' : objOf[x] # objOf[r]
         /\ objOf[r] \in 1..made /\ objOf[r] \in Objects
<1> DEFINE p == objOf[r]
           C(o) == {x \in counted : objOf[x] = o}
<1>1. p \in 1..made /\ p \in Objects
  BY ObjectsFact DEF Objs
<1>2. /\ counted' = counted \ {r}
      /\ inflight' = [inflight EXCEPT ![p] = IF r \in counted THEN inflight[p] - 1 ELSE inflight[p]]
      /\ counted \subseteq Reqs /\ inflight \in [Objects -> Nat]
  BY DEF CloseHandle, TypeOK
<1>3. \A o \in Objects : /\ IsFiniteSet(C(o)) /\ C(o) \subseteq Reqs
                         /\ inflight[o] = Cardinality(C(o))
  BY CountedFact DEF OpenIsCounted
<1>4. ASSUME NEW o \in Objects
      PROVE  /\ inflight'[o] = Cardinality({x \in counted' : objOf'[x] = o}) /\ inflight'[o] \in Nat
             /\ inflight'[o] # inflight[o] => r \in counted /\ o = p /\ inflight[o] = inflight'[o] + 1
  <2>1. CASE r \in counted /\ o = p
    <3>1. {x \in counted' : objOf'[x] = o} = C(o) \ {r} /\ r \in C(o)
      BY <1>2, <2>1
    <3>2. Cardinality(C(o) \ {r}) = Cardinality(C(o)) - 1 /\ IsFiniteSet(C(o) \ {r})
      BY <1>3, <3>1, FS_RemoveElement
    <3>3. Cardinality(C(o) \ {r}) \in Nat
      BY <3>2, FS_CardinalityType
    <3>4. inflight'[o] = inflight[o] - 1
      BY <1>1, <1>2, <2>1
    <3>5. inflight[o] \in Nat
      BY <1>2
    <3> HIDE DEF C
    <3>6. inflight'[o] = Cardinality(C(o) \ {r})
      BY <1>3, <3>2, <3>4
    <3>7. inflight[o] = inflight'[o] + 1
      BY <3>4, <3>5, <3>6, <3>3
    <3> QED
      BY <2>1, <3>1, <3>3, <3>6, <3>7
  <2>2. CASE ~(r \in counted /\ o = p)
    <3>1. {x \in counted' : objOf'[x] = o} = C(o)
      <4>1. r \in C(o) => FALSE
        BY <2>2
      <4>2. {x \in counted' : objOf'[x] = o} = C(o) \ {r}
        BY <1>2
      <4> QED
        BY <4>1, <4>2
    <3>2. inflight'[o] = inflight[o] /\ inflight[o] \in Nat
      BY <1>1, <1>2, <2>2
    <3> QED
      BY <1>3, <3>1, <3>2
  <2> QED
    BY <2>1, <2>2
<1>5. inflight' \in [Objects -> Nat]
  BY <1>2, <1>4
<1>6. ASSUME r \in counted, inflight[p] = 1, NEW x \in counted', objOf[x] = p PROVE FALSE
  <2>1. Cardinality(C(p)) = 1
    BY <1>1, <1>3, <1>6
  <2>2. \E y : C(p) = {y}
    BY <1>1, <1>3, <2>1, FS_Singleton
  <2>3. r \in C(p) /\ x \in C(p) /\ x # r
    BY <1>2, <1>6
  <2> HIDE DEF C
  <2> QED
    BY <2>2, <2>3
<1>7. \A o \in Objects : inflight'[o] = 0 /\ inflight[o] # 0 => r \in counted /\ o = p /\ inflight[o] = 1
  BY <1>2, <1>4
<1>8. counted' \subseteq Reqs
  BY <1>2
<1> QED
  BY <1>1, <1>2, <1>4, <1>5, <1>6, <1>7, <1>8

-----------------------------------------------------------------------------
(* Actions that make no cut *)

LEMMA HoldKeeps ==
  ASSUME IInv, NEW r \in Reqs, Hold(r)
  PROVE  IInv'
<1>0. TypeOK /\ Arrivals /\ Objs /\ Numbers /\ Handles /\ OpenIsCounted
      /\ ArmedCutIsComing /\ Live /\ LinesStayTogether
  BY DEF IInv
<1>1. /\ IsNext(r) /\ ~known /\ pending' = Append(pending, r)
      /\ status' = [status EXCEPT ![r] = "running"]
      /\ UNCHANGED <<inputs, handle, late, counted, objOf, session, latches, queue, draining,
                     log, shards, history, faults>>
  BY DEF Hold
<1>2. /\ Sent' = Sent \cup {r} /\ status' \in [Reqs -> {"new", "running", "over"}]
      /\ \A y, x \in Reqs : x < y /\ y \in Sent' => x \in Sent'
  BY <1>0, <1>1, SentFact
<1>3. /\ pending' \in Seq(Reqs)
      /\ \A i, k \in DOMAIN pending' : i < k => pending'[i] < pending'[k]
      /\ \A i \in DOMAIN pending' :
           pending'[i] \in Sent \cup {r} /\ \A x \in Reqs : Trace(x) => x < pending'[i]
  BY <1>0, <1>1, LoggedFact
<1>4. TypeOK'
  BY <1>0, <1>1, <1>2, <1>3 DEF TypeOK, inputs, session, latches, log, shards, history
<1>5. \A x \in Reqs : (Trace(x)' <=> Trace(x)) /\ (InMemory(x)' <=> InMemory(x))
  BY <1>1 DEF Trace, InMemory, Has, log
<1>6. Arrivals'
  BY <1>0, <1>1, <1>2, <1>3, <1>5 DEF Arrivals, session
<1>7. Objs' /\ Handles' /\ ArmedCutIsComing' /\ LinesStayTogether'
  BY <1>0, <1>1, <1>5
     DEF Objs, Handles, ArmedCutIsComing, LinesStayTogether, session, latches, log, shards, history
<1>8. Numbers'
  BY <1>0, <1>1 DEF Numbers, NumbersInArrivalOrder, Logged, session, log, history
<1>9. Open' = Open
  <2>1. r \notin Sent
    BY <1>1 DEF IsNext
  <2>2. ~Reachable(r)
    BY <1>0, <2>1 DEF Arrivals, Trace, InMemory, Reachable
  <2>3. \A x \in Reqs : x # r => status'[x] = status[x]
    BY <1>0, <1>1 DEF TypeOK
  <2>4. \A x \in Reqs : Reachable(x)' <=> Reachable(x)
    BY <1>1 DEF Reachable
  <2> QED
    BY <2>2, <2>3, <2>4 DEF Open
<1>10. OpenIsCounted'
  BY <1>0, <1>1, <1>9 DEF OpenIsCounted, session
<1>11. Live'
  <2>1. \A x \in Reqs : MayWrite(x)' <=> MayWrite(x)
    BY <1>1, <1>9 DEF MayWrite, Queued
  <2> QED
    BY <1>0, <1>1, <2>1 DEF Live, log, shards
<1> QED
  BY <1>4, <1>6, <1>7, <1>8, <1>10, <1>11 DEF IInv

LEMMA CompleteKeeps ==
  ASSUME IInv, NEW r \in Reqs, Complete(r)
  PROVE  IInv'
<1> DEFINE p == objOf[r]
<1>0. TypeOK /\ Arrivals /\ Objs /\ Numbers /\ Handles /\ OpenIsCounted
      /\ ArmedCutIsComing /\ Live /\ LinesStayTogether
  BY DEF IInv
<1>1. /\ status[r] = "running" /\ Reachable(r) /\ status' = [status EXCEPT ![r] = "over"]
      /\ queue' = queue \cup CompletionLines(r) /\ draining' = TRUE
      /\ late' = Without(late, r) /\ CloseHandle(r)
      /\ waiting' = (IF ClosesArmed(r) THEN Park(p) ELSE waiting)
      /\ UNCHANGED <<inputs, handle, pending, objOf, made, bound, known, seqOf, seq, prompts,
                     armed, balked, log, shards, history, faults>>
  BY DEF Complete
<1>2. InMemory(r) /\ r \in Open
  BY <1>1 DEF Reachable, InMemory, Open
<1>3. /\ counted' = counted \ {r} /\ counted' \subseteq Reqs
      /\ inflight' \in [Objects -> Nat]
      /\ \A o \in Objects : inflight'[o] = Cardinality({x \in counted' : objOf'[x] = o})
      /\ \A o \in Objects : inflight'[o] = 0 /\ inflight[o] # 0
              => r \in counted /\ o = p /\ inflight[o] = 1
      /\ p \in Objects
  BY <1>0, <1>1, <1>2, CloseHandleFact
<1>4. late' \in Seq(Reqs) /\ NoDup(late') /\ ToSet(late') = ToSet(late) \ {r}
  BY <1>0, <1>1, WithoutSet DEF Handles, TypeOK
<1>5. /\ Sent' = Sent /\ status' \in [Reqs -> {"new", "running", "over"}]
      /\ \A x \in Reqs : status'[x] = "running" => x # r /\ status[x] = "running"
  BY <1>0, <1>1, SentStays
<1>6. \A x \in Reqs : InMemory(x)' => InMemory(x)
  BY <1>1, <1>3, <1>4 DEF InMemory
<1>7. Open' \subseteq Open \ {r}
  BY <1>1, <1>4, <1>5 DEF Open, Reachable
<1>8. \A x \in Reqs, t \in Kinds : <<x, t>> \in queue' => <<x, t>> \in queue \/ (x = r /\ t # "req")
  BY <1>1 DEF CompletionLines
<1>9. waiting' \in Seq(Objects) /\ ToSet(waiting) \subseteq ToSet(waiting')
      /\ (ClosesArmed(r) => p \in ToSet(waiting'))
  <2>1. CASE ClosesArmed(r)
    BY <1>0, <1>1, <1>3, <2>1, ParkFact
  <2>2. CASE ~ClosesArmed(r)
    BY <1>0, <1>1, <2>2 DEF TypeOK
  <2> QED
    BY <2>1, <2>2
<1>10. TypeOK'
  <2>1. queue' \subseteq Lines
    BY <1>0, <1>1 DEF TypeOK, CompletionLines, Lines
  <2> QED
    BY <1>0, <1>1, <1>3, <1>4, <1>5, <1>9, <2>1 DEF TypeOK, inputs, log, shards, history
<1>11. \A x \in Reqs : Trace(x)' => Trace(x)
  <2>1. Trace(r)
    BY <1>2 DEF Trace
  <2>2. \A x \in Reqs, t \in Kinds : x # r /\ Has(x, t)' => Has(x, t)
    BY <1>1, <1>8 DEF Has, log
  <2> QED
    BY <1>6, <2>1, <2>2 DEF Trace
<1>12. Arrivals'
  BY <1>0, <1>1, <1>5, <1>11, ArrivalsStay
<1>13. Objs'
  BY <1>0, <1>1, <1>6, ObjsStay
<1>14. Numbers'
  <2>1. \A x \in Reqs : Logged(x)' => Logged(x)
    BY <1>1, <1>8 DEF Logged, Kinds, log
  <2> QED
    BY <1>0, <1>1, <2>1, NumbersStay DEF history
<1>15. Handles'
  <2>1. Len(late') <= LateMax /\ (late' # <<>> => late # <<>>)
    <3>1. CASE r \in ToSet(late)
      <4>1. late' = RemoveAt(late, Position(late, r)) /\ Position(late, r) \in 1..Len(late)
        BY <1>0, <1>1, <3>1, PositionFact DEF Without, TypeOK
      <4>2. Len(late') = Len(late) - 1 /\ Len(late) \in Nat /\ Len(late) # 0
        BY <1>0, <4>1, RemoveAtLemma DEF TypeOK
      <4>3. Len(late) <= LateMax /\ LateMax \in Nat
        BY <1>0, ShardAssumption DEF Handles
      <4> QED
        BY <4>2, <4>3
    <3>2. CASE r \notin ToSet(late)
      BY <1>0, <1>1, <3>2 DEF Without, Handles
    <3> QED
      BY <3>1, <3>2
  <2> QED
    BY <1>0, <1>1, <1>3, <1>4, <2>1 DEF Handles
<1>16. OpenIsCounted'
  BY <1>0, <1>3, <1>7 DEF OpenIsCounted
<1>17. ArmedCutIsComing'
  <2> SUFFICES ASSUME NEW o \in armed \ balked, inflight'[o] = 0 PROVE o \in ToSet(waiting')
    BY <1>1 DEF ArmedCutIsComing
  <2>1. o \in Objects
    BY <1>0 DEF TypeOK
  <2>2. CASE inflight[o] = 0
    BY <1>0, <1>9, <2>2 DEF ArmedCutIsComing
  <2>3. CASE inflight[o] # 0
    <3>1. ClosesArmed(r) /\ o = p
      BY <1>3, <2>1, <2>3 DEF ClosesArmed
    <3> QED
      BY <1>9, <3>1
  <2> QED
    BY <2>2, <2>3
<1>18. Live'
  <2>1. \A x \in Reqs : MayWrite(x)' => MayWrite(x)
    BY <1>2, <1>7, <1>8 DEF MayWrite, Queued
  <2> QED
    BY <1>0, <1>1, <2>1, LiveStays DEF log, shards
<1>19. LinesStayTogether'
  BY <1>0, <1>1, TogetherStays DEF log, shards, history
<1> QED
  BY <1>10, <1>12, <1>13, <1>14, <1>15, <1>16, <1>17, <1>18, <1>19 DEF IInv

LEMMA EndUnloggedKeeps ==
  ASSUME IInv, NEW r \in Reqs, EndUnlogged(r)
  PROVE  IInv'
<1>0. TypeOK /\ Arrivals /\ Objs /\ Numbers /\ Handles /\ OpenIsCounted
      /\ ArmedCutIsComing /\ Live /\ LinesStayTogether
  BY DEF IInv
<1>1. /\ status[r] = "running" /\ ~Reachable(r) /\ status' = [status EXCEPT ![r] = "over"]
      /\ UNCHANGED <<inputs, handles, session, latches, queue, draining, log, shards, history,
                     faults>>
  BY DEF EndUnlogged
<1>2. /\ Sent' = Sent /\ status' \in [Reqs -> {"new", "running", "over"}]
      /\ \A x \in Reqs : status'[x] = "running" => x # r /\ status[x] = "running"
  BY <1>0, <1>1, SentStays
<1>3. Open' \subseteq Open
  BY <1>1, <1>2 DEF Open, Reachable, handles
<1>4. \A x \in Reqs : /\ InMemory(x)' => InMemory(x)
                      /\ Trace(x)' => Trace(x)
                      /\ Logged(x)' => Logged(x)
                      /\ MayWrite(x)' => MayWrite(x)
  BY <1>1, <1>3 DEF InMemory, Trace, Has, Logged, MayWrite, Queued, handles, log
<1>5. TypeOK'
  BY <1>0, <1>1, <1>2 DEF TypeOK, inputs, handles, session, latches, log, shards, history
<1>6. Arrivals' /\ Objs' /\ Numbers'
  <2>1. queue' # {} => draining'
    BY <1>0, <1>1 DEF Objs
  <2> QED
    BY <1>0, <1>1, <1>2, <1>4, <2>1, ArrivalsStay, ObjsStay, NumbersStay
       DEF handles, session, latches, history
<1>7. Handles' /\ ArmedCutIsComing' /\ OpenIsCounted'
  BY <1>0, <1>1, <1>3 DEF Handles, ArmedCutIsComing, OpenIsCounted, handles, session, latches
<1>8. Live' /\ LinesStayTogether'
  BY <1>0, <1>1, <1>4, LiveStays, TogetherStays DEF log, shards, history
<1> QED
  BY <1>5, <1>6, <1>7, <1>8 DEF IInv

LEMMA WriteKeeps ==
  ASSUME IInv, NEW y \in Reqs, NEW k \in Kinds, Write(<<y, k>>)
  PROVE  IInv'
<1> DEFINE l == <<y, k>>
<1>0. TypeOK /\ Arrivals /\ Objs /\ Numbers /\ Handles /\ OpenIsCounted
      /\ ArmedCutIsComing /\ Live /\ LinesStayTogether
  BY DEF IInv
<1>1. /\ l \in queue /\ queue' = queue \ {l} /\ disk' = disk \cup {l}
      /\ shard' = [shard EXCEPT ![l] = parts + 1]
      /\ UNCHANGED <<inputs, status, handles, session, latches, draining, shards, history,
                     faults>>
  BY DEF Write
<1>2. l \in Lines /\ parts \in Nat
  BY <1>0, <1>1 DEF TypeOK
<1>3. shard'[l] = parts + 1 /\ \A m \in Lines : m # l => shard'[m] = shard[m]
  BY <1>0, <1>1, <1>2 DEF TypeOK
<1>4. Open' = Open /\ Sent' = Sent
  BY <1>1 DEF Open, Reachable, Sent, handles
<1>5. \A x \in Reqs : /\ InMemory(x)' => InMemory(x)
                      /\ Trace(x)' => Trace(x)
                      /\ Logged(x)' => Logged(x)
  BY <1>1 DEF InMemory, Trace, Has, Logged, handles
<1>6. TypeOK'
  <2>1. queue' \subseteq Lines /\ disk' \subseteq Lines
    BY <1>0, <1>1, <1>2 DEF TypeOK
  <2>2. shard \in [Lines -> Nat] /\ parts + 1 \in Nat
    BY <1>0, <1>2 DEF TypeOK
  <2>3. shard' \in [Lines -> Nat]
    BY <1>1, <2>2
  <2> QED
    BY <1>0, <1>1, <2>1, <2>3 DEF TypeOK, inputs, handles, session, latches, shards, history
<1>7. Arrivals' /\ Objs' /\ Numbers'
  <2>1. queue' # {} => draining'
    BY <1>0, <1>1 DEF Objs
  <2> QED
    BY <1>0, <1>1, <1>4, <1>5, <2>1, ArrivalsStay, ObjsStay, NumbersStay
       DEF handles, session, latches, history
<1>8. Handles' /\ ArmedCutIsComing' /\ OpenIsCounted'
  BY <1>0, <1>1, <1>4 DEF Handles, ArmedCutIsComing, OpenIsCounted, handles, session, latches
<1>9. \A x \in Reqs, t \in Kinds : <<x, t>> \in Lines
  BY DEF Lines, Kinds
<1>10. Live'
  <2> SUFFICES ASSUME NEW x \in Reqs \ parted, NEW t \in Kinds, MayWrite(x)', <<x, t>> \in disk'
               PROVE  shard'[<<x, t>>] = parts + 1
    BY <1>1 DEF Live, shards
  <2>1. CASE <<x, t>> = l
    BY <1>3, <2>1
  <2>2. CASE <<x, t>> # l
    <3>1. MayWrite(x)
      BY <1>1, <1>4 DEF MayWrite, Queued
    <3>2. <<x, t>> \in disk
      BY <1>1, <2>2
    <3> QED
      BY <1>0, <1>3, <1>9, <2>2, <3>1, <3>2 DEF Live
  <2> QED
    BY <2>1, <2>2
<1>11. LinesStayTogether'
  <2> SUFFICES ASSUME NEW x \in Reqs, <<x, "req">> \in disk', x \notin parted
               PROVE  /\ <<x, "done">> \in disk' => shard'[<<x, "done">>] = shard'[<<x, "req">>]
                      /\ <<x, "resp">> \in disk' =>
                           \/ shard'[<<x, "resp">>] = shard'[<<x, "req">>]
                           \/ shard'[<<x, "req">>] \in torn
    BY <1>1 DEF LinesStayTogether, shards, history
  <2>1. CASE x = y
    <3>1. MayWrite(x)
      BY <1>1, <2>1 DEF MayWrite, Queued
    <3>2. \A t \in Kinds : <<x, t>> \in disk' => shard'[<<x, t>>] = parts + 1
      <4> SUFFICES ASSUME NEW t \in Kinds, <<x, t>> \in disk' PROVE shard'[<<x, t>>] = parts + 1
        OBVIOUS
      <4>1. CASE <<x, t>> = l
        BY <1>3, <4>1
      <4>2. CASE <<x, t>> # l
        <5>1. <<x, t>> \in disk
          BY <1>1, <4>2
        <5> QED
          BY <1>0, <1>3, <1>9, <3>1, <4>2, <5>1 DEF Live
      <4> QED
        BY <4>1, <4>2
    <3> QED
      BY <3>2 DEF Kinds
  <2>2. CASE x # y
    <3>1. \A t \in Kinds : /\ <<x, t>> \in disk' <=> <<x, t>> \in disk
                           /\ shard'[<<x, t>>] = shard[<<x, t>>]
      BY <1>1, <1>3, <1>9, <2>2
    <3> QED
      BY <1>0, <3>1 DEF LinesStayTogether, Kinds
  <2> QED
    BY <2>1, <2>2
<1> QED
  BY <1>6, <1>7, <1>8, <1>10, <1>11 DEF IInv

LEMMA LoseKeeps ==
  ASSUME IInv, NEW l \in Lines, Lose(l)
  PROVE  IInv'
<1>0. TypeOK /\ Arrivals /\ Objs /\ Numbers /\ Handles /\ OpenIsCounted
      /\ ArmedCutIsComing /\ Live /\ LinesStayTogether
  BY DEF IInv
<1>1. /\ queue' = queue \ {l} /\ Fails
      /\ UNCHANGED <<inputs, status, handles, session, latches, draining, log, shards, history>>
  BY DEF Lose
<1>2. Open' = Open /\ Sent' = Sent
  BY <1>1 DEF Open, Reachable, Sent, handles
<1>3. \A x \in Reqs : /\ InMemory(x)' => InMemory(x)
                      /\ Trace(x)' => Trace(x)
                      /\ Logged(x)' => Logged(x)
                      /\ MayWrite(x)' => MayWrite(x)
  BY <1>1, <1>2 DEF InMemory, Trace, Has, Logged, MayWrite, Queued, handles, log
<1>4. TypeOK'
  <2>1. faults' \in 0..MaxFaults
    BY <1>0, <1>1, ShardAssumption DEF TypeOK, Fails
  <2> QED
    BY <1>0, <1>1, <2>1 DEF TypeOK, inputs, handles, session, latches, log, shards, history
<1>5. Arrivals' /\ Objs' /\ Numbers'
  <2>1. queue' # {} => draining'
    BY <1>0, <1>1 DEF Objs
  <2> QED
    BY <1>0, <1>1, <1>2, <1>3, <2>1, ArrivalsStay, ObjsStay, NumbersStay
       DEF handles, session, latches, history
<1>6. Handles' /\ ArmedCutIsComing' /\ OpenIsCounted'
  BY <1>0, <1>1, <1>2 DEF Handles, ArmedCutIsComing, OpenIsCounted, handles, session, latches
<1>7. Live' /\ LinesStayTogether'
  BY <1>0, <1>1, <1>3, LiveStays, TogetherStays DEF log, shards, history
<1> QED
  BY <1>4, <1>5, <1>6, <1>7 DEF IInv

LEMMA NoHandles == ToSet(<<>>) = {}
BY DEF ToSet

\* A reset or a resume switch drops what the writer holds in memory, not the
\* callers' handles nor the queue.
LEMMA ResetKeeps ==
  ASSUME IInv, Reset \/ ForeignReset \/ SwitchAway
  PROVE  IInv'
<1>0. TypeOK /\ Arrivals /\ Objs /\ Numbers /\ Handles /\ OpenIsCounted
      /\ ArmedCutIsComing /\ Live /\ LinesStayTogether
  BY DEF IInv
<1>1. /\ Fails /\ (bound' = bound \/ bound' = FALSE)
      /\ \/ pending' = <<>> /\ late' = <<>> /\ known' \in {known, FALSE}
         \/ pending' = pending /\ late' = late /\ known' = known
      /\ UNCHANGED <<inputs, status, handle, counted, objOf, made, seqOf, seq, inflight, prompts,
                     latches, queue, draining, log, shards, history>>
  BY DEF Reset, ForeignReset, SwitchAway, handles
<1>2. ToSet(late') \subseteq ToSet(late) /\ late' \in Seq(Reqs) /\ pending' \in Seq(Reqs)
  <2>1. late \in Seq(Reqs) /\ pending \in Seq(Reqs) /\ <<>> \in Seq(Reqs)
    BY <1>0 DEF TypeOK
  <2> QED
    BY <1>1, <2>1, NoHandles
<1>3. Open' \subseteq Open /\ Sent' = Sent
  BY <1>1, <1>2 DEF Open, Reachable, Sent
<1>4. \A x \in Reqs : /\ InMemory(x)' => InMemory(x)
                      /\ Trace(x)' => Trace(x)
                      /\ Logged(x)' => Logged(x)
                      /\ MayWrite(x)' => MayWrite(x)
  BY <1>1, <1>2, <1>3 DEF InMemory, Trace, Has, Logged, MayWrite, Queued, log
<1>5. TypeOK'
  <2>1. faults' \in 0..MaxFaults
    BY <1>0, <1>1, ShardAssumption DEF TypeOK, Fails
  <2>2. bound' \in BOOLEAN /\ known' \in BOOLEAN
    BY <1>0, <1>1 DEF TypeOK
  <2> QED
    BY <1>0, <1>1, <1>2, <2>1, <2>2 DEF TypeOK, inputs, latches, log, shards, history
<1>6. Arrivals'
  BY <1>0, <1>1, <1>3, <1>4, ArrivalsStay
<1>7. Objs' /\ Numbers'
  <2>1. (queue' # {} => draining') /\ (bound' => bound)
    BY <1>0, <1>1 DEF Objs
  <2> QED
    BY <1>0, <1>1, <1>4, <2>1, ObjsStay, NumbersStay DEF latches, history
<1>8. Handles'
  <2>1. CASE late' = <<>>
    <3>1. NoDup(<<>>) /\ Len(<<>>) <= LateMax
      BY ShardAssumption DEF NoDup
    <3> QED
      BY <2>1, <3>1, NoHandles DEF Handles
  <2>2. CASE late' = late /\ known' = known
    BY <1>0, <1>1, <2>2 DEF Handles
  <2> QED
    BY <1>1, <2>1, <2>2
<1>9. ArmedCutIsComing' /\ OpenIsCounted'
  BY <1>0, <1>1, <1>3 DEF ArmedCutIsComing, OpenIsCounted, latches
<1>10. Live' /\ LinesStayTogether'
  BY <1>0, <1>1, <1>4, LiveStays, TogetherStays DEF log, shards, history
<1> QED
  BY <1>5, <1>6, <1>7, <1>8, <1>9, <1>10 DEF IInv

-----------------------------------------------------------------------------
(* Cuts at the release of a handle and at the end of a drain *)

LEMMA ReleaseKeeps ==
  ASSUME IInv, NEW r \in Reqs, ReleaseIntoCut(r) \/ ReleaseUncut(r), faults' \in 0..MaxFaults
  PROVE  IInv'
<1> DEFINE p == objOf[r]
<1>0. TypeOK /\ Arrivals /\ Objs /\ Numbers /\ Handles /\ OpenIsCounted
      /\ ArmedCutIsComing /\ Live /\ LinesStayTogether
  BY DEF IInv
<1>1. /\ r \in handle /\ status[r] # "new" /\ status' = [status EXCEPT ![r] = "over"]
      /\ CloseHandle(r)
      /\ UNCHANGED <<inputs, handle, pending, late, objOf, made, bound, known, seqOf, seq,
                     queue, draining, log, history>>
  BY DEF ReleaseIntoCut, ReleaseUncut, GiveUp
<1>2. InMemory(r)
  BY <1>1 DEF InMemory
<1>3. /\ counted' = counted \ {r} /\ counted' \subseteq Reqs
      /\ inflight' \in [Objects -> Nat]
      /\ \A o \in Objects : inflight'[o] = Cardinality({x \in counted' : objOf'[x] = o})
      /\ \A o \in Objects : inflight'[o] = 0 /\ inflight[o] # 0
              => r \in counted /\ o = p /\ inflight[o] = 1
      /\ r \in counted /\ inflight[p] = 1 => \A x \in counted' : objOf[x] # p
      /\ p \in Objects
  BY <1>0, <1>1, <1>2, CloseHandleFact
<1>4. /\ Sent' = Sent /\ status' \in [Reqs -> {"new", "running", "over"}]
      /\ \A x \in Reqs : status'[x] = "running" => x # r /\ status[x] = "running"
  BY <1>0, <1>1, SentStays
<1>5. Open' \subseteq Open \ {r}
  BY <1>1, <1>4 DEF Open, Reachable
<1>6. \A x \in Reqs : /\ InMemory(x)' => InMemory(x)
                      /\ Trace(x)' => Trace(x)
                      /\ Logged(x)' => Logged(x)
                      /\ MayWrite(x)' => MayWrite(x)
  BY <1>1, <1>3, <1>5 DEF InMemory, Trace, Has, Logged, MayWrite, Queued, log
<1>7. /\ waiting' \in Seq(Objects) /\ balked' \subseteq Objects /\ armed' \subseteq armed
      /\ prompts' \in [Objects -> Nat]
      /\ parts' \in Nat /\ parts <= parts' /\ cut' \in Seq(Nat) /\ Len(cut') = parts' /\ meta' \in Nat
      /\ stale' \subseteq 1..parts' /\ parted \subseteq parted' /\ parted' \subseteq Reqs
  <2>1. CASE ReleaseIntoCut(r)
    <3>1. /\ Cut(p, seq[p], prompts[p]) /\ armed' = armed \ {p}
          /\ prompts' = [prompts EXCEPT ![p] = 0] /\ UNCHANGED <<waiting, balked>>
      BY <2>1 DEF ReleaseIntoCut
    <3>2. seq[p] \in Nat /\ prompts[p] \in Nat
      BY <1>0, <1>3 DEF TypeOK
    <3>3. /\ parts' \in Nat /\ parts <= parts' /\ cut' \in Seq(Nat) /\ Len(cut') = parts'
          /\ meta' \in Nat /\ stale' \subseteq 1..parts' /\ parted \subseteq parted'
          /\ parted' \subseteq Reqs
      BY <1>0, <1>3, <3>1, <3>2, CutFact
    <3> QED
      BY <1>0, <3>1, <3>3 DEF TypeOK
  <2>2. CASE ReleaseUncut(r)
    <3>1. /\ waiting' = (IF ClosesArmed(r) /\ draining THEN Park(p) ELSE waiting)
          /\ balked' = (IF ClosesArmed(r) /\ ~draining THEN balked \cup {p} ELSE balked)
          /\ UNCHANGED <<armed, prompts, shards>>
      BY <2>2 DEF ReleaseUncut
    <3>2. waiting' \in Seq(Objects) /\ balked' \subseteq Objects
      BY <1>0, <1>3, <3>1, ParkFact DEF TypeOK
    <3> QED
      BY <1>0, <3>1, <3>2 DEF TypeOK, shards
  <2> QED
    BY <2>1, <2>2
<1>8. TypeOK'
  <2>1. /\ 1..parts \subseteq 1..parts' /\ torn' = torn /\ hasty' = hasty
        /\ torn \subseteq 1..parts /\ hasty \subseteq 1..parts /\ armed' \subseteq Objects
    <3>1. 1..parts \subseteq 1..parts'
      BY <1>0, <1>7 DEF TypeOK
    <3>2. armed' \subseteq Objects
      BY <1>0, <1>7 DEF TypeOK
    <3> QED
      BY <1>0, <1>1, <3>1, <3>2 DEF TypeOK, history
  <2>2. torn' \subseteq 1..parts' /\ hasty' \subseteq 1..parts'
    BY <2>1
  <2> QED
    BY <1>0, <1>1, <1>3, <1>4, <1>7, <2>1, <2>2 DEF TypeOK, inputs, log, history
<1>9. Arrivals' /\ Objs' /\ Numbers'
  <2>1. queue' # {} => draining'
    BY <1>0, <1>1 DEF Objs
  <2> QED
    BY <1>0, <1>1, <1>4, <1>6, <1>7, <2>1, ArrivalsStay, ObjsStay, NumbersStay DEF history
<1>10. Handles' /\ OpenIsCounted'
  <2>1. r \notin ToSet(late)
    BY <1>0, <1>1 DEF Handles
  <2> QED
    BY <1>0, <1>1, <1>3, <1>5, <2>1 DEF Handles, OpenIsCounted
<1>11. ArmedCutIsComing'
  <2> SUFFICES ASSUME NEW o \in armed' \ balked', inflight'[o] = 0
               PROVE  o \in ToSet(waiting') /\ draining
    BY <1>1 DEF ArmedCutIsComing
  <2>0. o \in Objects /\ o \in armed
    BY <1>0, <1>7 DEF TypeOK
  <2>1. ToSet(waiting) \subseteq ToSet(waiting') /\ balked \subseteq balked'
    <3>1. CASE ReleaseIntoCut(r)
      BY <3>1 DEF ReleaseIntoCut
    <3>2. CASE ReleaseUncut(r)
      BY <1>0, <1>3, <3>2, ParkFact DEF ReleaseUncut
    <3> QED
      BY <3>1, <3>2
  <2>2. CASE inflight[o] = 0
    BY <1>0, <2>0, <2>1, <2>2 DEF ArmedCutIsComing
  <2>3. CASE inflight[o] # 0
    <3>1. ClosesArmed(r) /\ o = p
      BY <1>3, <2>0, <2>3 DEF ClosesArmed
    <3>2. CASE ReleaseIntoCut(r)
      BY <3>1, <3>2 DEF ReleaseIntoCut
    <3>3. CASE ReleaseUncut(r)
      <4>1. draining /\ waiting' = Park(p)
        BY <3>1, <3>3 DEF ReleaseUncut
      <4> QED
        BY <1>0, <1>3, <3>1, <4>1, ParkFact
    <3> QED
      BY <3>2, <3>3
  <2> QED
    BY <2>2, <2>3
<1>12. Live'
  <2>1. CASE ReleaseIntoCut(r)
    <3>1. ClosesArmed(r) /\ ~draining /\ Cut(p, seq[p], prompts[p])
      BY <2>1 DEF ReleaseIntoCut
    <3>2. queue' = {}
      BY <1>0, <1>1, <3>1 DEF Objs
    <3>3. \A x \in Open' : x \in counted' /\ objOf[x] # p
      BY <1>3, <1>10, <3>1 DEF OpenIsCounted, ClosesArmed
    <3>4. seq[p] \in Nat /\ prompts[p] \in Nat
      BY <1>0, <1>3 DEF TypeOK
    <3>5. \A x \in Open : objOf[x] # p => x \in parted'
      BY <1>0, <1>3, <3>1, <3>4, CutFact
    <3>6. \A x \in Reqs \ parted' : ~MayWrite(x)'
      BY <1>5, <3>2, <3>3, <3>5 DEF MayWrite, Queued
    <3> QED
      BY <1>0, <1>1, <1>6, <1>7, <3>6, LiveStays DEF log
  <2>2. CASE ReleaseUncut(r)
    BY <1>0, <1>1, <1>6, <1>7, <2>2, LiveStays DEF ReleaseUncut, log, shards
  <2> QED
    BY <2>1, <2>2
<1>13. LinesStayTogether'
  BY <1>0, <1>1, <1>7, TogetherStays DEF log, history
<1> QED
  BY <1>8, <1>9, <1>10, <1>11, <1>12, <1>13 DEF IInv

\* What the end of a drain cuts: objects with nothing in flight.
LEMMA TurnsFact ==
  ASSUME TypeOK, Objs, NEW os \in Turns
  PROVE  /\ os \in Seq(Objects) /\ DOMAIN os = 1..Len(os)
         /\ ToSet(os) \subseteq Ready
         /\ \A i \in 1..Len(os) : os[i] \in 1..made /\ os[i] \in Ready /\ inflight[os[i]] = 0
         /\ [i \in DOMAIN os |-> seq[os[i]]] \in Seq(Nat)
         /\ Len([i \in DOMAIN os |-> seq[os[i]]]) = Len(os)
         /\ os # <<>> => prompts[Last(os)] \in Nat
<1>1. PICK n \in 0..Cardinality(Ready) : os \in [1..n -> Ready]
  BY DEF Turns
<1>2. Ready \subseteq Objects /\ Ready \subseteq 1..made /\ \A o \in Ready : inflight[o] = 0
  BY DEF Ready, TypeOK, Objs
<1>3. n \in Nat
  <2>1. Ready \in SUBSET Objects /\ 1 \in Int /\ MaxFaults + 1 \in Int
    BY <1>2, ShardAssumption
  <2>2. IsFiniteSet(Objects)
    BY <2>1, FS_Interval DEF Objects
  <2>3. Cardinality(Ready) \in Nat
    BY <2>1, <2>2, FS_Subset, FS_CardinalityType
  <2> QED
    BY <2>3
<1>4. os \in Seq(Objects) /\ Len(os) = n /\ DOMAIN os = 1..n
  <2>1. os = [i \in 1..n |-> os[i]] /\ \A i \in 1..n : os[i] \in Objects
    BY <1>1, <1>2
  <2> DEFINE f == [i \in 1..n |-> os[i]]
  <2>2. f \in Seq(Objects) /\ Len(f) = n /\ DOMAIN f = 1..n
    BY <1>3, <2>1
  <2> QED
    BY <2>1, <2>2
<1>5. \A i \in 1..n : os[i] \in Ready
  BY <1>1
<1>6. \A i \in 1..n : seq[os[i]] \in Nat
  BY <1>2, <1>5 DEF TypeOK
<1>7. /\ [i \in DOMAIN os |-> seq[os[i]]] \in Seq(Nat)
      /\ Len([i \in DOMAIN os |-> seq[os[i]]]) = Len(os)
  <2>1. [i \in 1..n |-> seq[os[i]]] \in [1..n -> Nat]
    BY <1>6
  <2>2. [i \in 1..n |-> seq[os[i]]] \in Seq(Nat) /\ Len([i \in 1..n |-> seq[os[i]]]) = n
    BY <1>3, <2>1
  <2> QED
    BY <1>4, <2>2
<1>8. os # <<>> => prompts[Last(os)] \in Nat
  <2>1. os # <<>> => n \in 1..n
    BY <1>3, <1>4
  <2> QED
    BY <1>2, <1>4, <1>5, <2>1 DEF Last, TypeOK
<1>9. ToSet(os) \subseteq Ready
  BY <1>4, <1>5 DEF ToSet
<1> QED
  BY <1>2, <1>4, <1>5, <1>7, <1>8, <1>9

\* The shards after it.
LEMMA DrainedShards ==
  ASSUME IInv, NEW os \in Turns, Drained(os)
  PROVE  /\ parts' = parts + Len(os) /\ parts' \in Nat /\ parts <= parts' /\ Len(os) \in Nat
         /\ cut' \in Seq(Nat) /\ Len(cut') = parts' /\ meta' \in Nat
         /\ \A n \in 1..parts : cut'[n] = cut[n]
         /\ \A i \in 1..Len(os) : cut'[parts + i] = seq[os[i]]
         /\ stale \subseteq stale' /\ stale' \subseteq 1..parts'
         /\ \A i \in 1..Len(os) : os[i] < made => parts + i \in stale'
         /\ parted \subseteq parted' /\ parted' \subseteq Reqs
         /\ parts' = parts \/ \A x \in Open : x \in parted'
<1> DEFINE qs == [i \in DOMAIN os |-> seq[os[i]]]
<1>0. TypeOK /\ Objs /\ OpenIsCounted
  BY DEF IInv
<1>1. /\ os \in Seq(Objects) /\ DOMAIN os = 1..Len(os)
      /\ \A i \in 1..Len(os) : os[i] \in Objects /\ inflight[os[i]] = 0
      /\ qs \in Seq(Nat) /\ Len(qs) = Len(os)
      /\ os # <<>> => prompts[Last(os)] \in Nat
  <2>1. Ready \subseteq Objects
    BY <1>0 DEF Ready, TypeOK
  <2> QED
    BY <1>0, <2>1, TurnsFact
<1>2. IF os = <<>> THEN UNCHANGED shards ELSE Cuts(os, qs, prompts[Last(os)])
  BY DEF Drained
<1>3. \A i \in 1..Len(os) : qs[i] = seq[os[i]]
  BY <1>1
<1> HIDE DEF qs
<1>4. CASE os = <<>>
  <2>1. Len(os) = 0 /\ 1..0 = {} /\ UNCHANGED shards
    BY <1>2, <1>4
  <2>2. parts \in Nat /\ cut \in Seq(Nat) /\ Len(cut) = parts /\ meta \in Nat /\ stale \subseteq 1..parts
        /\ parted \subseteq Reqs
    BY <1>0 DEF TypeOK
  <2> QED
    BY <2>1, <2>2 DEF shards
<1>5. CASE os # <<>>
  <2>1. /\ parts' = parts + Len(os) /\ parts' \in Nat /\ parts <= parts'
        /\ cut' \in Seq(Nat) /\ Len(cut') = parts' /\ meta' \in Nat
        /\ \A n \in 1..parts : cut'[n] = cut[n]
        /\ \A i \in 1..Len(os) : cut'[parts + i] = qs[i]
        /\ stale \subseteq stale' /\ stale' \subseteq 1..parts'
        /\ \A i \in 1..Len(os) : os[i] < made => parts + i \in stale'
        /\ parted \subseteq parted' /\ parted' \subseteq Reqs
        /\ \A x \in Open, i \in 1..Len(os) : objOf[x] # os[i] => x \in parted'
    BY <1>0, <1>1, <1>2, <1>5, CutsFact
  <2>2. 1 \in 1..Len(os) /\ Len(os) \in Nat
    BY <1>1, <1>5
  <2>3. \A x \in Open : objOf[x] # os[1]
    BY <1>0, <1>1, <2>2, NoneOpen
  <2> QED
    BY <1>3, <2>1, <2>2, <2>3
<1> QED
  BY <1>4, <1>5

LEMMA DrainedKeeps ==
  ASSUME IInv, NEW os \in Turns, Drained(os), faults' \in 0..MaxFaults
  PROVE  IInv'
<1>0. TypeOK /\ Arrivals /\ Objs /\ Numbers /\ Handles /\ OpenIsCounted
      /\ ArmedCutIsComing /\ Live /\ LinesStayTogether
  BY DEF IInv
<1>1. /\ queue = {} /\ draining' = FALSE /\ waiting' = <<>> /\ armed' = armed \ ToSet(os)
      /\ prompts' = [o \in Objects |-> IF o \in ToSet(os) THEN 0 ELSE prompts[o]]
      /\ balked' = balked \cup (Ready \ ToSet(os))
      /\ UNCHANGED <<inputs, status, handles, made, bound, known, seqOf, seq, inflight, queue,
                     log, history>>
  BY DEF Drained
<1>2. /\ parts' \in Nat /\ parts <= parts' /\ cut' \in Seq(Nat) /\ Len(cut') = parts' /\ meta' \in Nat
      /\ stale' \subseteq 1..parts' /\ parted \subseteq parted' /\ parted' \subseteq Reqs
      /\ parts' = parts \/ \A x \in Open : x \in parted'
  BY DrainedShards
<1>3. Ready \subseteq Objects
  BY <1>0 DEF Ready, TypeOK
<1>4. Open' = Open /\ Sent' = Sent
  BY <1>1 DEF Open, Reachable, Sent, handles
<1>5. \A x \in Reqs : /\ InMemory(x)' => InMemory(x)
                      /\ Trace(x)' => Trace(x)
                      /\ Logged(x)' => Logged(x)
                      /\ MayWrite(x)' => x \in Open /\ MayWrite(x)
  BY <1>1, <1>4 DEF InMemory, Trace, Has, Logged, MayWrite, Queued, handles, log
<1>6. TypeOK'
  <2>1. prompts' \in [Objects -> Nat] /\ balked' \subseteq Objects /\ armed' \subseteq Objects
    BY <1>0, <1>1, <1>3 DEF TypeOK
  <2>2. /\ 1..parts \subseteq 1..parts' /\ torn' = torn /\ hasty' = hasty
        /\ torn \subseteq 1..parts /\ hasty \subseteq 1..parts /\ waiting' \in Seq(Objects)
    BY <1>0, <1>1, <1>2 DEF TypeOK, history
  <2>3. torn' \subseteq 1..parts' /\ hasty' \subseteq 1..parts'
    BY <2>2
  <2> QED
    BY <1>0, <1>1, <1>2, <2>1, <2>2, <2>3 DEF TypeOK, inputs, handles, log, history
<1>7. Arrivals' /\ Objs' /\ Numbers'
  BY <1>0, <1>1, <1>4, <1>5, ArrivalsStay, ObjsStay, NumbersStay DEF handles, history
<1>8. Handles' /\ OpenIsCounted'
  BY <1>0, <1>1, <1>4 DEF Handles, OpenIsCounted, handles
<1>9. ArmedCutIsComing'
  BY <1>0, <1>1 DEF ArmedCutIsComing, Ready
<1>10. Live'
  BY <1>0, <1>1, <1>2, <1>5, LiveStays DEF log
<1>11. LinesStayTogether'
  BY <1>0, <1>1, <1>2, TogetherStays DEF log, history
<1> QED
  BY <1>6, <1>7, <1>8, <1>9, <1>10, <1>11 DEF IInv

-----------------------------------------------------------------------------
(* Crashes *)

\* A crash forgets everything but what is on disk.
LEMMA CrashFact ==
  ASSUME TypeOK, Crash
  PROVE  /\ Sent' = Sent /\ queue' = {} /\ Open' = {} /\ made' = 0
         /\ \A x \in Reqs : /\ ~InMemory(x)'
                            /\ Trace(x)' => Trace(x)
                            /\ Logged(x)' => Logged(x)
                            /\ ~MayWrite(x)'
         /\ pending' = <<>> /\ disk' = disk /\ seqOf' = seqOf /\ unseen' = unseen
         /\ status' \in [Reqs -> {"new", "running", "over"}]
         /\ faults' \in 0..MaxFaults
<1>1. /\ status' = [r \in Reqs |-> IF status[r] = "running" THEN "over" ELSE status[r]]
      /\ handle' = {} /\ pending' = <<>> /\ late' = <<>> /\ counted' = {} /\ queue' = {}
      /\ made' = 0 /\ disk' = disk /\ seqOf' = seqOf /\ unseen' = unseen /\ Fails
  BY DEF Crash
<1>2. status \in [Reqs -> {"new", "running", "over"}]
  BY DEF TypeOK
<1>3. status' \in [Reqs -> {"new", "running", "over"}] /\ Sent' = Sent
  BY <1>1, <1>2 DEF Sent
<1>4. \A x \in Reqs : ~InMemory(x)'
  BY <1>1, NoHandles DEF InMemory
<1>5. Open' = {}
  BY <1>1, <1>2 DEF Open
<1>6. \A x \in Reqs : ~MayWrite(x)'
  BY <1>1, <1>5 DEF MayWrite, Queued
<1>7. \A x \in Reqs : (Trace(x)' => Trace(x)) /\ (Logged(x)' => Logged(x))
  BY <1>1, <1>4 DEF Trace, Has, Logged
<1>8. faults' \in 0..MaxFaults
  BY <1>1, ShardAssumption DEF TypeOK, Fails
<1> QED
  BY <1>1, <1>3, <1>4, <1>5, <1>6, <1>7, <1>8

\* All that the invariant says is about what a crash forgets, but for the lines on
\* disk.
LEMMA CrashKeeps ==
  ASSUME IInv, Crash, shard' \in [Lines -> Nat], parts' \in Nat, cut' \in Seq(Nat), Len(cut') = parts',
         meta' \in Nat, torn' \subseteq 1..parts', hasty' \subseteq 1..parts', stale' \subseteq 1..parts',
         parted' \subseteq Reqs, LinesStayTogether'
  PROVE  IInv'
<1>0. TypeOK /\ Arrivals /\ Objs /\ Numbers
  BY DEF IInv
<1>1. /\ Sent' = Sent /\ queue' = {} /\ Open' = {} /\ made' = 0
      /\ \A x \in Reqs : /\ ~InMemory(x)'
                         /\ Trace(x)' => Trace(x)
                         /\ Logged(x)' => Logged(x)
                         /\ ~MayWrite(x)'
      /\ pending' = <<>> /\ disk' = disk /\ seqOf' = seqOf /\ unseen' = unseen
      /\ status' \in [Reqs -> {"new", "running", "over"}]
      /\ faults' \in 0..MaxFaults
  BY <1>0, CrashFact
<1>2. /\ handle' = {} /\ late' = <<>> /\ counted' = {} /\ objOf' = [r \in Reqs |-> 0]
      /\ bound' = FALSE /\ known' = FALSE
      /\ seq' = Zeros /\ inflight' = Zeros /\ prompts' = Zeros
      /\ armed' = {} /\ waiting' = <<>> /\ balked' = {} /\ draining' = FALSE
      /\ UNCHANGED inputs
  BY DEF Crash
<1>3. Zeros \in [Objects -> Nat] /\ \A o \in Objects : Zeros[o] = 0
  BY DEF Zeros
<1>4. TypeOK'
  <2>1. /\ handle' \subseteq Reqs /\ counted' \subseteq Reqs /\ late' \in Seq(Reqs) /\ pending' \in Seq(Reqs)
        /\ made' \in Objects \cup {0}
        /\ bound' \in BOOLEAN /\ known' \in BOOLEAN /\ draining' \in BOOLEAN
    <3>1. <<>> \in Seq(Reqs)
      OBVIOUS
    <3> QED
      BY <1>1, <1>2, <3>1
  <2>3. objOf' \in [Reqs -> Objects \cup {0}]
    BY <1>2
  <2>2. /\ seq' \in [Objects -> Nat] /\ inflight' \in [Objects -> Nat] /\ prompts' \in [Objects -> Nat]
        /\ armed' \subseteq Objects /\ waiting' \in Seq(Objects) /\ balked' \subseteq Objects
        /\ queue' \subseteq Lines
    BY <1>1, <1>2, <1>3
  <2> QED
    BY <1>0, <1>1, <1>2, <2>1, <2>2, <2>3 DEF TypeOK, inputs
<1>5. Arrivals' /\ Numbers'
  BY <1>0, <1>1, ArrivalsStay, NumbersStay
<1>6. Objs'
  BY <1>1, <1>2 DEF Objs
<1>7. Handles'
  <2>1. NoDup(<<>>) /\ Len(<<>>) <= LateMax
    BY ShardAssumption DEF NoDup
  <2> QED
    BY <1>2, <2>1, NoHandles DEF Handles
<1>8. OpenIsCounted'
  <2>1. \A o \in Objects : {x \in counted' : objOf'[x] = o} = {}
    BY <1>2
  <2>2. \A o \in Objects : inflight'[o] = Cardinality({x \in counted' : objOf'[x] = o})
    BY <1>2, <1>3, <2>1, FS_EmptySet
  <2> QED
    BY <1>1, <2>2 DEF OpenIsCounted
<1>9. ArmedCutIsComing'
  BY <1>2 DEF ArmedCutIsComing
<1>10. Live'
  BY <1>1 DEF Live
<1> QED
  BY <1>4, <1>5, <1>6, <1>7, <1>8, <1>9, <1>10 DEF IInv

LEMMA CrashOutsideCutKeeps ==
  ASSUME IInv, CrashOutsideCut
  PROVE  IInv'
<1>1. TypeOK /\ LinesStayTogether
  BY DEF IInv
<1>2. Crash /\ UNCHANGED <<shard, shards, torn, hasty>>
  BY DEF CrashOutsideCut
<1>3. disk' = disk
  BY <1>2 DEF Crash
<1>4. LinesStayTogether'
  BY <1>1, <1>2, <1>3, TogetherStays DEF shards
<1>5. /\ shard' \in [Lines -> Nat] /\ parts' \in Nat /\ cut' \in Seq(Nat) /\ Len(cut') = parts'
      /\ meta' \in Nat /\ torn' \subseteq 1..parts' /\ hasty' \subseteq 1..parts'
      /\ stale' \subseteq 1..parts' /\ parted' \subseteq Reqs
  BY <1>1, <1>2 DEF TypeOK, shards
<1> QED
  BY <1>2, <1>4, <1>5, CrashKeeps

\* Where a crash in a cut leaves the lines: the journal's two kinds in one place,
\* and the response apart only when the journal is in a torn shard.
LEMMA CrashInCutLines ==
  ASSUME TypeOK, NEW o \in Objects, NEW q \in Nat, NEW done \in {"made", "marked", "journal", "responses"},
         CrashInCut(o, q, done)
  PROVE  /\ shard' \in [Lines -> Nat] /\ disk' = disk
         /\ \A x \in Reqs, t \in Kinds : <<x, t>> \in disk =>
              shard'[<<x, t>>] = IF shard[<<x, t>>] = parts + 1 /\ t \notin Moved(done)
                                 THEN parts + 2 ELSE shard[<<x, t>>]
         /\ parts' = parts + 1 /\ parts' \in Nat
         /\ "req" \in Moved(done) <=> "done" \in Moved(done)
         /\ parts + 1 \in torn' \/ "resp" \in Moved(done)
         /\ "resp" \in Moved(done) => "req" \in Moved(done)
         /\ torn \subseteq torn' /\ torn' \subseteq 1..parts'
<1>1. /\ shard' = [l \in Lines |-> IF l \in disk /\ shard[l] = parts + 1 /\ l[2] \notin Moved(done)
                                   THEN shard[l] + 1 ELSE shard[l]]
      /\ parts' = parts + 1 /\ disk' = disk
      /\ torn' = IF done = "responses" THEN torn ELSE torn \cup {parts + 1}
  BY DEF CrashInCut, Crash
<1>2. parts \in Nat /\ shard \in [Lines -> Nat] /\ disk \subseteq Lines /\ torn \subseteq 1..parts
  BY DEF TypeOK
<1>3. shard' \in [Lines -> Nat]
  BY <1>1, <1>2
<1>4. ASSUME NEW x \in Reqs, NEW t \in Kinds, <<x, t>> \in disk
      PROVE  shard'[<<x, t>>] = IF shard[<<x, t>>] = parts + 1 /\ t \notin Moved(done)
                                THEN parts + 2 ELSE shard[<<x, t>>]
  <2>1. <<x, t>> \in Lines
    BY <1>2, <1>4
  <2>2. shard'[<<x, t>>] = IF shard[<<x, t>>] = parts + 1 /\ t \notin Moved(done)
                           THEN shard[<<x, t>>] + 1 ELSE shard[<<x, t>>]
    BY <1>1, <1>4, <2>1
  <2> QED
    BY <1>2, <2>2
<1>5. /\ "req" \in Moved(done) <=> "done" \in Moved(done)
      /\ "resp" \in Moved(done) => "req" \in Moved(done)
      /\ "resp" \in Moved(done) <=> done = "responses"
  BY DEF Moved
<1>6. torn \subseteq torn' /\ torn' \subseteq 1..parts' /\ parts' \in Nat
  <2>1. 1..parts \subseteq 1..parts' /\ parts + 1 \in 1..parts'
    BY <1>1, <1>2
  <2> QED
    BY <1>1, <1>2, <2>1
<1> QED
  BY <1>1, <1>3, <1>4, <1>5, <1>6

LEMMA CrashInCutKeeps ==
  ASSUME IInv, NEW o \in Objects, NEW q \in Nat, NEW done \in {"made", "marked", "journal", "responses"},
         CrashInCut(o, q, done)
  PROVE  IInv'
<1>0. TypeOK /\ LinesStayTogether
  BY DEF IInv
<1>1. /\ shard' \in [Lines -> Nat] /\ disk' = disk
      /\ \A x \in Reqs, t \in Kinds : <<x, t>> \in disk =>
           shard'[<<x, t>>] = IF shard[<<x, t>>] = parts + 1 /\ t \notin Moved(done)
                              THEN parts + 2 ELSE shard[<<x, t>>]
      /\ parts' = parts + 1 /\ parts' \in Nat
      /\ "req" \in Moved(done) <=> "done" \in Moved(done)
      /\ parts + 1 \in torn' \/ "resp" \in Moved(done)
      /\ "resp" \in Moved(done) => "req" \in Moved(done)
      /\ torn \subseteq torn' /\ torn' \subseteq 1..parts'
  BY <1>0, CrashInCutLines
<1>2. /\ Crash /\ cut' = Append(cut, IF done = "made" THEN 0 ELSE q)
      /\ hasty' = (IF o = Current /\ q > SeqNow THEN hasty \cup {parts + 1} ELSE hasty)
      /\ stale' = (IF o < made THEN stale \cup {parts + 1} ELSE stale)
      /\ UNCHANGED <<meta, parted>>
  BY DEF CrashInCut
<1>3. /\ parts \in Nat /\ cut \in Seq(Nat) /\ Len(cut) = parts /\ meta \in Nat
      /\ hasty \subseteq 1..parts /\ stale \subseteq 1..parts /\ parted \subseteq Reqs
      /\ torn \subseteq 1..parts
  BY <1>0 DEF TypeOK
<1>4. cut' \in Seq(Nat) /\ Len(cut') = parts'
  BY <1>1, <1>2, <1>3
<1>5. hasty' \subseteq 1..parts' /\ stale' \subseteq 1..parts'
  <2>1. 1..parts \subseteq 1..parts' /\ parts + 1 \in 1..parts'
    BY <1>1, <1>3
  <2> QED
    BY <1>2, <1>3, <2>1
<1>6. LinesStayTogether'
  <2> SUFFICES ASSUME NEW x \in Reqs, <<x, "req">> \in disk, x \notin parted
               PROVE  /\ <<x, "done">> \in disk => shard'[<<x, "done">>] = shard'[<<x, "req">>]
                      /\ <<x, "resp">> \in disk =>
                           \/ shard'[<<x, "resp">>] = shard'[<<x, "req">>]
                           \/ shard'[<<x, "req">>] \in torn'
    BY <1>1, <1>2 DEF LinesStayTogether
  <2> DEFINE s(t) == shard[<<x, t>>]
             s1(t) == shard'[<<x, t>>]
             Cond(t) == s(t) = parts + 1 /\ t \notin Moved(done)
  <2>1. \A t \in Kinds : <<x, t>> \in disk => s1(t) = IF Cond(t) THEN parts + 2 ELSE s(t)
    BY <1>1
  <2>2. /\ <<x, "done">> \in disk => s("done") = s("req")
        /\ <<x, "resp">> \in disk => s("resp") = s("req") \/ s("req") \in torn
    BY <1>0 DEF LinesStayTogether
  <2>3. "req" \in Kinds /\ "resp" \in Kinds /\ "done" \in Kinds
    BY DEF Kinds
  <2> HIDE DEF s, s1
  <2>4. <<x, "done">> \in disk => s1("done") = s1("req")
    BY <1>1, <2>1, <2>2, <2>3
  <2>5. ASSUME <<x, "resp">> \in disk PROVE s1("resp") = s1("req") \/ s1("req") \in torn'
    <3>1. CASE s("req") \in torn
      <4>1. s("req") # parts + 1
        BY <1>3, <3>1
      <4> QED
        BY <1>1, <2>1, <2>3, <3>1, <4>1
    <3>2. CASE s("resp") = s("req")
      BY <1>1, <2>1, <2>3, <2>5, <3>2
    <3> QED
      BY <2>2, <2>5, <3>1, <3>2
  <2> QED
    BY <2>4, <2>5 DEF s, s1
<1> QED
  BY <1>1, <1>2, <1>3, <1>4, <1>5, <1>6, CrashKeeps

-----------------------------------------------------------------------------
(* Requests that are logged *)

\* The requests that get a number, the handles that are forgotten and the counts.
\* What is forgotten was held until now: a session that is known holds no more.
LEMMA LogSets ==
  ASSUME IInv, NEW r \in Reqs, NEW base \in Nat, Arrives(r), Log(r, base),
         NEW l, l = Append(pending, r), NEW f, f = Forgotten(late \o pending)
  PROVE  /\ late' \in Seq(Reqs) /\ NoDup(late') /\ Len(late') <= LateMax
         /\ ToSet(late') = (ToSet(late) \cup ToSet(pending)) \ ToSet(f)
         /\ ToSet(f) \subseteq ToSet(pending)
         /\ counted' = (counted \cup ToSet(l)) \ ToSet(f) /\ counted' \subseteq Reqs
         /\ \A x \in counted' : x \in Reqs
         /\ objOf' \in [Reqs -> Objects \cup {0}]
         /\ \A x \in ToSet(l) : objOf'[x] = Current
         /\ \A x \in Reqs \ ToSet(l) : objOf'[x] = objOf[x]
         /\ inflight' \in [Objects -> Nat]
         /\ \A o \in Objects : inflight'[o] = Cardinality({x \in counted' : objOf'[x] = o})
         /\ \A o \in Objects : o # Current => inflight'[o] = inflight[o]
         /\ inflight'[Current] # 0
         /\ r \in counted' /\ r \notin ToSet(f) /\ ToSet(f) \cap handle = {}
<1> DEFINE c == Current
           C(o) == {x \in counted : objOf[x] = o}
<1>0. TypeOK /\ Arrivals /\ Objs /\ Handles /\ OpenIsCounted /\ IsNext(r) /\ c \in Objects
  BY DEF IInv, Arrives
<1>1. /\ l \in Seq(Reqs) /\ NoDup(l) /\ NoDup(pending) /\ Len(l) \in Nat
      /\ ToSet(l) = ToSet(pending) \cup {r} /\ r \notin ToSet(pending)
      /\ \A y \in ToSet(l) : ~Trace(y) /\ y \in Reqs
  BY <1>0, LoggedFact
<1>2. /\ late' = Remembered(late \o pending)
      /\ counted' = (counted \cup ToSet(l)) \ ToSet(f)
      /\ inflight' = [inflight EXCEPT ![c] = inflight[c] + Len(l) - Len(f)]
      /\ objOf' = [x \in Reqs |-> IF x \in ToSet(l) THEN c ELSE objOf[x]]
  BY DEF Log
<1>3. /\ pending \in Seq(Reqs) /\ late \in Seq(Reqs) /\ counted \subseteq Reqs
      /\ inflight \in [Objects -> Nat] /\ objOf \in [Reqs -> Objects \cup {0}]
  BY <1>0 DEF TypeOK
<1>4. /\ NoDup(late) /\ ToSet(late) \subseteq counted /\ ToSet(late) \cap handle = {}
      /\ Len(late) <= LateMax
  BY <1>0 DEF Handles
<1>5. \A y \in ToSet(l) : y \notin ToSet(late) /\ y \notin counted /\ y \notin handle
  BY <1>1 DEF Trace, InMemory
<1>6. /\ late \o pending \in Seq(Reqs) /\ NoDup(late \o pending)
      /\ ToSet(late \o pending) = ToSet(late) \cup ToSet(pending)
  <2>1. ToSet(late) \cap ToSet(pending) = {}
    BY <1>1, <1>5
  <2> QED
    BY <1>1, <1>3, <1>4, <2>1, ConcatSet
<1>7. /\ f \in Seq(Reqs) /\ NoDup(f) /\ late' \in Seq(Reqs) /\ NoDup(late')
      /\ ToSet(f) \subseteq ToSet(late) \cup ToSet(pending)
      /\ ToSet(late') = (ToSet(late) \cup ToSet(pending)) \ ToSet(f)
      /\ Len(late') <= LateMax
      /\ Len(late \o pending) <= LateMax => f = <<>>
  BY <1>2, <1>6, SplitSet
<1>8. ToSet(f) \subseteq ToSet(pending)
  <2>1. CASE late = <<>>
    BY <1>7, <2>1, NoHandles
  <2>2. CASE late # <<>>
    <3>1. pending = <<>>
      BY <1>0, <2>2 DEF Handles, Arrivals
    <3>2. late \o pending = late
      BY <1>3, <3>1
    <3>3. f = <<>>
      BY <1>4, <1>7, <3>2
    <3> QED
      BY <3>3, NoHandles
  <2> QED
    BY <2>1, <2>2
<1>9. /\ IsFiniteSet(ToSet(l)) /\ Cardinality(ToSet(l)) = Len(l)
      /\ IsFiniteSet(ToSet(f)) /\ Cardinality(ToSet(f)) = Len(f)
      /\ Len(f) \in Nat
  <2>1. Len(f) \in Nat
    BY <1>7
  <2> QED
    BY <1>1, <1>7, <2>1, SetSize
<1>10. /\ \A o \in Objects : IsFiniteSet(C(o)) /\ C(o) \subseteq Reqs /\ inflight[o] = Cardinality(C(o))
       /\ \A o \in Objects : inflight[o] \in Nat
  BY <1>0, <1>3, CountedFact DEF OpenIsCounted
<1>11. counted' \subseteq Reqs
  BY <1>1, <1>2, <1>3
<1>12. objOf' \in [Reqs -> Objects \cup {0}]
  BY <1>0, <1>2, <1>3
<1>13. /\ \A x \in ToSet(l) : objOf'[x] = c
       /\ \A x \in Reqs \ ToSet(l) : objOf'[x] = objOf[x]
  BY <1>1, <1>2
<1>14. ASSUME NEW o \in Objects, o # c
       PROVE  inflight'[o] = inflight[o] /\ {x \in counted' : objOf'[x] = o} = C(o)
  <2>1. inflight'[o] = inflight[o]
    BY <1>2, <1>3, <1>14
  <2>2. ASSUME NEW x \in counted', objOf'[x] = o PROVE x \in C(o)
    <3>1. x \notin ToSet(l)
      BY <1>13, <1>14, <2>2
    <3> QED
      BY <1>2, <1>3, <1>13, <2>2, <3>1
  <2>3. ASSUME NEW x \in C(o) PROVE x \in counted' /\ objOf'[x] = o
    <3>1. x \in counted /\ x \in Reqs /\ x \notin ToSet(l)
      BY <1>3, <1>5
    <3> QED
      BY <1>1, <1>2, <1>8, <1>13, <3>1
  <2> QED
    BY <2>1, <2>2, <2>3
<1> DEFINE u == C(c) \cup ToSet(l)
<1>15. IsFiniteSet(u) /\ Cardinality(u) = inflight[c] + Len(l)
  <2>1. C(c) \cap ToSet(l) = {}
    BY <1>5
  <2> HIDE DEF C
  <2>2. /\ IsFiniteSet(u)
        /\ Cardinality(u) = Cardinality(C(c)) + Cardinality(ToSet(l)) - Cardinality(C(c) \cap ToSet(l))
    BY <1>0, <1>9, <1>10, FS_Union
  <2>3. Cardinality(C(c) \cap ToSet(l)) = 0
    BY <2>1, FS_EmptySet
  <2>4. inflight[c] \in Nat /\ inflight[c] = Cardinality(C(c)) /\ Cardinality(ToSet(l)) = Len(l) /\ Len(l) \in Nat
    BY <1>0, <1>1, <1>9, <1>10
  <2> QED
    BY <2>2, <2>3, <2>4
<1>16. {x \in counted' : objOf'[x] = c} = u \ ToSet(f)
  <2>1. ASSUME NEW x \in counted', objOf'[x] = c PROVE x \in u \ ToSet(f)
    <3>1. x \in counted \cup ToSet(l) /\ x \notin ToSet(f) /\ x \in Reqs
      BY <1>2, <1>11
    <3> QED
      BY <1>13, <2>1, <3>1
  <2>2. ASSUME NEW x \in u, x \notin ToSet(f) PROVE x \in counted' /\ objOf'[x] = c
    <3>1. CASE x \in ToSet(l)
      BY <1>2, <1>13, <2>2, <3>1
    <3>2. CASE x \notin ToSet(l)
      BY <1>2, <1>3, <1>13, <2>2, <3>2
    <3> QED
      BY <3>1, <3>2
  <2> QED
    BY <2>1, <2>2
<1>17. r \in counted' /\ r \notin ToSet(f) /\ objOf'[r] = c
  BY <1>1, <1>2, <1>8, <1>13
<1> HIDE DEF C
<1>18. ToSet(f) \subseteq u
  BY <1>1, <1>8
<1>19. /\ IsFiniteSet(u \ ToSet(f))
       /\ Cardinality(u \ ToSet(f)) = (inflight[c] + Len(l)) - Len(f)
  <2>1. /\ IsFiniteSet(u \ ToSet(f))
        /\ Cardinality(u \ ToSet(f)) = Cardinality(u) - Cardinality(u \cap ToSet(f))
    BY <1>15, FS_Difference
  <2>2. u \cap ToSet(f) = ToSet(f)
    BY <1>18
  <2> HIDE DEF u
  <2> QED
    BY <1>9, <1>15, <2>1, <2>2
<1>20. /\ inflight'[c] = Cardinality(u \ ToSet(f)) /\ inflight'[c] \in Nat
       /\ inflight'[c] # 0
  <2>1. inflight'[c] = inflight[c] + Len(l) - Len(f)
    BY <1>0, <1>2, <1>3
  <2>2. Cardinality(u \ ToSet(f)) \in Nat
    BY <1>19, FS_CardinalityType
  <2>3. r \in u \ ToSet(f)
    BY <1>16, <1>17
  <2>4. Cardinality(u \ ToSet(f)) # 0
    BY <1>19, <2>3, FS_EmptySet
  <2> HIDE DEF u
  <2>5. inflight[c] \in Nat /\ Len(l) \in Nat /\ Len(f) \in Nat
    BY <1>0, <1>1, <1>9, <1>10
  <2>6. inflight'[c] = (inflight[c] + Len(l)) - Len(f)
    BY <2>1, <2>5
  <2>7. inflight'[c] = Cardinality(u \ ToSet(f))
    BY <1>19, <2>6
  <2> QED
    BY <2>2, <2>4, <2>7
<1>21. \A o \in Objects : inflight'[o] = Cardinality({x \in counted' : objOf'[x] = o}) /\ inflight'[o] \in Nat
  <2> TAKE o \in Objects
  <2>1. CASE o = c
    BY <1>16, <1>20, <2>1
  <2>2. CASE o # c
    BY <1>10, <1>14, <2>2
  <2> QED
    BY <2>1, <2>2
<1>22. inflight' \in [Objects -> Nat]
  BY <1>2, <1>3, <1>21
<1>23. ToSet(f) \cap handle = {}
  BY <1>1, <1>5, <1>8
<1> QED
  BY <1>2, <1>7, <1>8, <1>11, <1>12, <1>13, <1>14, <1>17, <1>20, <1>21, <1>22, <1>23

\* Where the number of a request comes from after that.
LEMMA LogNumbers ==
  ASSUME IInv, NEW r \in Reqs, NEW base \in Nat, Arrives(r), Log(r, base),
         NEW l, l = Append(pending, r)
  PROVE  /\ seq' \in [Objects -> Nat] /\ seqOf' \in [Reqs -> Nat]
         /\ \A x \in Reqs \ ToSet(l) : seqOf'[x] = seqOf[x]
         /\ \A x \in Reqs : Logged(x) /\ x \notin unseen' => seqOf[x] <= SeqNow /\ x \notin unseen
         /\ \A x \in ToSet(l) : SeqNow < seqOf'[x] /\ seqOf'[x] <= seq'[Current]
         /\ \A x, y \in ToSet(l) : x < y => seqOf'[x] < seqOf'[y]
         /\ \A k \in 1..Len(l) : \E x \in ToSet(l) : seqOf'[x] = SeqNow + k
         /\ seq'[Current] = SeqNow + Len(l) /\ \A o \in Objects : o # Current => seq'[o] = seq[o]
         /\ SeqNow \in Nat /\ SeqNow <= seq'[Current] /\ unseen \subseteq unseen' /\ unseen' \subseteq Reqs
<1> DEFINE c == Current
<1>0. TypeOK /\ Arrivals /\ Numbers /\ Objs /\ IsNext(r) /\ c \in Objects
  BY DEF IInv, Arrives
<1>1. /\ l \in Seq(Reqs) /\ Len(l) \in Nat /\ \A y \in ToSet(l) : y \in Reqs
      /\ \A i, k \in DOMAIN l : i < k => l[i] < l[k]
      /\ DOMAIN l = 1..Len(l) /\ NoDup(l)
  BY <1>0, LoggedFact
<1>2. /\ SeqNow \in Nat
      /\ \A x \in Reqs : Logged(x) /\ x \notin unseen /\ (bound \/ <<x, "req">> \notin queue)
                           => seqOf[x] <= SeqNow
  BY <1>0, SeqNowFact
<1>3. /\ seq' = [seq EXCEPT ![c] = SeqNow + Len(l)]
      /\ seqOf' = [x \in Reqs |-> IF x \in ToSet(l) THEN SeqNow + Position(l, x) ELSE seqOf[x]]
      /\ unseen' = IF bound THEN unseen ELSE unseen \cup {x \in Reqs : <<x, "req">> \in queue}
  BY DEF Log
<1>4. \A x \in ToSet(l) : Position(l, x) \in 1..Len(l) /\ l[Position(l, x)] = x
  BY <1>1, PositionFact
<1>5. \A x \in ToSet(l) : seqOf'[x] = SeqNow + Position(l, x)
  BY <1>1, <1>3
<1>6. seqOf \in [Reqs -> Nat] /\ seq \in [Objects -> Nat] /\ unseen \subseteq Reqs
  BY <1>0 DEF TypeOK
<1>7. \A x \in Reqs : seqOf'[x] \in Nat
  <2>1. \A x \in ToSet(l) : SeqNow + Position(l, x) \in Nat
    BY <1>1, <1>2, <1>4
  <2> QED
    BY <1>3, <1>6, <2>1
<1>8. seq'[c] = SeqNow + Len(l) /\ SeqNow + Len(l) \in Nat
  BY <1>0, <1>1, <1>2, <1>3, <1>6
<1>9. \A x \in ToSet(l) : SeqNow < seqOf'[x] /\ seqOf'[x] <= seq'[c]
  BY <1>1, <1>2, <1>4, <1>5, <1>8
<1>10. ASSUME NEW x \in ToSet(l), NEW y \in ToSet(l), x < y PROVE seqOf'[x] < seqOf'[y]
  <2>1. Position(l, x) \in 1..Len(l) /\ Position(l, y) \in 1..Len(l)
    BY <1>4
  <2>2. x \in Nat /\ y \in Nat
    <3>1. x \in Reqs /\ y \in Reqs
      BY <1>1
    <3> QED
      BY <3>1, ReqsFinite
  <2>3. Position(l, x) < Position(l, y)
    <3> SUFFICES ASSUME ~(Position(l, x) < Position(l, y)) PROVE FALSE
      OBVIOUS
    <3>1. Position(l, x) = Position(l, y) \/ Position(l, y) < Position(l, x)
      BY <1>1, <2>1
    <3>2. x = y \/ y < x
      BY <1>1, <1>4, <2>1, <3>1
    <3> QED
      BY <1>10, <2>2, <3>2
  <2> QED
    BY <1>2, <1>5, <2>1, <2>3
<1>11. \A x \in Reqs \ ToSet(l) : seqOf'[x] = seqOf[x]
  BY <1>3
<1>12. seqOf' \in [Reqs -> Nat]
  BY <1>3, <1>7
<1>13. seq' \in [Objects -> Nat] /\ \A o \in Objects : o # c => seq'[o] = seq[o]
  BY <1>3, <1>6, <1>8
<1>14. \A x \in Reqs : Logged(x) /\ x \notin unseen' => seqOf[x] <= SeqNow /\ x \notin unseen
  BY <1>2, <1>3
<1>15. ASSUME NEW k \in 1..Len(l) PROVE \E x \in ToSet(l) : seqOf'[x] = SeqNow + k
  <2>1. l[k] \in ToSet(l)
    BY <1>1, ToSetLemma
  <2>2. Position(l, l[k]) \in 1..Len(l) /\ l[Position(l, l[k])] = l[k]
    BY <1>4, <2>1
  <2>3. Position(l, l[k]) = k
    BY <1>1, <2>2 DEF NoDup
  <2> QED
    BY <1>5, <2>1, <2>3
<1>16. unseen \subseteq unseen' /\ unseen' \subseteq Reqs
  BY <1>3, <1>6
<1>17. SeqNow <= seq'[c]
  BY <1>1, <1>2, <1>8
<1> QED
  BY <1>2, <1>8, <1>9, <1>10, <1>11, <1>12, <1>13, <1>14, <1>15, <1>16, <1>17

\* Whether it makes a cut first or not.
LEMMA LogKeeps ==
  ASSUME IInv, NEW r \in Reqs, NEW base \in Nat, Arrives(r), Log(r, base), faults' \in 0..MaxFaults,
         armed' \subseteq armed \cup {Current}, waiting' \in Seq(Objects),
         ToSet(waiting) \subseteq ToSet(waiting'),
         parts' \in Nat, parts <= parts', cut' \in Seq(Nat), Len(cut') = parts', meta' \in Nat,
         hasty' \subseteq 1..parts', stale' \subseteq 1..parts', parted \subseteq parted',
         parted' \subseteq Reqs,
         parts' = parts \/ (queue = {} /\ \A x \in Open : x \in parted')
  PROVE  IInv'
<1> DEFINE l == Append(pending, r)
           f == Forgotten(late \o pending)
           c == Current
<1>0. TypeOK /\ Arrivals /\ Objs /\ Numbers /\ Handles /\ OpenIsCounted
      /\ ArmedCutIsComing /\ Live /\ LinesStayTogether /\ IsNext(r) /\ c \in Objects
  BY DEF IInv, Arrives
<1>1. /\ status' = [status EXCEPT ![r] = "running"]
      /\ made' = c /\ bound' = TRUE /\ known' = TRUE
      /\ prompts' = [prompts EXCEPT ![c] = base + NewPrompts(ToSet(l))]
      /\ queue' = queue \cup RequestLines(ToSet(l)) /\ draining' = TRUE
      /\ handle' = handle \cup {r} /\ pending' = <<>>
      /\ balked' = balked \ {c} /\ disk' = disk /\ shard' = shard
      /\ UNCHANGED <<inputs, torn>>
  BY DEF Log, log
<1>2. /\ ToSet(l) = ToSet(pending) \cup {r} /\ r \notin ToSet(pending)
      /\ \A i \in DOMAIN l : l[i] \in Sent \cup {r}
      /\ \A y \in ToSet(l) : ~Trace(y) /\ y \in Reqs /\ \A x \in Reqs : Trace(x) => x < y
      /\ l \in Seq(Reqs)
  BY <1>0, LoggedFact
<1>3. /\ late' \in Seq(Reqs) /\ NoDup(late') /\ Len(late') <= LateMax
      /\ ToSet(late') = (ToSet(late) \cup ToSet(pending)) \ ToSet(f)
      /\ ToSet(f) \subseteq ToSet(pending)
      /\ counted' = (counted \cup ToSet(l)) \ ToSet(f) /\ counted' \subseteq Reqs
      /\ objOf' \in [Reqs -> Objects \cup {0}]
      /\ \A x \in ToSet(l) : objOf'[x] = c
      /\ \A x \in Reqs \ ToSet(l) : objOf'[x] = objOf[x]
      /\ inflight' \in [Objects -> Nat]
      /\ \A o \in Objects : inflight'[o] = Cardinality({x \in counted' : objOf'[x] = o})
      /\ \A o \in Objects : o # c => inflight'[o] = inflight[o]
      /\ inflight'[c] # 0
      /\ r \in counted' /\ r \notin ToSet(f) /\ ToSet(f) \cap handle = {}
  BY LogSets
<1>4. /\ seq' \in [Objects -> Nat] /\ seqOf' \in [Reqs -> Nat]
      /\ \A x \in Reqs \ ToSet(l) : seqOf'[x] = seqOf[x]
      /\ \A x \in Reqs : Logged(x) /\ x \notin unseen' => seqOf[x] <= SeqNow /\ x \notin unseen
      /\ \A x \in ToSet(l) : SeqNow < seqOf'[x] /\ seqOf'[x] <= seq'[c]
      /\ \A x, y \in ToSet(l) : x < y => seqOf'[x] < seqOf'[y]
      /\ SeqNow \in Nat /\ SeqNow <= seq'[c] /\ unseen' \subseteq Reqs
  BY LogNumbers
<1>5. base + NewPrompts(ToSet(l)) \in Nat
  <2>1. ToSet(l) \in SUBSET Reqs
    BY <1>2
  <2>2. NewPrompts(ToSet(l)) \in Nat
    BY <1>0, <2>1, PromptsFact
  <2> QED
    BY <2>2
<1>6. /\ Sent' = Sent \cup {r} /\ status' \in [Reqs -> {"new", "running", "over"}]
      /\ \A y, x \in Reqs : x < y /\ y \in Sent' => x \in Sent'
  BY <1>0, <1>1, SentFact
<1>o. /\ Objects \subseteq Nat \ {0} /\ made \in Nat /\ c \in Nat /\ made <= c /\ c > 0
      /\ 1..made \subseteq 1..c /\ c \in 1..c
  <2>1. Objects \subseteq Nat \ {0} /\ made \in Nat /\ c \in Nat /\ made <= c
    BY <1>0, ObjectsFact
  <2>2. c > 0
    BY <1>0, <2>1
  <2> QED
    BY <2>1, <2>2
<1> HIDE DEF l, f, c
<1>7. ToSet(l) \subseteq Sent'
  <2>1. \A y \in ToSet(l) : \E i \in DOMAIN l : l[i] = y
    BY DEF ToSet
  <2> QED
    BY <1>2, <1>6, <2>1
<1>9. \A x \in Reqs, t \in Kinds : <<x, t>> \in queue' => <<x, t>> \in queue \/ x \in ToSet(l)
  BY <1>1 DEF RequestLines
<1>10. \A x \in Reqs : InMemory(x)' => InMemory(x) \/ x \in ToSet(l)
  BY <1>1, <1>2, <1>3 DEF InMemory
<1>11. \A x \in Reqs : /\ Logged(x)' => Logged(x) \/ x \in ToSet(l)
                       /\ Trace(x)' => Trace(x) \/ x \in ToSet(l)
                       /\ Logged(x) => Trace(x)
  <2>1. \A x \in Reqs, t \in Kinds : Has(x, t)' => Has(x, t) \/ x \in ToSet(l)
    BY <1>1, <1>9 DEF Has
  <2>2. \A x \in Reqs : (Logged(x) <=> Has(x, "req")) /\ (Logged(x)' <=> Has(x, "req")')
    BY DEF Logged, Has
  <2> QED
    BY <1>10, <2>1, <2>2 DEF Trace, Kinds
<1>12. TypeOK'
  <2>1. prompts' \in [Objects -> Nat]
    BY <1>0, <1>1, <1>5 DEF TypeOK
  <2>2. queue' \subseteq Lines
    BY <1>0, <1>1, <1>2 DEF RequestLines, Lines, TypeOK
  <2>3. armed' \subseteq Objects /\ balked' \subseteq Objects
    BY <1>0, <1>1 DEF TypeOK, c
  <2>4. handle' \subseteq Reqs /\ pending' \in Seq(Reqs)
    BY <1>0, <1>1 DEF TypeOK
  <2>5. torn' \subseteq 1..parts'
    <3>1. 1..parts \subseteq 1..parts'
      BY <1>0 DEF TypeOK
    <3> QED
      BY <1>0, <1>1, <3>1 DEF TypeOK
  <2>6. made' \in Objects \cup {0} /\ bound' \in BOOLEAN /\ known' \in BOOLEAN /\ draining' \in BOOLEAN
    BY <1>0, <1>1
  <2>7. disk' \subseteq Lines /\ shard' \in [Lines -> Nat] /\ prompt' \in [Reqs -> BOOLEAN] /\ staging' \in BOOLEAN
    BY <1>0, <1>1 DEF TypeOK, inputs
  <2> QED
    BY <1>3, <1>4, <1>6, <2>1, <2>2, <2>3, <2>4, <2>5, <2>6, <2>7 DEF TypeOK
<1>13. Arrivals'
  <2>1. DOMAIN pending' = {}
    BY <1>1
  <2>2. \A x \in Reqs : Trace(x)' => x \in Sent'
    BY <1>0, <1>6, <1>7, <1>11 DEF Arrivals
  <2> QED
    BY <1>1, <1>6, <2>1, <2>2 DEF Arrivals
<1>14. Objs'
  <2>1. armed' \subseteq 1..c
    BY <1>0, <1>o DEF Objs, c
  <2>2. \A x \in Reqs : InMemory(x)' => objOf'[x] \in 1..c
    BY <1>0, <1>2, <1>3, <1>10, <1>o DEF Objs
  <2> QED
    BY <1>1, <1>o, <2>1, <2>2 DEF Objs
<1>15. Numbers'
  <2>1. \A x \in Reqs : Logged(x) => Trace(x) /\ x \notin ToSet(l)
    BY <1>2, <1>11
  <2>2. \A x \in Reqs : seqOf'[x] \in Nat /\ seqOf[x] \in Nat /\ x \in Nat
    BY <1>0, <1>4, ReqsFinite DEF TypeOK
  <2>3. seq'[c] \in Nat
    BY <1>0, <1>4 DEF c
  <2>4. ASSUME NEW x \in Reqs, Logged(x)', x \notin unseen' PROVE seqOf'[x] <= seq'[c]
    <3>1. CASE x \in ToSet(l)
      BY <1>4, <3>1
    <3>2. CASE x \notin ToSet(l)
      <4>1. seqOf'[x] = seqOf[x] /\ seqOf[x] <= SeqNow
        BY <1>4, <1>11, <2>4, <3>2
      <4> QED
        BY <1>4, <2>2, <2>3, <4>1
    <3> QED
      BY <3>1, <3>2
  <2>5. ASSUME NEW x \in Reqs, NEW y \in Reqs, x < y, Logged(x)', Logged(y)', x \notin unseen'
        PROVE  seqOf'[x] < seqOf'[y]
    <3>1. CASE x \in ToSet(l) /\ y \in ToSet(l)
      BY <1>4, <2>5, <3>1
    <3>2. CASE x \notin ToSet(l) /\ y \in ToSet(l)
      <4>1. seqOf'[x] = seqOf[x] /\ seqOf[x] <= SeqNow /\ SeqNow < seqOf'[y]
        BY <1>4, <1>11, <2>5, <3>2
      <4> QED
        BY <1>4, <2>2, <4>1
    <3>3. CASE x \in ToSet(l) /\ y \notin ToSet(l)
      <4>1. y < x
        BY <1>2, <1>11, <2>1, <2>5, <3>3
      <4> QED
        BY <2>2, <2>5, <4>1
    <3>4. CASE x \notin ToSet(l) /\ y \notin ToSet(l)
      <4>1. Logged(x) /\ Logged(y) /\ x \notin unseen
        BY <1>4, <1>11, <2>5, <3>4
      <4>2. seqOf[x] < seqOf[y]
        BY <1>0, <2>5, <4>1 DEF Numbers, NumbersInArrivalOrder
      <4> QED
        BY <1>4, <3>4, <4>2
    <3> QED
      BY <3>1, <3>2, <3>3, <3>4
  <2>6. NumbersInArrivalOrder'
    BY <2>5 DEF NumbersInArrivalOrder
  <2> QED
    BY <1>1, <2>4, <2>6 DEF Numbers
<1>16. Handles'
  <2>1. ToSet(late') \subseteq counted'
    BY <1>0, <1>2, <1>3 DEF Handles
  <2>2. ToSet(late') \cap handle' = {}
    <3>1. \A y \in ToSet(pending) : y \notin handle
      BY <1>2 DEF Trace, InMemory
    <3>2. r \notin ToSet(late)
      BY <1>2 DEF Trace, InMemory
    <3> QED
      BY <1>0, <1>1, <1>2, <1>3, <3>1, <3>2 DEF Handles
  <2> QED
    BY <1>1, <1>3, <2>1, <2>2 DEF Handles
<1>17. \A x \in Open' : x \in Open \/ x \in ToSet(l)
  <2> SUFFICES ASSUME NEW x \in Open', x \notin ToSet(l) PROVE x \in Open
    OBVIOUS
  <2>1. x \in Reqs /\ status'[x] = "running" /\ (x \in handle' \/ x \in ToSet(late'))
    BY DEF Open, Reachable
  <2>2. x # r /\ (x \in handle \/ x \in ToSet(late))
    BY <1>1, <1>2, <1>3, <2>1
  <2>3. status[x] = "running"
    BY <1>0, <1>1, <2>1, <2>2 DEF TypeOK
  <2> QED
    BY <2>1, <2>2, <2>3 DEF Open, Reachable
<1>18. OpenIsCounted'
  <2> SUFFICES ASSUME NEW x \in Open' PROVE x \in counted'
    BY <1>3 DEF OpenIsCounted
  <2>1. x \in Reqs /\ status'[x] = "running" /\ (x \in handle' \/ x \in ToSet(late'))
    BY DEF Open, Reachable
  <2>2. CASE x \in ToSet(late')
    BY <1>16, <2>2 DEF Handles
  <2>3. CASE x = r
    BY <1>3, <2>3
  <2>4. CASE x \in handle /\ x # r
    <3>1. status[x] = "running"
      BY <1>0, <1>1, <2>1, <2>4 DEF TypeOK
    <3>2. x \in counted
      BY <1>0, <2>1, <2>4, <3>1 DEF OpenIsCounted, Open, Reachable
    <3> QED
      BY <1>3, <2>4, <3>2
  <2> QED
    BY <1>1, <2>1, <2>2, <2>3, <2>4
<1>19. ArmedCutIsComing'
  <2> SUFFICES ASSUME NEW o \in armed' \ balked', inflight'[o] = 0
               PROVE  o \in ToSet(waiting')
    BY <1>1 DEF ArmedCutIsComing
  <2>1. o # c
    BY <1>3
  <2>2. o \in armed /\ o \in Objects /\ o \notin balked
    BY <1>0, <1>1, <2>1 DEF TypeOK, c
  <2>3. inflight[o] = 0
    BY <1>3, <2>1, <2>2
  <2> QED
    BY <1>0, <2>2, <2>3 DEF ArmedCutIsComing
<1>20. \A x \in Reqs : /\ x \in ToSet(l) => \A t \in Kinds : <<x, t>> \notin disk
                       /\ MayWrite(x)' => MayWrite(x) \/ x \in ToSet(l)
  <2>1. \A x \in ToSet(l), t \in Kinds : <<x, t>> \notin disk
    BY <1>2 DEF Trace, Has
  <2>2. \A x \in Reqs : Queued(x)' => Queued(x) \/ x \in ToSet(l)
    BY <1>9 DEF Queued
  <2> QED
    BY <1>17, <2>1, <2>2 DEF MayWrite
<1>21. Live'
  <2>1. parts' = parts \/ \A x \in Reqs \ parted' : ~MayWrite(x)
    BY DEF MayWrite, Queued
  <2> QED
    BY <1>0, <1>1, <1>20, <2>1, LiveStays
<1>22. LinesStayTogether'
  BY <1>0, <1>1, TogetherStays
<1> QED
  BY <1>12, <1>13, <1>14, <1>15, <1>16, <1>18, <1>19, <1>21, <1>22 DEF IInv

\* A cut of the current object is one of nothing that is open there.
LEMMA CurrentCut ==
  ASSUME IInv, Current \in Objects, Quiescent(Current), NEW q \in Nat, NEW count \in Nat,
         Cut(Current, q, count)
  PROVE  /\ parts' = parts + 1 /\ parts' \in Nat /\ parts <= parts'
         /\ cut' \in Seq(Nat) /\ Len(cut') = parts' /\ meta' \in Nat
         /\ \A n \in 1..parts : cut'[n] = cut[n]
         /\ cut'[parts + 1] = q
         /\ 1..parts \subseteq 1..parts' /\ parts + 1 \in 1..parts'
         /\ stale \subseteq stale' /\ stale' \subseteq 1..parts'
         /\ parted \subseteq parted' /\ parted' \subseteq Reqs
         /\ queue = {} /\ \A x \in Open : x \in parted'
<1>0. TypeOK /\ Objs /\ OpenIsCounted
  BY DEF IInv
<1>1. inflight[Current] = 0 /\ ~draining
  BY DEF Quiescent
<1>2. /\ parts' = parts + 1 /\ parts' \in Nat /\ parts <= parts'
      /\ cut' \in Seq(Nat) /\ Len(cut') = parts' /\ meta' \in Nat
      /\ \A n \in 1..parts : cut'[n] = cut[n]
      /\ cut'[parts + 1] = q
      /\ stale \subseteq stale' /\ stale' \subseteq 1..parts'
      /\ parted \subseteq parted' /\ parted' \subseteq Reqs
      /\ \A x \in Open : objOf[x] # Current => x \in parted'
  BY <1>0, CutFact
<1>3. \A x \in Open : objOf[x] # Current
  BY <1>0, <1>1, NoneOpen
<1>4. queue = {}
  BY <1>0, <1>1 DEF Objs
<1>5. 1..parts \subseteq 1..parts' /\ parts + 1 \in 1..parts'
  BY <1>0, <1>2 DEF TypeOK
<1> QED
  BY <1>2, <1>3, <1>4, <1>5

LEMMA IngestKeeps ==
  ASSUME IInv, NEW r \in Reqs, Arrives(r), faults' \in 0..MaxFaults,
         IngestAfterCut(r) \/ IngestIntoCut(r) \/ IngestUncut(r)
  PROVE  IInv'
<1>0. TypeOK /\ Objs /\ Numbers /\ Current \in Objects
  BY DEF IInv, Arrives
<1>1. PromptsNow \in Nat /\ SeqNow \in Nat /\ hasty \subseteq 1..parts /\ waiting \in Seq(Objects)
  <2>1. {} \in SUBSET Reqs
    OBVIOUS
  <2> QED
    BY <1>0, <2>1, PromptsFact, SeqNowFact DEF TypeOK
<1>2. CASE IngestAfterCut(r)
  <2>1. /\ Quiescent(Current) /\ Log(r, 0) /\ Cut(Current, SeqNow, PromptsNow)
        /\ armed' = armed \ {Current} /\ waiting' = waiting /\ hasty' = hasty
    BY <1>2 DEF IngestAfterCut
  <2>2. /\ parts' \in Nat /\ parts <= parts'
        /\ cut' \in Seq(Nat) /\ Len(cut') = parts' /\ meta' \in Nat
        /\ 1..parts \subseteq 1..parts' /\ stale' \subseteq 1..parts'
        /\ parted \subseteq parted' /\ parted' \subseteq Reqs
        /\ queue = {} /\ \A x \in Open : x \in parted'
    BY <1>0, <1>1, <2>1, CurrentCut
  <2>3. hasty' \subseteq 1..parts'
    BY <1>1, <2>1, <2>2
  <2> QED
    BY <1>1, <2>1, <2>2, <2>3, LogKeeps
<1>3. CASE IngestIntoCut(r)
  <2>1. /\ Quiescent(Current) /\ Log(r, 0) /\ Cut(Current, SeqNow + 1, PromptsNow + 1)
        /\ armed' = armed \ {Current} /\ waiting' = waiting /\ hasty' = hasty \cup {parts + 1}
    BY <1>3 DEF IngestIntoCut
  <2>2. /\ parts' \in Nat /\ parts <= parts'
        /\ cut' \in Seq(Nat) /\ Len(cut') = parts' /\ meta' \in Nat
        /\ 1..parts \subseteq 1..parts' /\ parts + 1 \in 1..parts' /\ stale' \subseteq 1..parts'
        /\ parted \subseteq parted' /\ parted' \subseteq Reqs
        /\ queue = {} /\ \A x \in Open : x \in parted'
    <3>1. SeqNow + 1 \in Nat /\ PromptsNow + 1 \in Nat
      BY <1>1
    <3> QED
      BY <1>0, <2>1, <3>1, CurrentCut
  <2>3. hasty' \subseteq 1..parts'
    BY <1>1, <2>1, <2>2
  <2> QED
    BY <1>1, <2>1, <2>2, <2>3, LogKeeps
<1>4. CASE IngestUncut(r)
  <2>1. /\ Log(r, PromptsNow) /\ armed' \subseteq armed \cup {Current}
        /\ waiting' = waiting \/ waiting' = Park(Current)
        /\ UNCHANGED <<shards, hasty>>
    BY <1>4 DEF IngestUncut
  <2>2. waiting' \in Seq(Objects) /\ ToSet(waiting) \subseteq ToSet(waiting')
    BY <1>0, <1>1, <2>1, ParkFact
  <2>3. /\ parts' \in Nat /\ parts <= parts' /\ cut' \in Seq(Nat) /\ Len(cut') = parts' /\ meta' \in Nat
        /\ hasty' \subseteq 1..parts' /\ stale' \subseteq 1..parts'
        /\ parted \subseteq parted' /\ parted' \subseteq Reqs /\ parts' = parts
    BY <1>0, <2>1 DEF TypeOK, shards
  <2> QED
    BY <1>1, <2>1, <2>2, <2>3, LogKeeps
<1> QED
  BY <1>2, <1>3, <1>4

-----------------------------------------------------------------------------
(* The invariant *)

LEMMA InitHolds == Init => IInv
<1> SUFFICES ASSUME Init PROVE IInv
  OBVIOUS
<1>1. /\ prompt \in [Reqs -> BOOLEAN] /\ staging \in BOOLEAN /\ status = [r \in Reqs |-> "new"]
      /\ handle = {} /\ pending = <<>> /\ late = <<>> /\ counted = {}
      /\ objOf = [r \in Reqs |-> 0] /\ made = 0 /\ bound = FALSE /\ known = FALSE
      /\ seqOf = [r \in Reqs |-> 0] /\ seq = Zeros /\ inflight = Zeros /\ prompts = Zeros
      /\ armed = {} /\ waiting = <<>> /\ balked = {}
      /\ queue = {} /\ draining = FALSE /\ disk = {} /\ shard = [l \in Lines |-> 0]
      /\ parts = 0 /\ cut = <<>> /\ meta = 0 /\ stale = {} /\ parted = {}
      /\ torn = {} /\ hasty = {} /\ unseen = {} /\ faults = 0
  BY DEF Init
<1>2. /\ late \in Seq(Reqs) /\ pending \in Seq(Reqs) /\ waiting \in Seq(Objects)
      /\ ToSet(late) = {} /\ NoDup(late) /\ Len(late) <= LateMax
  BY <1>1, NoHandles, ShardAssumption DEF NoDup
<1>3. Zeros \in [Objects -> Nat] /\ \A o \in Objects : Zeros[o] = 0
  BY DEF Zeros
<1>4. TypeOK
  <2>1. faults \in 0..MaxFaults
    BY <1>1, ShardAssumption
  <2>2. /\ cut \in Seq(Nat) /\ Len(cut) = parts /\ parts \in Nat /\ meta \in Nat
        /\ torn \subseteq 1..parts /\ hasty \subseteq 1..parts /\ stale \subseteq 1..parts
    BY <1>1
  <2>3. /\ prompt \in [Reqs -> BOOLEAN] /\ status \in [Reqs -> {"new", "running", "over"}]
        /\ seqOf \in [Reqs -> Nat] /\ shard \in [Lines -> Nat]
        /\ objOf \in [Reqs -> Objects \cup {0}]
    BY <1>1
  <2>4. /\ handle \subseteq Reqs /\ counted \subseteq Reqs /\ staging \in BOOLEAN
        /\ made \in Objects \cup {0} /\ bound \in BOOLEAN /\ known \in BOOLEAN
        /\ armed \subseteq Objects /\ balked \subseteq Objects /\ draining \in BOOLEAN
        /\ queue \subseteq Lines /\ disk \subseteq Lines
        /\ parted \subseteq Reqs /\ unseen \subseteq Reqs
    BY <1>1
  <2>5. seq \in [Objects -> Nat] /\ inflight \in [Objects -> Nat] /\ prompts \in [Objects -> Nat]
    BY <1>1, <1>3
  <2> QED
    BY <1>2, <2>1, <2>2, <2>3, <2>4, <2>5 DEF TypeOK
<1>5. \A x \in Reqs : ~Trace(x) /\ ~InMemory(x) /\ ~Logged(x)
  BY <1>1, <1>2 DEF Trace, InMemory, Has, Logged
<1>6. Arrivals /\ Numbers
  <2>1. DOMAIN pending = {} /\ Sent = {}
    BY <1>1 DEF Sent
  <2> QED
    BY <1>1, <1>5, <2>1 DEF Arrivals, Numbers, NumbersInArrivalOrder
<1>7. Objs /\ Handles /\ ArmedCutIsComing /\ Live /\ LinesStayTogether
  BY <1>1, <1>2, <1>5 DEF Objs, Handles, ArmedCutIsComing, Live, LinesStayTogether
<1>8. OpenIsCounted
  <2>1. \A o \in Objects : {r \in counted : objOf[r] = o} = {}
    BY <1>1
  <2>2. \A o \in Objects : inflight[o] = Cardinality({r \in counted : objOf[r] = o})
    BY <1>1, <1>3, <2>1, FS_EmptySet
  <2>3. Open = {}
    BY <1>1 DEF Open
  <2> QED
    BY <2>2, <2>3 DEF OpenIsCounted
<1> QED
  BY <1>4, <1>6, <1>7, <1>8 DEF IInv

LEMMA StutterKeeps ==
  ASSUME IInv, UNCHANGED vars
  PROVE  IInv'
<1>0. TypeOK /\ Arrivals /\ Objs /\ Numbers /\ Handles /\ OpenIsCounted
      /\ ArmedCutIsComing /\ Live /\ LinesStayTogether
  BY DEF IInv
<1>1. /\ UNCHANGED <<inputs, status, handles, session, latches, queue, draining>>
      /\ UNCHANGED <<log, shards, history, faults>>
  BY DEF vars
<1>2. Open' = Open /\ Sent' = Sent
  BY <1>1 DEF Open, Reachable, Sent, handles
<1>3. \A x \in Reqs : /\ InMemory(x)' => InMemory(x)
                      /\ Trace(x)' => Trace(x)
                      /\ Logged(x)' => Logged(x)
                      /\ MayWrite(x)' => MayWrite(x)
  BY <1>1, <1>2 DEF InMemory, Trace, Has, Logged, MayWrite, Queued, handles, log
<1>4. TypeOK'
  BY <1>0, <1>1 DEF TypeOK, inputs, handles, session, latches, log, shards, history
<1>5. Arrivals' /\ Objs' /\ Numbers'
  <2>1. queue' # {} => draining'
    BY <1>0, <1>1 DEF Objs
  <2> QED
    BY <1>0, <1>1, <1>2, <1>3, <2>1, ArrivalsStay, ObjsStay, NumbersStay
       DEF handles, session, latches, history
<1>6. Handles' /\ ArmedCutIsComing' /\ OpenIsCounted'
  BY <1>0, <1>1, <1>2 DEF Handles, ArmedCutIsComing, OpenIsCounted, handles, session, latches
<1>7. Live' /\ LinesStayTogether'
  BY <1>0, <1>1, <1>3, LiveStays, TogetherStays DEF log, shards, history
<1> QED
  BY <1>4, <1>5, <1>6, <1>7 DEF IInv

\* The faults that a call may meet.
LEMMA FailsFact ==
  ASSUME TypeOK, Fails \/ UNCHANGED faults
  PROVE  faults' \in 0..MaxFaults
BY ShardAssumption DEF TypeOK, Fails

\* The ways a request is logged, the ways a handle is given up, the ways a drain
\* ends.
LEMMA IngestWays ==
  ASSUME TypeOK, NEW r \in Reqs, Ingest(r) \/ IngestBalked(r)
  PROVE  /\ Arrives(r) /\ faults' \in 0..MaxFaults
         /\ IngestAfterCut(r) \/ IngestIntoCut(r) \/ IngestUncut(r)
BY FailsFact DEF Ingest, IngestBalked

LEMMA ReleaseWays ==
  ASSUME TypeOK, NEW r \in Reqs, Release(r) \/ ReleaseBalked(r)
  PROVE  faults' \in 0..MaxFaults /\ (ReleaseIntoCut(r) \/ ReleaseUncut(r))
BY FailsFact DEF Release, ReleaseBalked

LEMMA DrainWays ==
  ASSUME TypeOK, DrainEnds \/ DrainEndsBalked
  PROVE  faults' \in 0..MaxFaults /\ \E os \in Turns : Drained(os)
BY FailsFact DEF DrainEnds, DrainEndsBalked

\* A crash in a cut leaves a marker that is a number.
LEMMA CrashWays ==
  ASSUME IInv, NEW o \in Objects, NEW done, NEW q \in {seq[o], SeqNow, SeqNow + 1}
  PROVE  q \in Nat
<1>1. TypeOK /\ Objs /\ Numbers
  BY DEF IInv
<1>2. seq[o] \in Nat /\ SeqNow \in Nat
  BY <1>1, SeqNowFact DEF TypeOK
<1> QED
  BY <1>2

LEMMA NextKeeps == IInv /\ [Next]_vars => IInv'
<1> SUFFICES ASSUME IInv, [Next]_vars PROVE IInv'
  OBVIOUS
<1>0. TypeOK
  BY DEF IInv
<1>1. ASSUME NEW r \in Reqs, Hold(r) \/ Complete(r) \/ EndUnlogged(r) PROVE IInv'
  BY <1>1, HoldKeeps, CompleteKeeps, EndUnloggedKeeps
<1>2. ASSUME NEW r \in Reqs, Ingest(r) \/ IngestBalked(r) PROVE IInv'
  BY <1>0, <1>2, IngestWays, IngestKeeps
<1>3. ASSUME NEW r \in Reqs, Release(r) \/ ReleaseBalked(r) PROVE IInv'
  BY <1>0, <1>3, ReleaseWays, ReleaseKeeps
<1>4. ASSUME NEW l \in Lines, Write(l) \/ Lose(l) PROVE IInv'
  <2>1. \E r \in Reqs, k \in Kinds : l = <<r, k>>
    BY DEF Lines, Kinds
  <2> QED
    BY <1>4, <2>1, WriteKeeps, LoseKeeps
<1>5. CASE DrainEnds \/ DrainEndsBalked
  BY <1>0, <1>5, DrainWays, DrainedKeeps
<1>6. CASE Reset \/ ForeignReset \/ SwitchAway
  BY <1>6, ResetKeeps
<1>7. CASE CrashOutsideCut
  BY <1>7, CrashOutsideCutKeeps
<1>8. ASSUME NEW o \in Objects, NEW done \in {"made", "marked", "journal", "responses"},
             NEW q \in {seq[o], SeqNow, SeqNow + 1}, CrashInCut(o, q, done)
      PROVE  IInv'
  <2>1. q \in Nat
    BY CrashWays
  <2> QED
    BY <1>8, <2>1, CrashInCutKeeps
<1>9. CASE UNCHANGED vars
  BY <1>9, StutterKeeps
<1> QED
  BY <1>1, <1>2, <1>3, <1>4, <1>5, <1>6, <1>7, <1>8, <1>9 DEF Next, Call, Fault

\* The inductive invariant holds in every state of every behaviour.
THEOREM V2Invariant == Spec => []IInv
<1> QED
  BY InitHolds, NextKeeps, PTL DEF Spec

\* The variables keep their types: no count goes below zero, no marker is written
\* for a shard there is not.
THEOREM TypeCorrect == Spec => []TypeOK
<1>1. IInv => TypeOK
  BY DEF IInv
<1> QED
  BY <1>1, V2Invariant, PTL

\* A later request gets a greater number, across cuts, resets, crashes, torn cuts
\* and lost lines, but for those whose line a seed could not see (journal.js:22-41).
THEOREM NumbersGivenInOrder == Spec => []NumbersInArrivalOrder
<1>1. IInv => NumbersInArrivalOrder
  BY DEF IInv, Numbers
<1> QED
  BY <1>1, V2Invariant, PTL

\* No cut parts the lines of a request, but one by an object other than the one
\* that has it open (v2-writer.js:564-567, 875-883).
THEOREM RequestsStayWhole == Spec => []LinesStayTogether
<1>1. IInv => LinesStayTogether
  BY DEF IInv
<1> QED
  BY <1>1, V2Invariant, PTL

\* A request that is over is not counted by a handle of its caller.
LEMMA OverStaysReturned ==
  ASSUME IInv, OverIsReturned, [Next]_vars
  PROVE  OverIsReturned'
<1>1. TypeOK /\ Arrivals
  BY DEF IInv
<1>2. status \in [Reqs -> {"new", "running", "over"}] /\ handle \subseteq Reqs /\ counted \subseteq Reqs
  BY <1>1 DEF TypeOK
<1>3. ASSUME NEW r \in Reqs, Hold(r) PROVE OverIsReturned'
  BY <1>2, <1>3 DEF Hold, OverIsReturned
<1>4. ASSUME NEW r \in Reqs, Ingest(r) \/ IngestBalked(r) PROVE OverIsReturned'
  <2>1. IsNext(r) /\ \E base : Log(r, base)
    BY <1>1, <1>4, IngestWays DEF Arrives, IngestAfterCut, IngestIntoCut, IngestUncut
  <2>2. /\ counted' \subseteq counted \cup ToSet(Append(pending, r))
        /\ handle' = handle \cup {r} /\ status' = [status EXCEPT ![r] = "running"]
    BY <2>1 DEF Log
  <2>3. /\ ToSet(Append(pending, r)) = ToSet(pending) \cup {r}
        /\ \A y \in ToSet(Append(pending, r)) : ~Trace(y) /\ y \in Reqs
    BY <1>1, <2>1, LoggedFact
  <2>4. \A y \in ToSet(Append(pending, r)) : y \notin handle
    BY <2>3 DEF Trace, InMemory
  <2> QED
    BY <1>2, <2>2, <2>3, <2>4 DEF OverIsReturned
<1>5. ASSUME NEW r \in Reqs, Complete(r) \/ Release(r) \/ ReleaseBalked(r) PROVE OverIsReturned'
  <2>1. counted' = counted \ {r} /\ handle' = handle /\ status' = [status EXCEPT ![r] = "over"]
    BY <1>1, <1>5, ReleaseWays DEF Complete, ReleaseIntoCut, ReleaseUncut, GiveUp, CloseHandle
  <2> QED
    BY <1>2, <2>1 DEF OverIsReturned
<1>6. ASSUME NEW r \in Reqs, EndUnlogged(r) PROVE OverIsReturned'
  BY <1>2, <1>6 DEF EndUnlogged, Reachable, handles, OverIsReturned
<1>7. ASSUME NEW l \in Lines, Write(l) \/ Lose(l) PROVE OverIsReturned'
  BY <1>7 DEF Write, Lose, handles, OverIsReturned
<1>8. CASE DrainEnds \/ DrainEndsBalked \/ Reset \/ ForeignReset \/ SwitchAway
  <2>1. handle' = handle /\ counted' = counted /\ status' = status
    BY <1>1, <1>8, DrainWays DEF Drained, Reset, ForeignReset, SwitchAway, handles
  <2> QED
    BY <2>1 DEF OverIsReturned
<1>9. CASE Crash
  BY <1>9 DEF Crash, OverIsReturned
<1>10. CASE UNCHANGED vars
  BY <1>10 DEF vars, handles, OverIsReturned
<1>11. CrashOutsideCut \/ (\E o, q, done : CrashInCut(o, q, done)) => Crash
  BY DEF CrashOutsideCut, CrashInCut
<1> QED
  BY <1>3, <1>4, <1>5, <1>6, <1>7, <1>8, <1>9, <1>10, <1>11 DEF Next, Call, Fault

\* Every counted handle closes exactly once, whichever of completion, abort and
\* eviction comes first, across resets and crashes (v2-writer.js:864-900).
THEOREM CountIsOfOpen == Spec => []CountCoversOpen
<1>1. Init => OverIsReturned
  BY DEF Init, OverIsReturned
<1>2. IInv /\ OverIsReturned /\ [Next]_vars => OverIsReturned'
  BY OverStaysReturned
<1>3. IInv => OpenIsCounted
  BY DEF IInv
<1> QED
  BY <1>1, <1>2, <1>3, V2Invariant, PTL DEF Spec, CountCoversOpen

\* An armed cut with nothing open waits for the end of a drain, which makes it,
\* unless the last attempt failed (v2-writer.js:970-982).
THEOREM ArmedCutNotForgotten == Spec => []ArmedCutIsComing
<1>1. IInv => ArmedCutIsComing
  BY DEF IInv
<1> QED
  BY <1>1, V2Invariant, PTL

-----------------------------------------------------------------------------
(* The markers of the cuts *)

\* A request that is not logged yet has no number; one that is has one.
Fresh ==
  /\ \A x \in Reqs : x \notin Sent \/ x \in ToSet(pending) => seqOf[x] = 0
  /\ \A x \in Reqs : Logged(x) => seqOf[x] > 0

\* Numbers are given without gaps, and a marker names one that was given, but for
\* that of a hasty cut.
IsGiven(k) == \E x \in Reqs : seqOf[x] = k

Given ==
  /\ \A x \in Reqs : \A k \in 1..seqOf[x] : IsGiven(k)
  /\ \A o \in Objects : \A k \in 1..seq[o] : IsGiven(k)
  /\ \A n \in 1..parts : \A k \in 1..cut[n] : IsGiven(k) \/ (n \in hasty /\ k = cut[n])

InShard == \A x \in Reqs : <<x, "req">> \in disk => shard[<<x, "req">>] \in 1..parts + 1

\* The marker of a shard is not before what the shard holds, and not before what
\* the shards ahead of it hold if it was written at all.
Covers ==
  \A x \in Reqs, n \in 1..parts :
    /\ x \notin unseen /\ n \notin stale /\ <<x, "req">> \in disk
    /\ shard[<<x, "req">>] = n \/ (shard[<<x, "req">>] <= n /\ cut[n] # 0)
    => seqOf[x] <= cut[n]

\* It is before all that comes after the cut, or the number was given twice.
After(x, n) == \/ <<x, "req">> \in queue
               \/ <<x, "req">> \in disk /\ shard[<<x, "req">>] > n

Beyond ==
  \A x \in Reqs, n \in 1..parts :
    n \notin torn /\ After(x, n) =>
      \/ cut[n] < seqOf[x]
      \/ n \in hasty /\ cut[n] = seqOf[x]
      \/ \E y \in Reqs \ {x} : seqOf[y] = seqOf[x]

Marks == Fresh /\ Given /\ InShard /\ Covers /\ Beyond

\* A journal goes on after numbers that were all given.
LEMMA SeqNowGiven ==
  ASSUME IInv, Marks
  PROVE  \A k \in 1..SeqNow : IsGiven(k)
<1>1. TypeOK /\ Objs
  BY DEF IInv
<1>2. CASE bound
  BY <1>1, <1>2, ObjectsFact DEF Marks, Given, SeqNow, Objs
<1>3. CASE ~bound
  <2>1. SeqNow = Seed /\ Seed \in {0} \cup SeqsOf(disk)
    BY <1>1, <1>3, SeedFact DEF SeqNow
  <2>2. CASE Seed = 0
    BY <2>1, <2>2
  <2>3. CASE Seed \in SeqsOf(disk)
    <3>1. PICK l \in disk : Seed = seqOf[l[1]]
      BY <2>3 DEF SeqsOf
    <3>2. l[1] \in Reqs
      BY <1>1 DEF TypeOK, Lines
    <3> QED
      BY <2>1, <3>1, <3>2 DEF Marks, Given
  <2> QED
    BY <2>1, <2>2, <2>3
<1> QED
  BY <1>2, <1>3

\* Cuts that objects make with what they gave out, and nothing else that changes.
LEMMA MarksStay ==
  ASSUME IInv, Marks,
         \A x \in Reqs : x \notin Sent' \/ x \in ToSet(pending') => x \notin Sent \/ x \in ToSet(pending),
         seqOf' = seqOf, disk' = disk, shard' = shard,
         torn' = torn, hasty' = hasty, unseen' = unseen,
         \A o \in Objects : seq'[o] = seq[o] \/ seq'[o] = 0,
         \A x \in Reqs : <<x, "req">> \in queue' => <<x, "req">> \in queue,
         parts' \in Nat, parts <= parts', \A n \in 1..parts : cut'[n] = cut[n], stale \subseteq stale',
         parts' = parts \/ queue' = {},
         \A n \in 1..parts' : n \in 1..parts \/
           \E o \in 1..made : cut'[n] = seq[o] /\ (n \notin stale' => o = made)
  PROVE  Marks'
<1>0. TypeOK /\ Objs /\ Numbers /\ Fresh /\ Given /\ InShard /\ Covers /\ Beyond
  BY DEF IInv, Marks
<1>1. /\ parts \in Nat /\ made \in Nat /\ 1..made \subseteq Objects
      /\ \A n \in 1..parts' : n \in 1..parts \/ n > parts
      /\ \A x \in Reqs : seqOf[x] \in Nat
      /\ \A x \in Reqs : <<x, "req">> \in Lines
      /\ \A l \in Lines : shard[l] \in Nat
  <2>1. made \in Nat /\ 1..made \subseteq Objects
    BY <1>0, ObjectsFact
  <2>2. parts \in Nat /\ \A x \in Reqs : seqOf[x] \in Nat
    BY <1>0 DEF TypeOK
  <2>3. /\ \A x \in Reqs : <<x, "req">> \in Lines
        /\ \A l \in Lines : shard[l] \in Nat
    BY <1>0 DEF TypeOK, Lines
  <2>4. \A n \in 1..parts' : n \in 1..parts \/ n > parts
    BY <2>2
  <2> QED
    BY <2>1, <2>2, <2>3, <2>4
<1>2. Fresh'
  <2>1. \A x \in Reqs : Logged(x)' => Logged(x)
    BY DEF Logged
  <2> QED
    BY <1>0, <2>1 DEF Fresh
<1>3. \A k : IsGiven(k)' <=> IsGiven(k)
  BY DEF IsGiven
<1>4. Given'
  <2>1. \A o \in Objects : \A k \in 1..seq'[o] : IsGiven(k)
    <3> SUFFICES ASSUME NEW o \in Objects, NEW k \in 1..seq'[o] PROVE IsGiven(k)
      OBVIOUS
    <3>1. seq'[o] # 0
      OBVIOUS
    <3>2. seq'[o] = seq[o]
      BY <3>1
    <3> QED
      BY <1>0, <3>2 DEF Given
  <2>2. \A n \in 1..parts' : \A k \in 1..cut'[n] : IsGiven(k) \/ (n \in hasty /\ k = cut'[n])
    <3> SUFFICES ASSUME NEW n \in 1..parts', NEW k \in 1..cut'[n]
                 PROVE  IsGiven(k) \/ (n \in hasty /\ k = cut'[n])
      OBVIOUS
    <3>1. CASE n \in 1..parts
      BY <1>0, <3>1 DEF Given
    <3>2. CASE n \notin 1..parts
      <4>1. PICK o \in 1..made : cut'[n] = seq[o]
        BY <3>2
      <4>2. o \in Objects /\ k \in 1..seq[o]
        BY <1>1, <4>1
      <4> QED
        BY <1>0, <4>2 DEF Given
    <3> QED
      BY <3>1, <3>2
  <2>3. \A x \in Reqs : \A k \in 1..seqOf'[x] : IsGiven(k)
    BY <1>0 DEF Given
  <2>4. /\ \A x \in Reqs : \A k \in 1..seqOf'[x] : IsGiven(k)'
        /\ \A o \in Objects : \A k \in 1..seq'[o] : IsGiven(k)'
    BY <1>3, <2>1, <2>3
  <2>5. \A n \in 1..parts' : \A k \in 1..cut'[n] : IsGiven(k)' \/ (n \in hasty' /\ k = cut'[n])
    BY <1>3, <2>2
  <2> QED
    BY <2>4, <2>5 DEF Given
<1>5. InShard'
  <2>1. 1..parts + 1 \subseteq 1..parts' + 1
    <3>1. parts \in Nat /\ parts' \in Nat /\ parts <= parts'
      BY <1>1
    <3>2. \A p \in Nat, p1 \in Nat : p <= p1 => 1..p + 1 \subseteq 1..p1 + 1
      OBVIOUS
    <3> QED
      BY <3>1, <3>2
  <2> QED
    BY <1>0, <2>1 DEF InShard
<1>6. Covers'
  <2> SUFFICES ASSUME NEW x \in Reqs, NEW n \in 1..parts', x \notin unseen, n \notin stale',
                      <<x, "req">> \in disk,
                      shard[<<x, "req">>] = n \/ (shard[<<x, "req">>] <= n /\ cut'[n] # 0)
               PROVE  seqOf[x] <= cut'[n]
    BY DEF Covers
  <2>1. CASE n \in 1..parts
    BY <1>0, <2>1 DEF Covers
  <2>2. CASE n \notin 1..parts
    <3>1. made > 0 /\ cut'[n] = seq[made]
      BY <1>1, <2>2
    <3>2. Logged(x)
      BY DEF Logged
    <3> QED
      BY <1>0, <3>1, <3>2 DEF Numbers
  <2> QED
    BY <2>1, <2>2
<1>7. Beyond'
  <2> SUFFICES ASSUME NEW x \in Reqs, NEW n \in 1..parts', n \notin torn, After(x, n)'
               PROVE  \/ cut'[n] < seqOf[x]
                      \/ n \in hasty /\ cut'[n] = seqOf[x]
                      \/ \E y \in Reqs \ {x} : seqOf[y] = seqOf[x]
    BY DEF Beyond
  <2>1. After(x, n)
    BY DEF After
  <2>2. CASE n \in 1..parts
    BY <1>0, <2>1, <2>2 DEF Beyond
  <2>3. CASE n \notin 1..parts
    <3>1. parts' # parts /\ n > parts
      BY <1>1, <2>3
    <3>2. <<x, "req">> \in disk /\ shard[<<x, "req">>] > n
      BY <3>1 DEF After
    <3>3. shard[<<x, "req">>] \in 1..parts + 1
      BY <1>0, <3>2 DEF InShard
    <3> QED
      BY <1>1, <3>1, <3>2, <3>3
  <2> QED
    BY <2>2, <2>3
<1> QED
  BY <1>2, <1>4, <1>5, <1>6, <1>7 DEF Marks

LEMMA WriteMarks ==
  ASSUME IInv, Marks, NEW z \in Reqs, NEW k \in Kinds, Write(<<z, k>>)
  PROVE  Marks'
<1>0. TypeOK /\ Fresh /\ Given /\ InShard /\ Covers /\ Beyond
  BY DEF IInv, Marks
<1>1. /\ <<z, k>> \in queue /\ queue' = queue \ {<<z, k>>} /\ disk' = disk \cup {<<z, k>>}
      /\ shard' = [shard EXCEPT ![<<z, k>>] = parts + 1]
      /\ UNCHANGED <<status, pending, seqOf, seq, parts, cut, stale, torn, hasty, unseen>>
  BY DEF Write, handles, session, shards, history
<1>2. parts \in Nat /\ <<z, k>> \in Lines /\ \A x \in Reqs : <<x, "req">> \in Lines
  BY <1>0, <1>1 DEF TypeOK, Lines
<1>3. /\ shard'[<<z, k>>] = parts + 1
      /\ \A x \in Reqs : <<x, "req">> # <<z, k>> => shard'[<<x, "req">>] = shard[<<x, "req">>]
  BY <1>0, <1>1, <1>2 DEF TypeOK
<1>4. Sent' = Sent /\ \A x \in Reqs : Logged(x)' => Logged(x)
  BY <1>1 DEF Sent, Logged
<1>5. Fresh' /\ Given'
  BY <1>0, <1>1, <1>4 DEF Fresh, Given, IsGiven
<1>6. InShard'
  <2>1. parts + 1 \in 1..parts + 1
    BY <1>2
  <2> QED
    BY <1>0, <1>1, <1>3, <2>1 DEF InShard
<1>7. Covers'
  <2> SUFFICES ASSUME NEW x \in Reqs, NEW n \in 1..parts, x \notin unseen, n \notin stale,
                      <<x, "req">> \in disk',
                      shard'[<<x, "req">>] = n \/ (shard'[<<x, "req">>] <= n /\ cut[n] # 0)
               PROVE  seqOf[x] <= cut[n]
    BY <1>1 DEF Covers
  <2>1. <<x, "req">> # <<z, k>>
    <3>1. ~(parts + 1 = n) /\ ~(parts + 1 <= n)
      BY <1>2
    <3> QED
      BY <1>3, <3>1
  <2>2. <<x, "req">> \in disk
    BY <1>1, <2>1
  <2> QED
    BY <1>0, <1>3, <2>1, <2>2 DEF Covers
<1>8. \A x \in Reqs, n \in 1..parts : After(x, n)' => After(x, n)
  <2> SUFFICES ASSUME NEW x \in Reqs, NEW n \in 1..parts, After(x, n)' PROVE After(x, n)
    OBVIOUS
  <2>1. CASE <<x, "req">> = <<z, k>>
    BY <1>1, <2>1 DEF After
  <2>2. CASE <<x, "req">> # <<z, k>>
    BY <1>1, <1>3, <2>2 DEF After
  <2> QED
    BY <2>1, <2>2
<1>9. Beyond'
  BY <1>0, <1>1, <1>8 DEF Beyond
<1> QED
  BY <1>5, <1>6, <1>7, <1>9 DEF Marks

\* A request that is logged, after a cut, into one or without.
LEMMA LogMarks ==
  ASSUME IInv, Marks, NEW r \in Reqs, NEW base \in Nat, Arrives(r), Log(r, base),
         parts' \in Nat, stale \subseteq stale',
         \A n \in 1..parts : cut'[n] = cut[n] /\ (n \in hasty' <=> n \in hasty),
         \/ parts' = parts
         \/ /\ parts' = parts + 1 /\ queue = {}
            /\ cut'[parts'] = SeqNow \/ (cut'[parts'] = SeqNow + 1 /\ parts' \in hasty')
  PROVE  Marks'
<1> DEFINE l == Append(pending, r)
           c == Current
<1>0. TypeOK /\ Arrivals /\ Fresh /\ Given /\ InShard /\ Covers /\ Beyond /\ IsNext(r)
      /\ c \in Objects
  BY DEF IInv, Marks, Arrives
<1>1. /\ status' = [status EXCEPT ![r] = "running"] /\ pending' = <<>>
      /\ queue' = queue \cup RequestLines(ToSet(l)) /\ disk' = disk /\ shard' = shard /\ torn' = torn
  BY DEF Log, log
<1>2. /\ ToSet(l) = ToSet(pending) \cup {r}
      /\ \A i \in DOMAIN l : l[i] \in Sent \cup {r}
      /\ \A y \in ToSet(l) : ~Trace(y) /\ y \in Reqs
      /\ l \in Seq(Reqs) /\ Len(l) \in Nat
  BY <1>0, LoggedFact
<1>3. /\ seq' \in [Objects -> Nat] /\ seqOf' \in [Reqs -> Nat]
      /\ \A x \in Reqs \ ToSet(l) : seqOf'[x] = seqOf[x]
      /\ \A x \in Reqs : Logged(x) /\ x \notin unseen' => seqOf[x] <= SeqNow /\ x \notin unseen
      /\ \A x \in ToSet(l) : SeqNow < seqOf'[x] /\ seqOf'[x] <= seq'[c]
      /\ \A k \in 1..Len(l) : \E x \in ToSet(l) : seqOf'[x] = SeqNow + k
      /\ seq'[c] = SeqNow + Len(l) /\ \A o \in Objects : o # c => seq'[o] = seq[o]
      /\ SeqNow \in Nat /\ unseen \subseteq unseen'
  BY LogNumbers
<1>4. Sent' = Sent \cup {r}
  BY <1>0, <1>1, SentFact
<1>5. \A k \in 1..SeqNow : IsGiven(k)
  BY SeqNowGiven
<1>6. /\ parts \in Nat /\ \A x \in Reqs : seqOf[x] \in Nat /\ seqOf'[x] \in Nat
      /\ \A n \in 1..parts : cut[n] \in Nat
      /\ \A n \in 1..parts' : n \in 1..parts \/ (n = parts' /\ parts' = parts + 1)
      /\ \A x \in Reqs : <<x, "req">> \in disk => shard[<<x, "req">>] \in Nat
  <2>1. parts \in Nat /\ \A x \in Reqs : seqOf[x] \in Nat /\ seqOf'[x] \in Nat
    BY <1>0, <1>3 DEF TypeOK
  <2>2. \A n \in 1..parts : cut[n] \in Nat
    BY <1>0 DEF TypeOK
  <2>3. \A n \in 1..parts' : n \in 1..parts \/ (n = parts' /\ parts' = parts + 1)
    BY <2>1
  <2>4. \A x \in Reqs : <<x, "req">> \in disk => shard[<<x, "req">>] \in Nat
    BY <1>0 DEF TypeOK
  <2> QED
    BY <2>1, <2>2, <2>3, <2>4
<1>7. \A x \in ToSet(l) : seqOf[x] = 0
  BY <1>0, <1>2 DEF Fresh, IsNext
<1> HIDE DEF l, c
<1>8. \A x \in Reqs : seqOf[x] > 0 => x \notin ToSet(l) /\ seqOf'[x] = seqOf[x]
  BY <1>3, <1>6, <1>7
<1>9. \A x \in Reqs : <<x, "req">> \in queue' => <<x, "req">> \in queue \/ x \in ToSet(l)
  BY <1>1 DEF RequestLines
<1>10. \A x \in Reqs : <<x, "req">> \in disk => x \notin ToSet(l) /\ Logged(x)
  BY <1>2 DEF Trace, Has, Kinds, Logged
<1>11. \A k \in Nat : k > 0 /\ IsGiven(k) => IsGiven(k)'
  BY <1>8 DEF IsGiven
<1>12. Fresh'
  <2>1. ASSUME NEW x \in Reqs, x \notin Sent' \/ x \in ToSet(pending') PROVE seqOf'[x] = 0
    <3>1. ToSet(pending') = {}
      BY <1>1, NoHandles
    <3>2. x \notin Sent /\ x # r
      BY <1>4, <2>1, <3>1
    <3>3. x \notin ToSet(l)
      <4>1. \A y \in ToSet(l) : \E i \in DOMAIN l : l[i] = y
        BY DEF ToSet
      <4> QED
        BY <1>2, <3>2, <4>1
    <3> QED
      BY <1>0, <1>3, <3>2, <3>3 DEF Fresh
  <2>2. ASSUME NEW x \in Reqs, Logged(x)' PROVE seqOf'[x] > 0
    <3>1. CASE x \in ToSet(l)
      BY <1>3, <1>6, <3>1
    <3>2. CASE x \notin ToSet(l)
      <4>1. Logged(x)
        BY <1>1, <1>9, <2>2, <3>2 DEF Logged
      <4> QED
        BY <1>0, <1>3, <3>2, <4>1 DEF Fresh
    <3> QED
      BY <3>1, <3>2
  <2> QED
    BY <2>1, <2>2 DEF Fresh
<1>13. \A k \in 1..SeqNow + Len(l) : IsGiven(k)'
  <2> SUFFICES ASSUME NEW k \in 1..SeqNow + Len(l) PROVE IsGiven(k)'
    OBVIOUS
  <2>1. CASE k <= SeqNow
    <3>1. k \in 1..SeqNow /\ k \in Nat /\ k > 0
      BY <1>3, <2>1
    <3> QED
      BY <1>5, <1>11, <3>1
  <2>2. CASE k > SeqNow
    <3>1. k - SeqNow \in 1..Len(l) /\ SeqNow + (k - SeqNow) = k
      BY <1>2, <1>3, <2>2
    <3>2. PICK x \in ToSet(l) : seqOf'[x] = SeqNow + (k - SeqNow)
      BY <1>3, <3>1
    <3>3. x \in Reqs
      BY <1>2
    <3> QED
      BY <3>1, <3>2, <3>3 DEF IsGiven
  <2> QED
    BY <1>3, <2>1, <2>2
<1>14. Given'
  <2>1. ASSUME NEW x \in Reqs, NEW k \in 1..seqOf'[x] PROVE IsGiven(k)'
    <3>1. CASE x \in ToSet(l)
      <4>1. k \in 1..SeqNow + Len(l)
        BY <1>2, <1>3, <1>6, <3>1
      <4> QED
        BY <1>13, <4>1
    <3>2. CASE x \notin ToSet(l)
      <4>1. k \in 1..seqOf[x] /\ k \in Nat /\ k > 0
        BY <1>3, <1>6, <3>2
      <4> QED
        BY <1>0, <1>11, <4>1 DEF Given
    <3> QED
      BY <3>1, <3>2
  <2>2. ASSUME NEW o \in Objects, NEW k \in 1..seq'[o] PROVE IsGiven(k)'
    <3>1. CASE o = c
      BY <1>3, <1>13, <3>1
    <3>2. CASE o # c
      <4>1. k \in 1..seq[o] /\ k \in Nat /\ k > 0
        BY <1>0, <1>3, <3>2 DEF TypeOK
      <4> QED
        BY <1>0, <1>11, <4>1 DEF Given
    <3> QED
      BY <3>1, <3>2
  <2>3. ASSUME NEW n \in 1..parts', NEW k \in 1..cut'[n]
        PROVE  IsGiven(k)' \/ (n \in hasty' /\ k = cut'[n])
    <3>1. CASE n \in 1..parts
      <4>1. k \in 1..cut[n] /\ k \in Nat /\ k > 0 /\ cut'[n] = cut[n] /\ (n \in hasty' <=> n \in hasty)
        BY <1>6, <3>1
      <4> QED
        BY <1>0, <1>11, <3>1, <4>1 DEF Given
    <3>2. CASE n \notin 1..parts
      <4>1. n = parts' /\ parts' # parts
        BY <1>6, <3>2
      <4>2. CASE cut'[n] = SeqNow
        <5>1. k \in 1..SeqNow + Len(l)
          BY <1>2, <1>3, <4>2
        <5> QED
          BY <1>13, <5>1
      <4>3. CASE cut'[n] = SeqNow + 1 /\ n \in hasty'
        <5>1. k = cut'[n] \/ k \in 1..SeqNow + Len(l)
          BY <1>2, <1>3, <4>3
        <5> QED
          BY <1>13, <4>3, <5>1
      <4> QED
        BY <4>1, <4>2, <4>3
    <3> QED
      BY <3>1, <3>2
  <2> QED
    BY <2>1, <2>2, <2>3 DEF Given
<1>15. InShard'
  <2>1. 1..parts + 1 \subseteq 1..parts' + 1
    BY <1>6
  <2> QED
    BY <1>0, <1>1, <2>1 DEF InShard
<1>16. Covers'
  <2> SUFFICES ASSUME NEW x \in Reqs, NEW n \in 1..parts', x \notin unseen', n \notin stale',
                      <<x, "req">> \in disk,
                      shard[<<x, "req">>] = n \/ (shard[<<x, "req">>] <= n /\ cut'[n] # 0)
               PROVE  seqOf'[x] <= cut'[n]
    BY <1>1 DEF Covers
  <2>1. seqOf'[x] = seqOf[x] /\ seqOf[x] <= SeqNow /\ x \notin unseen
    BY <1>3, <1>10
  <2>2. CASE n \in 1..parts
    <3>1. cut'[n] = cut[n] /\ n \notin stale
      BY <2>2
    <3> QED
      BY <1>0, <2>1, <2>2, <3>1 DEF Covers
  <2>3. CASE n \notin 1..parts
    <3>1. cut'[n] = SeqNow \/ cut'[n] = SeqNow + 1
      BY <1>6, <2>3
    <3> QED
      BY <1>3, <1>6, <2>1, <3>1
  <2> QED
    BY <2>2, <2>3
<1>17. Beyond'
  <2> SUFFICES ASSUME NEW x \in Reqs, NEW n \in 1..parts', n \notin torn, After(x, n)'
               PROVE  \/ cut'[n] < seqOf'[x]
                      \/ n \in hasty' /\ cut'[n] = seqOf'[x]
                      \/ \E y \in Reqs \ {x} : seqOf'[y] = seqOf'[x]
    BY <1>1 DEF Beyond
  <2>1. CASE x \in ToSet(l) /\ n \in 1..parts
    <3>1. cut'[n] = cut[n] /\ cut[n] \in Nat /\ seqOf'[x] \in Nat /\ seqOf'[x] > 0 /\ (n \in hasty' <=> n \in hasty)
      BY <1>3, <1>6, <2>1
    <3>2. CASE cut[n] < seqOf'[x]
      BY <3>1, <3>2
    <3>3. CASE ~(cut[n] < seqOf'[x])
      <4>1. seqOf'[x] \in 1..cut[n]
        BY <3>1, <3>3
      <4>2. IsGiven(seqOf'[x]) \/ (n \in hasty /\ seqOf'[x] = cut[n])
        BY <1>0, <2>1, <4>1 DEF Given
      <4>3. ASSUME NEW y \in Reqs, seqOf[y] = seqOf'[x] PROVE y # x /\ seqOf'[y] = seqOf'[x]
        BY <1>8, <2>1, <3>1, <4>3
      <4> QED
        BY <3>1, <4>2, <4>3 DEF IsGiven
    <3> QED
      BY <3>2, <3>3
  <2>2. CASE x \notin ToSet(l) /\ n \in 1..parts
    <3>1. After(x, n) /\ Logged(x)
      BY <1>1, <1>9, <2>2 DEF After, Logged
    <3>2. seqOf'[x] = seqOf[x] /\ seqOf[x] > 0 /\ cut'[n] = cut[n] /\ (n \in hasty' <=> n \in hasty)
      BY <1>0, <1>3, <2>2, <3>1 DEF Fresh
    <3>3. \A y \in Reqs : seqOf[y] = seqOf[x] => seqOf'[y] = seqOf[y]
      BY <1>8, <3>2
    <3> QED
      BY <1>0, <2>2, <3>1, <3>2, <3>3 DEF Beyond
  <2>3. CASE n \notin 1..parts
    <3>1. n = parts' /\ parts' = parts + 1 /\ queue = {}
      BY <1>6, <2>3
    <3>2. x \in ToSet(l)
      <4>1. ASSUME <<x, "req">> \in disk, shard[<<x, "req">>] > n PROVE FALSE
        <5>1. shard[<<x, "req">>] \in 1..parts + 1
          BY <1>0, <4>1 DEF InShard
        <5> QED
          BY <1>6, <3>1, <4>1, <5>1
      <4> QED
        BY <1>1, <1>9, <3>1, <4>1 DEF After
    <3>3. SeqNow < seqOf'[x] /\ seqOf'[x] \in Nat /\ SeqNow \in Nat
      BY <1>3, <1>6, <3>2
    <3> QED
      BY <1>6, <3>1, <3>3
  <2> QED
    BY <2>1, <2>2, <2>3
<1> QED
  BY <1>12, <1>14, <1>15, <1>16, <1>17 DEF Marks

\* Whoever was making the cut, its marker is what the object gave out, or one more
\* when it was the inner cut of a request.
LEMMA CuttingFact ==
  ASSUME IInv, Marks, NEW o \in Objects, NEW q \in Nat, Cutting(o, q),
         NEW h, h <=> o = Current /\ q > SeqNow
  PROVE  /\ \A k \in 1..q : IsGiven(k) \/ (h /\ k = q)
         /\ ~(o < made) => \A x \in Reqs : <<x, "req">> \in disk /\ x \notin unseen => seqOf[x] <= q
<1>0. TypeOK /\ Objs /\ Numbers /\ Given
  BY DEF IInv, Marks
<1>1. SeqNow \in Nat /\ \A k \in 1..SeqNow : IsGiven(k)
  BY <1>0, SeqNowFact, SeqNowGiven
<1>2. \A x \in Reqs : seqOf[x] \in Nat
  BY <1>0 DEF TypeOK
<1>3. CASE o = Current /\ Quiescent(o) /\ (q = SeqNow \/ q = SeqNow + 1)
  <2>1. queue = {}
    BY <1>0, <1>3 DEF Quiescent, Objs
  <2>2. \A x \in Reqs : <<x, "req">> \in disk /\ x \notin unseen => seqOf[x] <= SeqNow
    BY <1>0, <2>1, SeqNowFact DEF Logged
  <2>3. \A k \in 1..q : k \in 1..SeqNow \/ (q > SeqNow /\ k = q)
    BY <1>1, <1>3
  <2>4. \A x \in Reqs : seqOf[x] <= SeqNow => seqOf[x] <= q
    BY <1>1, <1>2, <1>3
  <2> QED
    BY <1>1, <1>3, <2>2, <2>3, <2>4
<1>4. CASE q = seq[o] /\ o \in 1..made
  <2>1. ~(o < made) => o = made /\ made > 0
    BY <1>0, <1>4, ObjectsFact
  <2>2. ~(o < made) => \A x \in Reqs : <<x, "req">> \in disk /\ x \notin unseen => seqOf[x] <= q
    BY <1>0, <1>4, <2>1 DEF Numbers, Logged
  <2> QED
    BY <1>0, <1>4, <2>2 DEF Given
<1>5. (\E r \in handle : objOf[r] = o /\ ClosesArmed(r)) => o \in 1..made
  BY <1>0 DEF Objs, InMemory, TypeOK
<1>6. o \in Ready => o \in 1..made
  BY <1>0 DEF Ready, Objs
<1> QED
  BY <1>3, <1>4, <1>5, <1>6 DEF Cutting

LEMMA CrashInCutMarks ==
  ASSUME IInv, Marks, NEW o \in Objects, NEW q \in Nat,
         NEW done \in {"made", "marked", "journal", "responses"}, CrashInCut(o, q, done)
  PROVE  Marks'
<1> DEFINE h == o = Current /\ q > SeqNow
           m == IF done = "made" THEN 0 ELSE q
<1>0. TypeOK /\ Fresh /\ Given /\ InShard /\ Covers /\ Beyond
  BY DEF IInv, Marks
<1>1. /\ shard' \in [Lines -> Nat] /\ disk' = disk
      /\ \A x \in Reqs, t \in Kinds : <<x, t>> \in disk =>
           shard'[<<x, t>>] = IF shard[<<x, t>>] = parts + 1 /\ t \notin Moved(done)
                              THEN parts + 2 ELSE shard[<<x, t>>]
      /\ parts' = parts + 1 /\ parts' \in Nat
      /\ torn \subseteq torn'
  BY <1>0, CrashInCutLines
<1>2. /\ Crash /\ Cutting(o, q) /\ cut' = Append(cut, m)
      /\ torn' = (IF done = "responses" THEN torn ELSE torn \cup {parts + 1})
      /\ hasty' = (IF h THEN hasty \cup {parts + 1} ELSE hasty)
      /\ stale' = (IF o < made THEN stale \cup {parts + 1} ELSE stale)
  BY DEF CrashInCut
<1>3. /\ Sent' = Sent /\ queue' = {} /\ pending' = <<>> /\ disk' = disk /\ seqOf' = seqOf
      /\ unseen' = unseen /\ \A x \in Reqs : Logged(x)' => Logged(x)
  BY <1>0, <1>2, CrashFact
<1>4. seq' = Zeros /\ \A b \in Objects : Zeros[b] = 0
  BY <1>2 DEF Crash, Zeros
<1>5. /\ parts \in Nat /\ cut \in Seq(Nat) /\ Len(cut) = parts
      /\ \A x \in Reqs : seqOf[x] \in Nat
      /\ \A x \in Reqs : <<x, "req">> \in disk => shard[<<x, "req">>] \in 1..parts + 1
  BY <1>0 DEF TypeOK, InShard
<1>6. h \in BOOLEAN
  OBVIOUS
<1>7. /\ \A k \in 1..q : IsGiven(k) \/ (h /\ k = q)
      /\ ~(o < made) => \A x \in Reqs : <<x, "req">> \in disk /\ x \notin unseen => seqOf[x] <= q
  BY <1>2, CuttingFact
<1> HIDE DEF h
<1>8. /\ \A n \in 1..parts : cut'[n] = cut[n]
      /\ cut'[parts + 1] = m
      /\ \A n \in 1..parts' : n \in 1..parts \/ n = parts + 1
  BY <1>1, <1>2, <1>5
<1>9. \A x \in Reqs : <<x, "req">> \in disk =>
        \/ shard'[<<x, "req">>] = shard[<<x, "req">>] /\ (shard[<<x, "req">>] = parts + 1 => "req" \in Moved(done))
        \/ shard'[<<x, "req">>] = parts + 2 /\ shard[<<x, "req">>] = parts + 1 /\ "req" \notin Moved(done)
  BY <1>1 DEF Kinds
<1>10. Fresh'
  BY <1>0, <1>3, NoHandles DEF Fresh
<1>11. \A k : IsGiven(k)' <=> IsGiven(k)
  BY <1>3 DEF IsGiven
<1>12. Given'
  <2>1. \A b \in Objects : \A k \in 1..seq'[b] : IsGiven(k)
    BY <1>4
  <2>2. ASSUME NEW n \in 1..parts', NEW k \in 1..cut'[n]
        PROVE  IsGiven(k) \/ (n \in hasty' /\ k = cut'[n])
    <3>1. CASE n \in 1..parts
      BY <1>0, <1>2, <1>8, <3>1 DEF Given
    <3>2. CASE n = parts + 1
      <4>1. m # 0
        BY <1>8, <2>2, <3>2
      <4>2. m = q
        BY <4>1
      <4> QED
        BY <1>2, <1>7, <1>8, <3>2, <4>2
    <3> QED
      BY <1>8, <3>1, <3>2
  <2> QED
    BY <1>0, <1>3, <1>11, <2>1, <2>2 DEF Given
<1>13. InShard'
  <2>1. 1..parts + 1 \subseteq 1..parts' + 1 /\ parts + 2 \in 1..parts' + 1
    BY <1>1, <1>5
  <2> QED
    BY <1>3, <1>5, <1>9, <2>1 DEF InShard
<1>14. Covers'
  <2> SUFFICES ASSUME NEW x \in Reqs, NEW n \in 1..parts', x \notin unseen, n \notin stale',
                      <<x, "req">> \in disk,
                      shard'[<<x, "req">>] = n \/ (shard'[<<x, "req">>] <= n /\ cut'[n] # 0)
               PROVE  seqOf[x] <= cut'[n]
    BY <1>3 DEF Covers
  <2>1. CASE n \in 1..parts
    <3>1. shard'[<<x, "req">>] = shard[<<x, "req">>]
      BY <1>5, <1>9, <2>1
    <3> QED
      BY <1>0, <1>2, <1>8, <2>1, <3>1 DEF Covers
  <2>2. CASE n = parts + 1
    <3>1. ~(o < made)
      BY <1>2, <2>2
    <3>2. done # "made"
      <4>1. ASSUME done = "made" PROVE FALSE
        <5>1. m = 0 /\ "req" \notin Moved(done)
          BY <4>1 DEF Moved
        <5>2. shard'[<<x, "req">>] = parts + 1
          BY <1>8, <2>2, <5>1
        <5> QED
          BY <1>5, <1>9, <5>1, <5>2
      <4> QED
        BY <4>1
    <3> QED
      BY <1>7, <1>8, <2>2, <3>1, <3>2
  <2> QED
    BY <1>8, <2>1, <2>2
<1>15. Beyond'
  <2> SUFFICES ASSUME NEW x \in Reqs, NEW n \in 1..parts', n \notin torn', After(x, n)'
               PROVE  \/ cut'[n] < seqOf[x]
                      \/ n \in hasty' /\ cut'[n] = seqOf[x]
                      \/ \E y \in Reqs \ {x} : seqOf[y] = seqOf[x]
    BY <1>3 DEF Beyond
  <2>1. <<x, "req">> \in disk /\ shard'[<<x, "req">>] > n
    BY <1>3 DEF After
  <2>2. CASE n \in 1..parts
    <3>1. shard[<<x, "req">>] > n
      BY <1>5, <1>9, <2>1, <2>2
    <3>2. After(x, n) /\ n \notin torn
      BY <1>1, <2>1, <3>1 DEF After
    <3>3. hasty \subseteq hasty' /\ cut'[n] = cut[n]
      BY <1>2, <1>8, <2>2
    <3> QED
      BY <1>0, <2>2, <3>2, <3>3 DEF Beyond
  <2>3. CASE n = parts + 1
    <3>1. done = "responses"
      BY <1>2, <2>3
    <3>2. "req" \in Moved(done)
      BY <3>1 DEF Moved
    <3> QED
      BY <1>5, <1>9, <2>1, <2>3, <3>2
  <2> QED
    BY <1>8, <2>2, <2>3
<1> QED
  BY <1>10, <1>12, <1>13, <1>14, <1>15 DEF Marks

\* A request that is held, ends or is given up, a line that is lost, a drain that
\* ends, a reset: cuts at most, and no number is given.
LEMMA HoldMarks ==
  ASSUME IInv, Marks, NEW r \in Reqs, Hold(r)
  PROVE  Marks'
<1>0. TypeOK /\ Arrivals /\ Fresh /\ Given /\ InShard /\ Covers /\ Beyond
  BY DEF IInv, Marks
<1>1. /\ IsNext(r) /\ pending' = Append(pending, r)
      /\ status' = [status EXCEPT ![r] = "running"]
      /\ UNCHANGED <<session, queue, log, shards, history>>
  BY DEF Hold
<1>2. /\ Sent' = Sent \cup {r} /\ ToSet(pending') = ToSet(pending) \cup {r} /\ r \notin Sent
  BY <1>0, <1>1, SentFact, LoggedFact DEF IsNext
<1>3. \A x \in Reqs : x \notin Sent' \/ x \in ToSet(pending') => x \notin Sent \/ x \in ToSet(pending)
  BY <1>2
<1>4. /\ seqOf' = seqOf /\ disk' = disk /\ shard' = shard /\ torn' = torn /\ hasty' = hasty
      /\ unseen' = unseen /\ seq' = seq /\ queue' = queue /\ parts' = parts /\ cut' = cut
      /\ stale' = stale /\ parts \in Nat
  BY <1>0, <1>1 DEF session, log, shards, history, TypeOK
<1> QED
  BY <1>3, <1>4, MarksStay

\* Of the actions below none sends or holds a request.
LEMMA KeptStays ==
  ASSUME \A x \in Reqs : x \notin Sent' => x \notin Sent, pending' = pending \/ pending' = <<>>
  PROVE  \A x \in Reqs : x \notin Sent' \/ x \in ToSet(pending') => x \notin Sent \/ x \in ToSet(pending)
BY NoHandles

LEMMA EndMarks ==
  ASSUME IInv, Marks, NEW r \in Reqs, Complete(r) \/ EndUnlogged(r)
  PROVE  Marks'
<1>0. TypeOK
  BY DEF IInv
<1>1. /\ status[r] = "running" /\ status' = [status EXCEPT ![r] = "over"]
      /\ UNCHANGED <<pending, seqOf, seq, log, shards, history>>
      /\ queue' \subseteq queue \cup CompletionLines(r)
  BY DEF Complete, EndUnlogged, handles, session
<1>2. Sent' = Sent
  BY <1>0, <1>1 DEF TypeOK, Sent
<1>3. \A x \in Reqs : <<x, "req">> \in queue' => <<x, "req">> \in queue
  BY <1>1 DEF CompletionLines
<1>4. /\ disk' = disk /\ shard' = shard /\ torn' = torn /\ hasty' = hasty /\ unseen' = unseen
      /\ parts' = parts /\ cut' = cut /\ stale' = stale /\ parts \in Nat
  BY <1>0, <1>1 DEF log, shards, history, TypeOK
<1> QED
  BY <1>1, <1>2, <1>3, <1>4, KeptStays, MarksStay

LEMMA ReleaseMarks ==
  ASSUME IInv, Marks, NEW r \in Reqs, ReleaseIntoCut(r) \/ ReleaseUncut(r)
  PROVE  Marks'
<1> DEFINE p == objOf[r]
<1>0. TypeOK /\ Objs
  BY DEF IInv
<1>1. /\ r \in handle /\ status[r] # "new" /\ status' = [status EXCEPT ![r] = "over"]
      /\ UNCHANGED <<pending, made, seqOf, seq, queue, log, history>>
  BY DEF ReleaseIntoCut, ReleaseUncut, GiveUp
<1>2. Sent' = Sent
  BY <1>0, <1>1 DEF TypeOK, Sent
<1>3. p \in 1..made /\ p \in Objects /\ made \in Nat
  <2>1. p \in 1..made
    BY <1>0, <1>1 DEF Objs, InMemory
  <2> QED
    BY <1>0, <2>1, ObjectsFact
<1>4. disk' = disk /\ shard' = shard /\ torn' = torn /\ hasty' = hasty /\ unseen' = unseen
  BY <1>1 DEF log, history
<1>5. \A x \in Reqs : x \notin Sent' \/ x \in ToSet(pending') => x \notin Sent \/ x \in ToSet(pending)
  BY <1>1, <1>2
<1>6. CASE ReleaseIntoCut(r)
  <2>1. ~draining /\ Cut(p, seq[p], prompts[p])
    BY <1>6 DEF ReleaseIntoCut
  <2>2. queue' = {}
    BY <1>0, <1>1, <2>1 DEF Objs
  <2>3. seq[p] \in Nat /\ prompts[p] \in Nat /\ parts \in Nat
    BY <1>0, <1>3 DEF TypeOK
  <2>4. /\ parts' = parts + 1 /\ parts' \in Nat /\ parts <= parts'
        /\ \A n \in 1..parts : cut'[n] = cut[n]
        /\ cut'[parts + 1] = seq[p] /\ stale \subseteq stale'
        /\ p < made => parts + 1 \in stale'
    BY <1>0, <1>3, <2>1, <2>3, CutFact
  <2>5. \A n \in 1..parts' : n \in 1..parts \/ n = parts + 1
    BY <2>3, <2>4
  <2>6. ~(p < made) => p = made
    BY <1>3
  <2>7. \A n \in 1..parts' : n \in 1..parts \/ (cut'[n] = seq[p] /\ (n \notin stale' => p = made))
    BY <2>4, <2>5, <2>6
  <2> HIDE DEF p
  <2> QED
    BY <1>1, <1>3, <1>4, <1>5, <2>2, <2>4, <2>7, MarksStay
<1>7. CASE ReleaseUncut(r)
  <2>1. parts' = parts /\ cut' = cut /\ stale' = stale /\ parts \in Nat
    BY <1>0, <1>7 DEF ReleaseUncut, shards, TypeOK
  <2> QED
    BY <1>1, <1>4, <1>5, <2>1, MarksStay
<1> QED
  BY <1>6, <1>7

LEMMA DrainedMarks ==
  ASSUME IInv, Marks, NEW os \in Turns, Drained(os)
  PROVE  Marks'
<1>0. TypeOK /\ Objs
  BY DEF IInv
<1>1. queue' = {} /\ UNCHANGED <<status, handles, made, seqOf, seq, log, history>>
  BY DEF Drained
<1>2. Sent' = Sent /\ pending' = pending
  BY <1>1 DEF Sent, handles
<1>3. disk' = disk /\ shard' = shard /\ torn' = torn /\ hasty' = hasty /\ unseen' = unseen
  BY <1>1 DEF log, history
<1>4. /\ parts' = parts + Len(os) /\ parts' \in Nat /\ parts <= parts' /\ Len(os) \in Nat
      /\ \A n \in 1..parts : cut'[n] = cut[n]
      /\ \A i \in 1..Len(os) : cut'[parts + i] = seq[os[i]]
      /\ stale \subseteq stale'
      /\ \A i \in 1..Len(os) : os[i] < made => parts + i \in stale'
  BY DrainedShards
<1>5. \A i \in 1..Len(os) : os[i] \in 1..made
  BY <1>0, TurnsFact
<1>6. made \in Nat /\ parts \in Nat
  BY <1>0, ObjectsFact DEF TypeOK
<1>7. ASSUME NEW n \in 1..parts', n \notin 1..parts
      PROVE  \E o \in 1..made : cut'[n] = seq[o] /\ (n \notin stale' => o = made)
  <2>1. n - parts \in 1..Len(os) /\ parts + (n - parts) = n
    BY <1>4, <1>6, <1>7
  <2> DEFINE i == n - parts
  <2> HIDE DEF i
  <2>2. i \in 1..Len(os) /\ parts + i = n
    BY <2>1 DEF i
  <2>3. cut'[n] = seq[os[i]] /\ (os[i] < made => n \in stale') /\ os[i] \in 1..made
    BY <1>4, <1>5, <2>2
  <2>4. ~(os[i] < made) => os[i] = made
    BY <1>6, <2>3
  <2> QED
    BY <2>3, <2>4
<1> QED
  BY <1>1, <1>2, <1>3, <1>4, <1>7, MarksStay

LEMMA QuietMarks ==
  ASSUME IInv, Marks,
         \/ \E l \in Lines : Lose(l)
         \/ Reset \/ ForeignReset \/ SwitchAway \/ CrashOutsideCut \/ UNCHANGED vars
  PROVE  Marks'
<1>0. TypeOK
  BY DEF IInv
<1>1. CASE CrashOutsideCut
  <2>1. Crash /\ UNCHANGED <<shard, shards, torn, hasty>>
    BY <1>1 DEF CrashOutsideCut
  <2>2. /\ Sent' = Sent /\ queue' = {} /\ pending' = <<>> /\ disk' = disk /\ seqOf' = seqOf
        /\ unseen' = unseen
    BY <1>0, <2>1, CrashFact
  <2>3. \A o \in Objects : seq'[o] = 0
    BY <2>1 DEF Crash, Zeros
  <2>4. /\ shard' = shard /\ torn' = torn /\ hasty' = hasty
        /\ parts' = parts /\ cut' = cut /\ stale' = stale /\ parts \in Nat
    BY <1>0, <2>1 DEF shards, TypeOK
  <2> QED
    BY <2>2, <2>3, <2>4, KeptStays, MarksStay
<1>2. CASE ~CrashOutsideCut
  <2>1. /\ UNCHANGED <<status, seqOf, seq, log, shards, history>>
        /\ pending' = pending \/ pending' = <<>>
        /\ queue' \subseteq queue
    <3>1. CASE \E l \in Lines : Lose(l)
      BY <3>1 DEF Lose, handles, session
    <3>2. CASE Reset \/ ForeignReset \/ SwitchAway
      BY <3>2 DEF Reset, ForeignReset, SwitchAway, handles
    <3>3. CASE UNCHANGED vars
      BY <3>3 DEF vars, handles, session
    <3> QED
      BY <1>2, <3>1, <3>2, <3>3
  <2>2. Sent' = Sent
    BY <2>1 DEF Sent
  <2>3. /\ disk' = disk /\ shard' = shard /\ torn' = torn /\ hasty' = hasty /\ unseen' = unseen
        /\ parts' = parts /\ cut' = cut /\ stale' = stale /\ parts \in Nat
    BY <1>0, <2>1 DEF log, shards, history, TypeOK
  <2> QED
    BY <2>1, <2>2, <2>3, KeptStays, MarksStay
<1> QED
  BY <1>1, <1>2

\* A request that is logged: the marker of a cut before it is what was given out,
\* that of one it makes itself is one more.
LEMMA IngestMarks ==
  ASSUME IInv, Marks, NEW r \in Reqs, Arrives(r),
         IngestAfterCut(r) \/ IngestIntoCut(r) \/ IngestUncut(r)
  PROVE  Marks'
<1>0. TypeOK /\ Objs /\ Numbers /\ Current \in Objects
  BY DEF IInv, Arrives
<1>1. PromptsNow \in Nat /\ SeqNow \in Nat /\ parts \in Nat
  <2>1. {} \in SUBSET Reqs
    OBVIOUS
  <2> QED
    BY <1>0, <2>1, PromptsFact, SeqNowFact DEF TypeOK
<1>2. 0 \in Nat /\ SeqNow + 1 \in Nat /\ PromptsNow + 1 \in Nat
  BY <1>1
<1>3. CASE IngestAfterCut(r)
  <2>1. Quiescent(Current) /\ Log(r, 0) /\ Cut(Current, SeqNow, PromptsNow) /\ hasty' = hasty
    BY <1>3 DEF IngestAfterCut
  <2>2. /\ parts' = parts + 1 /\ parts' \in Nat /\ stale \subseteq stale' /\ queue = {}
        /\ \A n \in 1..parts : cut'[n] = cut[n]
        /\ cut'[parts + 1] = SeqNow
    BY <1>0, <1>1, <2>1, CurrentCut
  <2> QED
    BY <1>2, <2>1, <2>2, LogMarks
<1>4. CASE IngestIntoCut(r)
  <2>1. /\ Quiescent(Current) /\ Log(r, 0) /\ Cut(Current, SeqNow + 1, PromptsNow + 1)
        /\ hasty' = hasty \cup {parts + 1}
    BY <1>4 DEF IngestIntoCut
  <2>2. /\ parts' = parts + 1 /\ parts' \in Nat /\ stale \subseteq stale' /\ queue = {}
        /\ \A n \in 1..parts : cut'[n] = cut[n]
        /\ cut'[parts + 1] = SeqNow + 1
    BY <1>0, <1>2, <2>1, CurrentCut
  <2>3. \A n \in 1..parts : n \in hasty' <=> n \in hasty
    BY <1>1, <2>1
  <2>4. parts' \in hasty'
    BY <2>1, <2>2
  <2> QED
    BY <1>2, <2>1, <2>2, <2>3, <2>4, LogMarks
<1>5. CASE IngestUncut(r)
  <2>1. Log(r, PromptsNow) /\ UNCHANGED <<shards, hasty>>
    BY <1>5 DEF IngestUncut
  <2>2. parts' = parts /\ cut' = cut /\ stale' = stale
    BY <2>1 DEF shards
  <2> QED
    BY <1>1, <2>1, <2>2, LogMarks
<1> QED
  BY <1>3, <1>4, <1>5

LEMMA InitMarks == Init => Marks
<1> SUFFICES ASSUME Init PROVE Marks
  OBVIOUS
<1>1. /\ seqOf = [r \in Reqs |-> 0] /\ seq = Zeros /\ queue = {} /\ disk = {} /\ parts = 0
      /\ pending = <<>>
  BY DEF Init
<1>2. /\ \A x \in Reqs : seqOf[x] = 0
      /\ \A o \in Objects : seq[o] = 0
      /\ 1..0 = {}
  BY <1>1 DEF Zeros
<1>3. Fresh
  BY <1>1, <1>2 DEF Fresh, Logged
<1>4. Given
  BY <1>1, <1>2 DEF Given
<1> QED
  BY <1>1, <1>2, <1>3, <1>4 DEF Marks, InShard, Covers, Beyond

LEMMA NextMarks == IInv /\ Marks /\ [Next]_vars => Marks'
<1> SUFFICES ASSUME IInv, Marks, [Next]_vars PROVE Marks'
  OBVIOUS
<1>0. TypeOK
  BY DEF IInv
<1>1. ASSUME NEW r \in Reqs, Hold(r) \/ Complete(r) \/ EndUnlogged(r) PROVE Marks'
  BY <1>1, HoldMarks, EndMarks
<1>2. ASSUME NEW r \in Reqs, Ingest(r) \/ IngestBalked(r) PROVE Marks'
  BY <1>0, <1>2, IngestWays, IngestMarks
<1>3. ASSUME NEW r \in Reqs, Release(r) \/ ReleaseBalked(r) PROVE Marks'
  BY <1>0, <1>3, ReleaseWays, ReleaseMarks
<1>4. ASSUME NEW l \in Lines, Write(l) PROVE Marks'
  <2>1. \E r \in Reqs, k \in Kinds : l = <<r, k>>
    BY DEF Lines, Kinds
  <2> QED
    BY <1>4, <2>1, WriteMarks
<1>5. CASE DrainEnds \/ DrainEndsBalked
  BY <1>0, <1>5, DrainWays, DrainedMarks
<1>6. CASE \/ \E l \in Lines : Lose(l)
           \/ Reset \/ ForeignReset \/ SwitchAway \/ CrashOutsideCut \/ UNCHANGED vars
  BY <1>6, QuietMarks
<1>7. ASSUME NEW o \in Objects, NEW done \in {"made", "marked", "journal", "responses"},
             NEW q \in {seq[o], SeqNow, SeqNow + 1}, CrashInCut(o, q, done)
      PROVE  Marks'
  <2>1. q \in Nat
    BY CrashWays
  <2> QED
    BY <1>7, <2>1, CrashInCutMarks
<1> QED
  BY <1>1, <1>2, <1>3, <1>4, <1>5, <1>6, <1>7 DEF Next, Call, Fault


\* Where a cursor is sent: past the last marker to the live files, otherwise to
\* the first shard whose marker is not before it.
LEMMA OwnerFact ==
  ASSUME TypeOK, NEW q \in Nat
  PROVE  \/ Owner(q) = parts + 1 /\ (parts = 0 \/ q > cut[parts])
         \/ /\ Owner(q) \in 1..parts /\ cut[Owner(q)] >= q
            /\ \A m \in 1..Owner(q) - 1 : cut[m] < q
<1>1. parts \in Nat /\ \A n \in 1..parts : cut[n] \in Nat
  BY DEF TypeOK
<1>2. CASE parts = 0 \/ q > cut[parts]
  BY <1>2 DEF Owner
<1>3. CASE ~(parts = 0 \/ q > cut[parts])
  <2> DEFINE T == {d \in 0..parts - 1 : cut[parts - d] >= q}
  <2>1. T \in SUBSET Nat /\ IsFiniteSet(T)
    <3>1. 0 \in Int /\ parts - 1 \in Int
      BY <1>1
    <3>2. IsFiniteSet(0..parts - 1)
      BY <3>1, FS_Interval
    <3>3. T \in SUBSET (0..parts - 1)
      OBVIOUS
    <3>4. IsFiniteSet(T)
      BY <3>2, <3>3, FS_Subset
    <3> QED
      BY <3>3, <3>4
  <2>2. 0 \in T
    <3>1. 0 \in 0..parts - 1 /\ parts - 0 = parts /\ cut[parts] >= q
      BY <1>1, <1>3
    <3> QED
      BY <3>1
  <2>3. PICK d \in T : \A e \in T : e <= d
    BY <2>1, <2>2, GreatestOf
  <2>4. d \in 0..parts - 1 /\ cut[parts - d] >= q
    OBVIOUS
  <2>5. ASSUME NEW m \in 1..(parts - d) - 1 PROVE cut[m] < q
    <3>1. m \in 1..parts /\ parts - m \in 0..parts - 1 /\ parts - (parts - m) = m /\ ~(parts - m <= d)
      BY <1>1, <2>4
    <3>2. parts - m \notin T
      BY <2>3, <3>1
    <3>3. ~(cut[m] >= q)
      BY <3>1, <3>2
    <3> QED
      BY <1>1, <3>1, <3>3
  <2> HIDE DEF T
  <2>6. parts - d \in 1..parts
    BY <1>1, <2>4
  <2>7. \E n \in 1..parts : cut[n] >= q /\ \A m \in 1..n - 1 : cut[m] < q
    BY <2>4, <2>5, <2>6
  <2>8. Owner(q) = CHOOSE n \in 1..parts : cut[n] >= q /\ \A m \in 1..n - 1 : cut[m] < q
    BY <1>3 DEF Owner
  <2> QED
    BY <2>7, <2>8
<1> QED
  BY <1>2, <1>3

LEMMA MarksFind ==
  ASSUME IInv, Marks
  PROVE  CursorFindsShard
<1>0. TypeOK /\ InShard /\ Covers /\ Beyond
  BY DEF IInv, Marks
<1> SUFFICES ASSUME NEW r \in Reqs, <<r, "req">> \in disk,
                    NEW n, n = Owner(seqOf[r]),
                    NEW s, s = shard[<<r, "req">>],
                    n \notin torn, s \notin stale, ~(n \in hasty /\ seqOf[r] = cut[n]),
                    ~(n = parts + 1 /\ (parts \in stale \/ cut[parts] = 0)),
                    ~Repeated(r)
             PROVE  n = s
  BY DEF CursorFindsShard
<1> DEFINE q == seqOf[r]
<1>1. parts \in Nat /\ q \in Nat /\ \A i \in 1..parts : cut[i] \in Nat
  BY <1>0 DEF TypeOK
<1>2. s \in 1..parts + 1
  BY <1>0 DEF InShard
<1>3. \A i \in 1..parts : i \notin stale /\ (s = i \/ (s <= i /\ cut[i] # 0)) => q <= cut[i]
  BY <1>0 DEF Covers, Repeated
<1>4. ASSUME n \in 1..parts, s > n PROVE cut[n] < q
  <2>1. After(r, n)
    BY <1>4 DEF After
  <2>2. cut[n] < q \/ (n \in hasty /\ cut[n] = q) \/ \E y \in Reqs \ {r} : seqOf[y] = q
    BY <1>0, <1>4, <2>1 DEF Beyond
  <2> QED
    BY <2>2 DEF Repeated
<1> HIDE DEF q
<1>5. \/ n = parts + 1 /\ (parts = 0 \/ q > cut[parts])
      \/ n \in 1..parts /\ cut[n] >= q /\ \A m \in 1..n - 1 : cut[m] < q
  BY <1>0, <1>1, OwnerFact DEF q
<1>6. CASE n = parts + 1 /\ (parts = 0 \/ q > cut[parts])
  <2>1. CASE s <= parts
    <3>1. parts \in 1..parts /\ cut[parts] \in Nat /\ q <= cut[parts]
      BY <1>1, <1>2, <1>3, <1>6, <2>1
    <3> QED
      BY <1>1, <1>6, <3>1
  <2>2. CASE ~(s <= parts)
    BY <1>1, <1>2, <1>6, <2>2
  <2> QED
    BY <2>1, <2>2
<1>7. CASE n \in 1..parts /\ cut[n] >= q /\ \A m \in 1..n - 1 : cut[m] < q
  <2>1. ~(s > n)
    BY <1>1, <1>4, <1>7
  <2>2. ~(s < n)
    <3> SUFFICES ASSUME s < n PROVE FALSE
      OBVIOUS
    <3>1. s \in 1..n - 1 /\ s \in 1..parts
      BY <1>1, <1>2, <1>7
    <3>2. cut[s] < q /\ q <= cut[s] /\ cut[s] \in Nat
      BY <1>1, <1>3, <1>7, <3>1
    <3> QED
      BY <1>1, <3>2
  <2> QED
    BY <1>1, <1>2, <1>7, <2>1, <2>2
<1> QED
  BY <1>5, <1>6, <1>7

\* The markers send a reader to the shard that has what it asks for, across any
\* number of cuts, resets, restarts and lost lines, but for the markers and numbers
\* that CursorFindsShard names (adapter.js:1106-1157).
THEOREM CursorsFindShards == Spec => []CursorFindsShard
<1>1. Init => IInv /\ Marks
  BY InitHolds, InitMarks
<1>2. IInv /\ Marks /\ [Next]_vars => (IInv /\ Marks)'
  BY NextKeeps, NextMarks
<1>3. IInv /\ Marks => CursorFindsShard
  BY MarksFind
<1> QED
  BY <1>1, <1>2, <1>3, PTL DEF Spec

=============================================================================
