----------------------------- MODULE FifoLemmas -----------------------------
(***************************************************************************)
(* What the splices of a FIFO kept in a sequence do, as facts the proofs   *)
(* about the queues cite by name: insertion, removal, dropping the heads.  *)
(***************************************************************************)
EXTENDS Integers, FiniteSets, Sequences, SequencesExt,
        SequenceTheorems, FiniteSetTheorems, TLAPS

-----------------------------------------------------------------------------
(* The splices *)

\* InsertAt puts e at position i and moves what was there and after by one.
LEMMA InsertAtLemma ==
  ASSUME NEW S, NEW q \in Seq(S), NEW i \in 1..(Len(q) + 1), NEW e \in S
  PROVE  /\ InsertAt(q, i, e) \in Seq(S)
         /\ Len(InsertAt(q, i, e)) = Len(q) + 1
         /\ \A j \in 1..(Len(q) + 1) :
              InsertAt(q, i, e)[j] =
                IF j < i THEN q[j] ELSE IF j = i THEN e ELSE q[j - 1]
<1> DEFINE l == SubSeq(q, 1, i - 1)
           r == SubSeq(q, i, Len(q))
           le == l \o <<e>>
<1>1. l \in Seq(S) /\ Len(l) = i - 1 /\ \A j \in 1..(i - 1) : l[j] = q[j]
  <2>1. \A j \in 1..(i - 1) : q[j] \in S
    BY ElementOfSeq
  <2>2. QED
    BY <2>1, SubSeqProperties
<1>2. r \in Seq(S) /\ Len(r) = Len(q) - i + 1
      /\ \A j \in 1..(Len(q) - i + 1) : r[j] = q[i + j - 1]
  <2>1. \A j \in i..Len(q) : q[j] \in S
    BY ElementOfSeq
  <2>2. QED
    BY <2>1, SubSeqProperties
<1>3. <<e>> \in Seq(S) /\ Len(<<e>>) = 1 /\ <<e>>[1] = e
  OBVIOUS
<1>4. le \in Seq(S) /\ Len(le) = i
      /\ \A j \in 1..i : le[j] = IF j < i THEN q[j] ELSE e
  <2> HIDE DEF l
  <2>1. QED
    BY <1>1, <1>3, ConcatProperties
<1> HIDE DEF le, r
<1>5. /\ le \o r \in Seq(S)
      /\ Len(le \o r) = Len(q) + 1
      /\ \A j \in 1..(Len(q) + 1) :
           (le \o r)[j] = IF j <= i THEN le[j] ELSE r[j - i]
  BY <1>2, <1>4, ConcatProperties
<1>6. InsertAt(q, i, e) = le \o r
  BY DEF InsertAt, le, r
<1>7. QED
  BY <1>2, <1>4, <1>5, <1>6

\* RemoveAt takes position i out and moves what was after it by one.
LEMMA RemoveAtLemma ==
  ASSUME NEW S, NEW q \in Seq(S), NEW i \in 1..Len(q)
  PROVE  /\ RemoveAt(q, i) \in Seq(S)
         /\ Len(RemoveAt(q, i)) = Len(q) - 1
         /\ \A j \in 1..(Len(q) - 1) :
              RemoveAt(q, i)[j] = IF j < i THEN q[j] ELSE q[j + 1]
<1> DEFINE l == SubSeq(q, 1, i - 1)
           r == SubSeq(q, i + 1, Len(q))
<1>1. l \in Seq(S) /\ Len(l) = i - 1 /\ \A j \in 1..(i - 1) : l[j] = q[j]
  <2>1. \A j \in 1..(i - 1) : q[j] \in S
    BY ElementOfSeq
  <2>2. QED
    BY <2>1, SubSeqProperties
<1>2. r \in Seq(S) /\ Len(r) = Len(q) - i
      /\ \A j \in 1..(Len(q) - i) : r[j] = q[i + j]
  <2>1. \A j \in (i + 1)..Len(q) : q[j] \in S
    BY ElementOfSeq
  <2>2. QED
    BY <2>1, SubSeqProperties
<1>3. RemoveAt(q, i) = l \o r
  BY DEF RemoveAt
<1> HIDE DEF l, r
<1>4. /\ l \o r \in Seq(S)
      /\ Len(l \o r) = Len(l) + Len(r)
      /\ \A j \in 1..(Len(l) + Len(r)) :
           (l \o r)[j] = IF j <= Len(l) THEN l[j] ELSE r[j - Len(l)]
  BY <1>1, <1>2, ConcatProperties
<1>5. Len(l) + Len(r) = Len(q) - 1
  BY <1>1, <1>2
<1>6. ASSUME NEW j \in 1..(Len(q) - 1)
      PROVE  (l \o r)[j] = IF j < i THEN q[j] ELSE q[j + 1]
  <2>1. CASE j < i
    BY <1>1, <1>4, <1>5, <2>1
  <2>2. CASE j >= i
    <3>1. (l \o r)[j] = r[j - (i - 1)]
      BY <1>1, <1>4, <1>5, <2>2
    <3>2. j - (i - 1) \in 1..(Len(q) - i)
      BY <2>2
    <3>3. r[j - (i - 1)] = q[i + (j - (i - 1))]
      BY <1>2, <3>2
    <3>4. i + (j - (i - 1)) = j + 1
      OBVIOUS
    <3>5. QED
      BY <2>2, <3>1, <3>3, <3>4
  <2>3. j < i \/ j >= i
    OBVIOUS
  <2>4. QED
    BY <2>1, <2>2, <2>3
<1>7. QED
  BY <1>3, <1>4, <1>5, <1>6

\* What is left of a queue whose first n messages were dropped.
LEMMA DropHeadsLemma ==
  ASSUME NEW S, NEW q \in Seq(S), NEW n \in 0..Len(q)
  PROVE  /\ SubSeq(q, n + 1, Len(q)) \in Seq(S)
         /\ Len(SubSeq(q, n + 1, Len(q))) = Len(q) - n
         /\ \A j \in 1..(Len(q) - n) : SubSeq(q, n + 1, Len(q))[j] = q[n + j]
<1>1. \A j \in (n + 1)..Len(q) : q[j] \in S
  BY ElementOfSeq
<1>2. QED
  BY <1>1, SubSeqProperties

-----------------------------------------------------------------------------
(* What the splices do to the set of the members of a queue without doubles *)

NoDup(q) == \A j, k \in 1..Len(q) : q[j] = q[k] => j = k

LEMMA ToSetLemma ==
  ASSUME NEW S, NEW q \in Seq(S)
  PROVE  /\ ToSet(q) \in SUBSET S
         /\ \A j \in 1..Len(q) : q[j] \in ToSet(q)
         /\ \A x \in ToSet(q) : \E j \in 1..Len(q) : q[j] = x
BY ElementOfSeq DEF ToSet

LEMMA AppendSet ==
  ASSUME NEW S, NEW q \in Seq(S), NEW e \in S, e \notin ToSet(q), NoDup(q)
  PROVE  NoDup(Append(q, e)) /\ ToSet(Append(q, e)) = ToSet(q) \cup {e}
<1> DEFINE r == Append(q, e)
<1>1. /\ r \in Seq(S) /\ Len(r) = Len(q) + 1
      /\ \A j \in 1..Len(q) : r[j] = q[j]
      /\ r[Len(q) + 1] = e
  BY AppendProperties
<1> HIDE DEF r
<1>2. \A j \in 1..Len(q) : q[j] # e
  BY ToSetLemma
<1>3. NoDup(r)
  BY <1>1, <1>2 DEF NoDup
<1>4. ASSUME NEW x \in ToSet(r) PROVE x \in ToSet(q) \cup {e}
  <2>1. PICK j \in 1..Len(r) : r[j] = x
    BY <1>1, ToSetLemma
  <2>2. QED
    BY <1>1, <2>1, ToSetLemma
<1>5. ASSUME NEW x \in ToSet(q) \cup {e} PROVE x \in ToSet(r)
  <2>1. \A j \in 1..Len(r) : r[j] \in ToSet(r)
    BY <1>1, ToSetLemma
  <2>2. e \in ToSet(r)
    BY <1>1, <2>1
  <2>3. CASE x \in ToSet(q)
    <3>1. PICK j \in 1..Len(q) : q[j] = x
      BY <2>3, ToSetLemma
    <3>2. j \in 1..Len(r) /\ r[j] = x
      BY <1>1, <3>1
    <3>3. QED
      BY <2>1, <3>2
  <2>4. QED
    BY <2>2, <2>3
<1>6. QED
  BY <1>3, <1>4, <1>5 DEF r

LEMMA InsertSet ==
  ASSUME NEW S, NEW q \in Seq(S), NEW i \in 1..(Len(q) + 1), NEW e \in S,
         e \notin ToSet(q), NoDup(q)
  PROVE  NoDup(InsertAt(q, i, e)) /\ ToSet(InsertAt(q, i, e)) = ToSet(q) \cup {e}
<1> DEFINE r == InsertAt(q, i, e)
<1>1. /\ r \in Seq(S) /\ Len(r) = Len(q) + 1
      /\ \A j \in 1..(Len(q) + 1) :
           r[j] = IF j < i THEN q[j] ELSE IF j = i THEN e ELSE q[j - 1]
  BY InsertAtLemma
<1>2. \A j \in 1..Len(q) : q[j] # e
  BY ToSetLemma
<1> HIDE DEF r
<1>3. NoDup(r)
  <2>1. ASSUME NEW j \in 1..Len(r), NEW k \in 1..Len(r), j < k PROVE r[j] # r[k]
    <3>1. CASE k < i
      BY <1>1, <2>1, <3>1 DEF NoDup
    <3>2. CASE k = i
      BY <1>1, <1>2, <2>1, <3>2
    <3>3. CASE k > i /\ j = i
      <4>1. k - 1 \in 1..Len(q)
        BY <1>1, <2>1, <3>3
      <4>2. QED
        BY <1>1, <1>2, <3>3, <4>1
    <3>4. CASE k > i /\ j # i
      <4>1. k - 1 \in 1..Len(q) /\ r[k] = q[k - 1]
        BY <1>1, <2>1, <3>4
      <4>2. PICK l \in 1..Len(q) : r[j] = q[l] /\ l < k - 1
        <5>1. CASE j < i
          BY <1>1, <2>1, <3>4, <5>1
        <5>2. CASE j > i
          <6>1. j - 1 \in 1..Len(q) /\ r[j] = q[j - 1] /\ j - 1 < k - 1
            BY <1>1, <2>1, <5>2
          <6>2. QED
            BY <6>1
        <5>3. QED
          BY <3>4, <5>1, <5>2
      <4>3. QED
        BY <4>1, <4>2 DEF NoDup
    <3>5. QED
      BY <3>1, <3>2, <3>3, <3>4
  <2>2. QED
    BY <1>1, <2>1 DEF NoDup
<1>4. ASSUME NEW x \in ToSet(r) PROVE x \in ToSet(q) \cup {e}
  <2>1. PICK j \in 1..Len(r) : r[j] = x
    BY <1>1, ToSetLemma
  <2>2. CASE j < i
    BY <1>1, <2>1, <2>2, ToSetLemma
  <2>3. CASE j > i
    <3>1. j - 1 \in 1..Len(q) /\ x = q[j - 1]
      BY <1>1, <2>1, <2>3
    <3>2. QED
      BY <3>1, ToSetLemma
  <2>4. QED
    BY <1>1, <2>1, <2>2, <2>3
<1>5. ASSUME NEW x \in ToSet(q) PROVE x \in ToSet(r)
  <2>1. PICK j \in 1..Len(q) : q[j] = x
    BY ToSetLemma
  <2>2. CASE j < i
    <3>1. j \in 1..Len(r) /\ r[j] = x
      BY <1>1, <2>1, <2>2
    <3>2. QED
      BY <1>1, <3>1, ToSetLemma
  <2>3. CASE j >= i
    <3>1. j + 1 \in 1..Len(r)
      BY <1>1, <2>1
    <3>2. r[j + 1] = x
      BY <1>1, <2>1, <2>3, <3>1
    <3>3. QED
      BY <1>1, <3>1, <3>2, ToSetLemma
  <2>4. QED
    BY <2>2, <2>3
<1>6. e \in ToSet(r)
  BY <1>1, ToSetLemma
<1>7. QED
  BY <1>3, <1>4, <1>5, <1>6 DEF r

LEMMA RemoveSet ==
  ASSUME NEW S, NEW q \in Seq(S), NEW i \in 1..Len(q), NoDup(q)
  PROVE  NoDup(RemoveAt(q, i)) /\ ToSet(RemoveAt(q, i)) = ToSet(q) \ {q[i]}
<1> DEFINE r == RemoveAt(q, i)
<1>1. /\ r \in Seq(S) /\ Len(r) = Len(q) - 1
      /\ \A j \in 1..(Len(q) - 1) : r[j] = IF j < i THEN q[j] ELSE q[j + 1]
  BY RemoveAtLemma
<1> HIDE DEF r
<1>2. NoDup(r)
  <2>1. ASSUME NEW j \in 1..Len(r)
        PROVE  \E l \in 1..Len(q) : r[j] = q[l] /\ l >= j /\ l <= j + 1 /\ (l = j <=> j < i)
    <3>1. j + 1 \in 1..Len(q) /\ j \in 1..Len(q)
      BY <1>1
    <3>2. QED
      BY <1>1, <3>1
  <2>2. ASSUME NEW j \in 1..Len(r), NEW k \in 1..Len(r), j < k PROVE r[j] # r[k]
    <3>1. PICK a \in 1..Len(q) : r[j] = q[a] /\ a >= j /\ a <= j + 1 /\ (a = j <=> j < i)
      BY <2>1
    <3>2. PICK b \in 1..Len(q) : r[k] = q[b] /\ b >= k /\ b <= k + 1 /\ (b = k <=> k < i)
      BY <2>1
    <3>3. a < b
      BY <2>2, <3>1, <3>2
    <3>4. QED
      BY <3>1, <3>2, <3>3 DEF NoDup
  <2>3. QED
    BY <1>1, <2>2 DEF NoDup
<1>3. ASSUME NEW x \in ToSet(r) PROVE x \in ToSet(q) \ {q[i]}
  <2>1. PICK j \in 1..(Len(q) - 1) : r[j] = x
    BY <1>1, ToSetLemma
  <2>2. PICK l \in 1..Len(q) : x = q[l] /\ l # i
    <3>1. CASE j < i
      BY <1>1, <2>1, <3>1
    <3>2. CASE j >= i
      <4>1. j + 1 \in 1..Len(q) /\ j + 1 # i /\ x = q[j + 1]
        BY <1>1, <2>1, <3>2
      <4>2. QED
        BY <4>1
    <3>3. QED
      BY <3>1, <3>2
  <2>3. QED
    BY <2>2, ToSetLemma DEF NoDup
<1>4. ASSUME NEW x \in ToSet(q) \ {q[i]} PROVE x \in ToSet(r)
  <2>1. PICK j \in 1..Len(q) : q[j] = x /\ j # i
    BY ToSetLemma
  <2>2. CASE j < i
    <3>1. j \in 1..(Len(q) - 1) /\ r[j] = x
      BY <1>1, <2>1, <2>2
    <3>2. QED
      BY <1>1, <3>1, ToSetLemma
  <2>3. CASE j > i
    <3>1. j - 1 \in 1..(Len(q) - 1)
      BY <2>1, <2>3
    <3>2. r[j - 1] = x
      BY <1>1, <2>1, <2>3, <3>1
    <3>3. QED
      BY <1>1, <3>1, <3>2, ToSetLemma
  <2>4. QED
    BY <2>1, <2>2, <2>3
<1>5. QED
  BY <1>2, <1>3, <1>4 DEF r

\* r holds the tail of q from position n + 1 on.
LEMMA DropSet ==
  ASSUME NEW S, NEW q \in Seq(S), NEW r \in Seq(S), NEW n \in 0..Len(q), NoDup(q),
         Len(r) = Len(q) - n, \A j \in 1..(Len(q) - n) : r[j] = q[n + j]
  PROVE  /\ NoDup(r)
         /\ ToSet(r) = ToSet(q) \ {q[j] : j \in 1..n}
<1>1. NoDup(r)
  <2>1. ASSUME NEW j \in 1..Len(r), NEW k \in 1..Len(r), r[j] = r[k] PROVE j = k
    <3>1. n + j \in 1..Len(q) /\ n + k \in 1..Len(q) /\ q[n + j] = q[n + k]
      BY <2>1
    <3>2. n + j = n + k
      BY <3>1 DEF NoDup
    <3>3. QED
      BY <3>2
  <2>2. QED
    BY <2>1 DEF NoDup
<1>2. ASSUME NEW x \in ToSet(r) PROVE x \in ToSet(q) \ {q[j] : j \in 1..n}
  <2>1. PICK j \in 1..(Len(q) - n) : r[j] = x
    BY ToSetLemma
  <2>2. PICK l \in 1..Len(q) : l = n + j /\ q[l] = x
    BY <2>1
  <2>3. \A i \in 1..n : i \in 1..Len(q) /\ i # l
    BY <2>2
  <2>4. x \notin {q[i] : i \in 1..n}
    <3>1. \A i \in 1..n : q[i] # q[l]
      BY <2>3 DEF NoDup
    <3>2. QED
      BY <2>2, <3>1
  <2>5. QED
    BY <2>2, <2>4, ToSetLemma
<1>3. ASSUME NEW x \in ToSet(q) \ {q[j] : j \in 1..n} PROVE x \in ToSet(r)
  <2>1. PICK j \in 1..Len(q) : q[j] = x
    BY ToSetLemma
  <2>2. ~(j <= n)
    BY <2>1
  <2>3. j - n \in 1..(Len(q) - n) /\ q[n + (j - n)] = x
    BY <2>1, <2>2
  <2>4. r[j - n] = x
    BY <2>3
  <2>5. QED
    BY <2>3, <2>4, ToSetLemma
<1>4. QED
  BY <1>1, <1>2, <1>3

\* r lists the positions I of q in increasing order, f being their enumeration.
Lists(r, q, I, f, n) ==
  /\ I \in SUBSET (1..Len(q)) /\ n \in Nat /\ f \in [1..n -> I]
  /\ \A a, b \in 1..n : a < b => f[a] < f[b]
  /\ \A i \in I : \E a \in 1..n : f[a] = i
  /\ Len(r) = n
  /\ \A a \in 1..n : r[a] = q[f[a]]

LEMMA KeepSet ==
  ASSUME NEW S, NEW q \in Seq(S), NEW r \in Seq(S), NEW I, NEW f, NEW n,
         NoDup(q), Lists(r, q, I, f, n)
  PROVE  NoDup(r) /\ ToSet(r) = {q[i] : i \in I}
<1> USE DEF Lists
<1>1. NoDup(r)
  <2>1. ASSUME NEW a \in 1..n, NEW b \in 1..n, a < b PROVE r[a] # r[b]
    <3>1. f[a] < f[b] /\ f[a] \in 1..Len(q) /\ f[b] \in 1..Len(q)
      BY <2>1
    <3>2. QED
      BY <2>1, <3>1 DEF NoDup
  <2>2. DOMAIN r = 1..n
    OBVIOUS
  <2>3. QED
    BY <2>1, <2>2 DEF NoDup
<1>2. ASSUME NEW x \in ToSet(r) PROVE x \in {q[i] : i \in I}
  <2>1. PICK a \in 1..n : r[a] = x
    BY ToSetLemma
  <2>2. QED
    BY <2>1
<1>3. ASSUME NEW i \in I PROVE q[i] \in ToSet(r)
  BY ToSetLemma
<1>4. QED
  BY <1>1, <1>2, <1>3

-----------------------------------------------------------------------------
(* What they do to the order of a queue of numbers *)

Ascending(q) == \A j, k \in 1..Len(q) : j < k => q[j] < q[k]

\* Exactly the first i members of q are smaller than e.
Splits(q, i, e) ==
  /\ i \in 0..Len(q)
  /\ \A j \in 1..Len(q) : /\ j <= i => q[j] < e
                          /\ j > i => e < q[j]

LEMMA AppendAscending ==
  ASSUME NEW S \in SUBSET Int, NEW q \in Seq(S), NEW e \in S, Ascending(q),
         \A j \in 1..Len(q) : q[j] < e
  PROVE  /\ Ascending(Append(q, e))
         /\ \A i, d : Splits(q, i, d) /\ d < e => Splits(Append(q, e), i, d)
<1> DEFINE r == Append(q, e)
<1>1. /\ r \in Seq(S) /\ Len(r) = Len(q) + 1 /\ Len(q) \in Nat
      /\ \A j \in 1..Len(q) : r[j] = q[j]
      /\ r[Len(q) + 1] = e
  BY AppendProperties
<1> HIDE DEF r
<1>2. Ascending(r)
  BY <1>1 DEF Ascending
<1>3. ASSUME NEW i, NEW d, Splits(q, i, d), d < e PROVE Splits(r, i, d)
  BY <1>1, <1>3 DEF Splits
<1>4. QED
  BY <1>2, <1>3 DEF r

LEMMA InsertAscending ==
  ASSUME NEW S \in SUBSET Int, NEW q \in Seq(S), NEW e \in S, NEW i, Splits(q, i, e),
         Ascending(q)
  PROVE  Ascending(InsertAt(q, i + 1, e))
<1>1. PICK k \in 1..(Len(q) + 1) : k = i + 1
  BY DEF Splits
<1> DEFINE r == InsertAt(q, k, e)
<1>2. /\ r \in Seq(S) /\ Len(r) = Len(q) + 1 /\ Len(q) \in Nat
      /\ \A j \in 1..(Len(q) + 1) :
           r[j] = IF j < k THEN q[j] ELSE IF j = k THEN e ELSE q[j - 1]
  BY InsertAtLemma
<1> HIDE DEF r
<1>3. \A j \in 1..Len(q) : q[j] \in Int
  BY ElementOfSeq
<1>4. ASSUME NEW a \in 1..Len(r), NEW b \in 1..Len(r), a < b PROVE r[a] < r[b]
  <2>1. CASE b < k
    BY <1>2, <1>4, <2>1 DEF Ascending
  <2>2. CASE b = k
    BY <1>1, <1>2, <1>4, <2>2 DEF Splits
  <2>3. CASE b > k
    <3>1. b - 1 \in 1..Len(q) /\ r[b] = q[b - 1] /\ e < q[b - 1]
      BY <1>1, <1>2, <1>4, <2>3 DEF Splits
    <3>2. CASE a < k
      <4>1. a \in 1..Len(q) /\ r[a] = q[a] /\ q[a] < e
        BY <1>1, <1>2, <1>4, <2>3, <3>2 DEF Splits
      <4>2. QED
        BY <1>3, <3>1, <4>1
    <3>3. CASE a = k
      BY <1>2, <3>1, <3>3
    <3>4. CASE a > k
      <4>1. a - 1 \in 1..Len(q) /\ r[a] = q[a - 1] /\ a - 1 < b - 1
        BY <1>1, <1>2, <1>4, <2>3, <3>4
      <4>2. QED
        BY <3>1, <4>1 DEF Ascending
    <3>5. QED
      BY <3>2, <3>3, <3>4
  <2>4. QED
    BY <2>1, <2>2, <2>3
<1>5. QED
  BY <1>1, <1>4 DEF Ascending, r

LEMMA RemoveAscending ==
  ASSUME NEW S \in SUBSET Int, NEW q \in Seq(S), NEW k \in 1..Len(q), Ascending(q)
  PROVE  /\ Ascending(RemoveAt(q, k)) /\ Splits(RemoveAt(q, k), k - 1, q[k])
         /\ \A i, e : Splits(q, i, e) =>
              Splits(RemoveAt(q, k), IF k <= i THEN i - 1 ELSE i, e)
<1> DEFINE r == RemoveAt(q, k)
<1>1. /\ r \in Seq(S) /\ Len(r) = Len(q) - 1 /\ Len(q) \in Nat
      /\ \A j \in 1..(Len(q) - 1) : r[j] = IF j < k THEN q[j] ELSE q[j + 1]
  BY RemoveAtLemma
<1> HIDE DEF r
<1>2. ASSUME NEW j \in 1..Len(r)
      PROVE  \E l \in 1..Len(q) : r[j] = q[l] /\ l = IF j < k THEN j ELSE j + 1
  <2>1. j \in 1..Len(q) /\ j + 1 \in 1..Len(q)
    BY <1>1
  <2>2. QED
    BY <1>1, <2>1
<1>3. ASSUME NEW a \in 1..Len(r), NEW b \in 1..Len(r), a < b PROVE r[a] < r[b]
  <2>1. PICK l \in 1..Len(q) : r[a] = q[l] /\ l = IF a < k THEN a ELSE a + 1
    BY <1>2
  <2>2. PICK m \in 1..Len(q) : r[b] = q[m] /\ m = IF b < k THEN b ELSE b + 1
    BY <1>2
  <2>3. l < m
    BY <1>3, <2>1, <2>2
  <2>4. QED
    BY <2>1, <2>2, <2>3 DEF Ascending
<1>4. Splits(r, k - 1, q[k])
  <2>1. k - 1 \in 0..Len(r)
    BY <1>1
  <2>2. ASSUME NEW j \in 1..Len(r)
        PROVE  (j <= k - 1 => r[j] < q[k]) /\ (j > k - 1 => q[k] < r[j])
    <3>1. PICK l \in 1..Len(q) : r[j] = q[l] /\ l = IF j < k THEN j ELSE j + 1
      BY <1>2
    <3>2. (j <= k - 1 => l < k) /\ (j > k - 1 => k < l)
      BY <1>1, <3>1
    <3>3. QED
      BY <3>1, <3>2 DEF Ascending
  <2>3. QED
    BY <2>1, <2>2 DEF Splits
<1>5. ASSUME NEW i, NEW e, Splits(q, i, e)
      PROVE  Splits(r, IF k <= i THEN i - 1 ELSE i, e)
  <2>1. PICK x \in 0..Len(q) : x = i
    BY <1>5 DEF Splits
  <2>2. PICK y \in 0..Len(r) : y = IF k <= x THEN x - 1 ELSE x
    BY <1>1
  <2>3. ASSUME NEW j \in 1..Len(r)
        PROVE  (j <= y => r[j] < e) /\ (j > y => e < r[j])
    <3>1. PICK l \in 1..Len(q) : r[j] = q[l] /\ l = IF j < k THEN j ELSE j + 1
      BY <1>2
    <3>2. (j <= y => l <= x) /\ (j > y => l > x)
      BY <1>1, <2>2, <3>1
    <3>3. QED
      BY <1>5, <2>1, <3>1, <3>2 DEF Splits
  <2>4. Splits(r, y, e)
    BY <2>3 DEF Splits
  <2>5. QED
    BY <2>1, <2>2, <2>4
<1>6. QED
  BY <1>3, <1>4, <1>5 DEF Ascending, r

\* r is what is left of q without its first n members.
LEMMA DropAscending ==
  ASSUME NEW S \in SUBSET Int, NEW q \in Seq(S), NEW r \in Seq(S), NEW n \in 0..Len(q),
         Ascending(q), Len(r) = Len(q) - n, \A j \in 1..(Len(q) - n) : r[j] = q[n + j]
  PROVE  /\ Ascending(r)
         /\ \A e : (\E k \in 1..n : e = q[k]) => Splits(r, 0, e)
<1>1. ASSUME NEW j \in 1..Len(r) PROVE \E l \in 1..Len(q) : l = n + j /\ r[j] = q[l]
  <2>1. n + j \in 1..Len(q)
    OBVIOUS
  <2>2. QED
    BY <2>1
<1>2. ASSUME NEW a \in 1..Len(r), NEW b \in 1..Len(r), a < b PROVE r[a] < r[b]
  <2>1. PICK l \in 1..Len(q) : l = n + a /\ r[a] = q[l]
    BY <1>1
  <2>2. PICK m \in 1..Len(q) : m = n + b /\ r[b] = q[m]
    BY <1>1
  <2>3. l < m
    BY <1>2, <2>1, <2>2
  <2>4. QED
    BY <2>1, <2>2, <2>3 DEF Ascending
<1>3. ASSUME NEW e, NEW k \in 1..n, e = q[k] PROVE Splits(r, 0, e)
  <2>1. k \in 1..Len(q) /\ 0 \in 0..Len(r)
    OBVIOUS
  <2>2. ASSUME NEW j \in 1..Len(r) PROVE e < r[j]
    <3>1. PICK l \in 1..Len(q) : l = n + j /\ r[j] = q[l]
      BY <1>1
    <3>2. k < l
      BY <3>1
    <3>3. QED
      BY <1>3, <2>1, <3>1, <3>2 DEF Ascending
  <2>3. QED
    BY <2>1, <2>2 DEF Splits
<1>4. QED
  BY <1>2, <1>3 DEF Ascending

\* A downward closed set of positions is an initial segment.
LEMMA InitialSegment ==
  ASSUME NEW n \in Nat, NEW A \in SUBSET (1..n),
         \A a \in A : \A b \in 1..n : b < a => b \in A
  PROVE  IsFiniteSet(A) /\ A = 1..Cardinality(A)
<1>1. IsFiniteSet(1..n) /\ Cardinality(1..n) = n
  BY FS_Interval, Z3
<1>2. IsFiniteSet(A) /\ Cardinality(A) <= n
  BY <1>1, FS_Subset
<1>3. PICK c \in Nat : c = Cardinality(A)
  BY <1>2, FS_CardinalityType
<1>4. ASSUME NEW a \in A PROVE a \in 1..c
  <2>1. PICK x \in Nat : x = a /\ x >= 1
    OBVIOUS
  <2>2. 1..x \in SUBSET A
    BY <2>1
  <2>3. Cardinality(1..x) = x
    BY FS_Interval, Z3
  <2>4. Cardinality(1..x) <= Cardinality(A)
    BY <1>2, <2>2, FS_Subset
  <2>5. QED
    BY <1>3, <2>1, <2>3, <2>4
<1>5. IsFiniteSet(1..c) /\ Cardinality(1..c) = c
  BY FS_Interval, Z3
<1>6. A \in SUBSET (1..c)
  BY <1>4
<1>7. 1..c = A
  BY <1>3, <1>5, <1>6, FS_Subset
<1>8. QED
  BY <1>2, <1>3, <1>7

LEMMA KeepAscending ==
  ASSUME NEW S \in SUBSET Int, NEW q \in Seq(S), NEW r \in Seq(S), NEW I, NEW f, NEW n,
         Ascending(q), Lists(r, q, I, f, n)
  PROVE  Ascending(r)
<1> USE DEF Lists
<1>1. ASSUME NEW a \in 1..n, NEW b \in 1..n, a < b PROVE r[a] < r[b]
  <2>1. f[a] < f[b] /\ f[a] \in 1..Len(q) /\ f[b] \in 1..Len(q)
    BY <1>1
  <2>2. QED
    BY <1>1, <2>1 DEF Ascending
<1>2. QED
  BY <1>1 DEF Ascending

\* The members taken out from among the first i move the place of e.
LEMMA KeepSplits ==
  ASSUME NEW S \in SUBSET Int, NEW q \in Seq(S), NEW r \in Seq(S), NEW I, NEW f, NEW n,
         Lists(r, q, I, f, n), NEW i, NEW e, Splits(q, i, e)
  PROVE  Splits(r, i - Cardinality((1..i) \ I), e)
<1>1. /\ I \in SUBSET (1..Len(q)) /\ n \in Nat /\ f \in [1..n -> I] /\ Len(r) = n
      /\ \A a, b \in 1..n : a < b => f[a] < f[b]
      /\ \A k \in I : \E a \in 1..n : f[a] = k
      /\ \A a \in 1..n : r[a] = q[f[a]]
  BY DEF Lists
<1>2. PICK x \in Nat : x = i /\ x <= Len(q)
  BY DEF Splits
<1> DEFINE A == {a \in 1..n : f[a] <= x}
           B == (1..x) \cap I
<1>3. \A a \in 1..n : f[a] \in 1..Len(q) /\ f[a] \in Nat
  <2>1. \A a \in 1..n : f[a] \in I
    BY <1>1
  <2>2. 1..Len(q) \subseteq Nat
    OBVIOUS
  <2> QED
    BY <1>1, <2>1, <2>2
<1>4. IsFiniteSet(A) /\ A = 1..Cardinality(A)
  <2>1. \A a \in A : \A b \in 1..n : b < a => b \in A
    BY <1>1, <1>2, <1>3
  <2> HIDE DEF A
  <2>2. A \in SUBSET (1..n)
    BY DEF A
  <2>3. QED
    BY <1>1, <2>1, <2>2, InitialSegment
<1>5. Cardinality(A) = Cardinality(B)
  <2> DEFINE g == [a \in A |-> f[a]]
  <2>1. g \in Surjection(A, B)
    <3>1. g \in [A -> B]
      BY <1>1, <1>2, <1>3
    <3>2. ASSUME NEW k \in B PROVE \E a \in A : g[a] = k
      BY <1>1, <1>2
    <3>3. QED
      BY <3>1, <3>2 DEF Surjection
  <2>2. g \in Injection(A, B)
    <3>1. g \in [A -> B]
      BY <1>1, <1>2, <1>3
    <3>2. ASSUME NEW a \in A, NEW b \in A, g[a] = g[b] PROVE a = b
      <4>1. a \in 1..n /\ b \in 1..n /\ f[a] = f[b]
        BY <3>2
      <4>2. ~(a < b) /\ ~(b < a)
        BY <1>1, <1>3, <4>1
      <4>3. QED
        BY <4>1, <4>2
    <3>3. IsInjective(g)
      BY <3>2 DEF IsInjective
    <3>4. QED
      BY <3>1, <3>3 DEF Injection
  <2> HIDE DEF g, A, B
  <2>3. QED
    BY <1>4, <2>1, <2>2, FS_Surjection
<1>6. IsFiniteSet(1..x) /\ Cardinality(1..x) = x
  BY FS_Interval, Z3
<1>7. /\ Cardinality((1..x) \ I) = x - Cardinality(B)
  BY <1>6, FS_Difference
<1>8. PICK c \in Nat : c = Cardinality(A)
  BY <1>4, FS_CardinalityType
<1>9. x - Cardinality((1..x) \ I) = c
  BY <1>5, <1>7, <1>8
<1>10. \A a \in 1..n : a <= c <=> f[a] <= x
  <2>1. \A a \in 1..n : a \in A <=> a \in 1..c
    <3> HIDE DEF A
    <3>1. QED
      BY <1>4, <1>8
  <2>2. QED
    BY <2>1
<1>11. c <= n
  <2> HIDE DEF A
  <2>1. c > 0 => c \in A
    BY <1>4, <1>8
  <2>2. QED
    BY <1>1, <2>1 DEF A
<1>12. Splits(r, c, e)
  <2>1. ASSUME NEW a \in 1..n PROVE (a <= c => r[a] < e) /\ (a > c => e < r[a])
    <3>1. PICK l \in 1..Len(q) : l = f[a] /\ r[a] = q[l] /\ (a <= c <=> l <= x)
      BY <1>1, <1>3, <1>10
    <3>2. QED
      BY <1>2, <3>1 DEF Splits
  <2>2. QED
    BY <1>1, <1>11, <2>1 DEF Splits
<1>13. QED
  BY <1>2, <1>9, <1>12
=============================================================================
