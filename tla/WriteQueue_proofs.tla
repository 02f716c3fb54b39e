-------------------------- MODULE WriteQueue_proofs --------------------------
(***************************************************************************)
(* The write queue's safety properties for any files, sizes and bounds.    *)
(* The inductive invariant adds to the checked ones what orders the bytes: *)
(* whatever is queued is later than whatever is not, and the rest of a     *)
(* file's group is later than what the file already holds.  With them, the *)
(* queue is an append-only log that tells nobody before the bytes are      *)
(* settled (AppendLog).                                                    *)
(***************************************************************************)
EXTENDS WriteQueue, FiniteSetTheorems, WellFoundedInduction, TLAPS

Ordered ==
  /\ \A b \in left \cup Settled, c \in queue : b < c
  /\ \A b \in disk, c \in left : path[b] = path[c] => b < c

\* Between drains there is no batch, and close() waits for what it must.
Phases ==
  /\ phase # "draining" => taken = {}
  /\ taken \cap queue = {}
  /\ ~drained => phase # "draining"
  /\ closing = "settled" => phase = "idle"
  /\ syncMode => phase = "idle"

IInv ==
  /\ TypeOK
  /\ EachByteInOnePlace
  /\ IdleMeansQuiet
  /\ PendingCounts
  /\ ReportedAfterWrite
  /\ FlushCovers
  /\ CloseLosesNothing
  /\ Ordered
  /\ Phases

-----------------------------------------------------------------------------
(* Sets of bytes *)

LEMMA FirstByte ==
  ASSUME NEW S \in SUBSET Bytes, S # {}
  PROVE  First(S) \in S /\ \A c \in S : First(S) <= c
<1>1. S \subseteq Nat
  BY QueueAssumption DEF Bytes
<1>2. PICK b \in S : \A c \in S : ~ (<<c, b>> \in OpToRel(<, Nat))
  BY <1>1, NatLessThanWellFounded, WFMin
<1>3. \A c \in S : b <= c
  <2> SUFFICES ASSUME NEW c \in S, c < b PROVE FALSE
    BY <1>1
  <2>1. b \in Nat /\ c \in Nat
    BY <1>1
  <2>2. <<c, b>> \in OpToRel(<, Nat)
    BY <2>1 DEF OpToRel
  <2> QED
    BY <1>2, <2>2
<1> QED
  BY <1>3 DEF First

LEMMA SizeOf ==
  ASSUME NEW n \in Nat, NEW S \in SUBSET (1..n)
  PROVE  IsFiniteSet(S) /\ Cardinality(S) \in Nat
<1>1. 1 \in Int /\ n \in Int
  OBVIOUS
<1>2. IsFiniteSet(1..n)
  BY <1>1, FS_Interval
<1>3. IsFiniteSet(S)
  BY <1>2, FS_Subset
<1> QED
  BY <1>3, FS_CardinalityType

\* A chunk is the beginning of what is left of its group.
LEMMA ChunkFirst ==
  ASSUME NEW n \in Nat, NEW S \in SUBSET (1..n),
         NEW b \in Chunk(S), NEW c \in S, c \notin Chunk(S)
  PROVE  b < c
<1> DEFINE Below(x) == {y \in S : y < x}
<1>1. b \in S /\ Cardinality(Below(b)) < ChunkBytes
  BY DEF Chunk
<1>2. b \in Nat /\ c \in Nat /\ \A y \in S : y \in Nat
  BY <1>1
<1>3. SUFFICES ASSUME c <= b PROVE FALSE
  BY <1>2
<1>4. Below(c) \in SUBSET Below(b)
  <2>1. \A y \in S : y < c => y < b
    BY <1>2, <1>3
  <2> QED
    BY <2>1
<1>5. Below(b) \in SUBSET (1..n) /\ Below(c) \in SUBSET (1..n)
  OBVIOUS
<1> HIDE DEF Below
<1>6. /\ IsFiniteSet(Below(b))
      /\ Cardinality(Below(b)) \in Nat /\ Cardinality(Below(c)) \in Nat
  BY <1>5, SizeOf
<1>7. Cardinality(Below(c)) <= Cardinality(Below(b))
  BY <1>4, <1>6, FS_Subset
<1>8. Cardinality(Below(c)) < ChunkBytes
  BY <1>1, <1>6, <1>7, QueueAssumption
<1> QED
  BY <1>8 DEF Chunk, Below

\* Nothing is left of a group only when nothing was: an append deals with a byte
\* at least.
LEMMA ChunkNotEmpty ==
  ASSUME NEW S \in SUBSET Bytes, S # {}
  PROVE  Chunk(S) # {}
<1>1. First(S) \in S /\ \A c \in S : First(S) <= c
  BY FirstByte
<1>2. S \subseteq Nat
  BY QueueAssumption DEF Bytes
<1>3. PICK b \in S : \A c \in S : b <= c
  BY <1>1
<1>4. \A c \in S : ~ (c < b)
  BY <1>2, <1>3
<1>5. {c \in S : c < b} = {}
  BY <1>4
<1>6. Cardinality({c \in S : c < b}) = 0
  BY <1>5, FS_EmptySet
<1>7. b \in Chunk(S)
  BY <1>6, QueueAssumption DEF Chunk
<1> QED
  BY <1>7

LEMMA AddedSize ==
  ASSUME NEW m \in Nat, NEW n \in Nat, NEW S \in SUBSET (1..m)
  PROVE  Cardinality(S \cup ((m + 1)..(m + n))) = Cardinality(S) + n
<1> DEFINE new == (m + 1)..(m + n)
<1>1. m + 1 \in Int /\ m + n \in Int
  OBVIOUS
<1>2. IsFiniteSet(new) /\ Cardinality(new) = IF m + 1 > m + n THEN 0 ELSE m + n - (m + 1) + 1
  BY <1>1, FS_Interval
<1>3. Cardinality(new) = n
  BY <1>2
<1>4. S \cap new = {}
  OBVIOUS
<1>5. IsFiniteSet(S) /\ Cardinality(S) \in Nat
  BY SizeOf
<1> HIDE DEF new
<1>6. Cardinality(S \cup new) = Cardinality(S) + Cardinality(new) - Cardinality(S \cap new)
  BY <1>2, <1>5, FS_Union
<1>7. Cardinality(S \cap new) = 0
  BY <1>4, FS_EmptySet
<1>8. Cardinality(S \cup new) = Cardinality(S) + n
  BY <1>3, <1>5, <1>6, <1>7
<1> QED
  BY <1>8 DEF new

-----------------------------------------------------------------------------
(* Initial states *)

LEMMA InitIInv == Init => IInv
<1> SUFFICES ASSUME Init PROVE IInv
  OBVIOUS
<1>1. AnyPath \in Paths
  BY QueueAssumption DEF AnyPath
<1>2. 1..0 = {} /\ Cardinality({}) = 0
  BY FS_EmptySet
<1>3. TypeOK
  <2>1. path \in [Bytes -> Paths] /\ entry \in [Bytes -> Bytes] /\ current \in Paths
    BY <1>1 DEF Init
  <2>2. 0 \in 0..MaxBytes /\ 0 \in 0..0
    BY QueueAssumption
  <2> QED
    BY <2>1, <2>2 DEF Init, TypeOK
<1>4. EachByteInOnePlace /\ IdleMeansQuiet /\ ReportedAfterWrite /\ FlushCovers
  BY <1>2 DEF Init, EachByteInOnePlace, IdleMeansQuiet, ReportedAfterWrite,
              FlushCovers, Settled
<1>5. PendingCounts
  BY <1>2 DEF Init, PendingCounts
<1> QED
  BY <1>3, <1>4, <1>5 DEF Init, IInv, CloseLosesNothing, Ordered, Phases, Settled

-----------------------------------------------------------------------------
(* Calls *)

LEMMA AppendIInv ==
  ASSUME IInv, NEW p \in Paths, NEW n \in Sizes, Append(p, n)
  PROVE  IInv'
<1> DEFINE new == (accepted + 1)..(accepted + n)
<1> USE DEF IInv
<1>1. /\ n \in Nat /\ n # 0 /\ MaxBytes \in Nat
      /\ accepted \in Nat /\ accepted' = accepted + n /\ accepted' <= MaxBytes
      /\ closing = "open" /\ closing' = "open"
      /\ UNCHANGED <<syncMode, drained, taken, left, current, waiting, flushed, listening>>
  BY QueueAssumption DEF Append, TypeOK, batch
<1>2. /\ new \subseteq 1..accepted' /\ new \subseteq Bytes
      /\ 1..accepted' = 1..accepted \cup new
      /\ \A b \in 1..accepted, c \in new : b < c
      /\ 1..accepted \cap new = {}
  BY <1>1 DEF Bytes
<1>3. /\ path' = [b \in Bytes |-> IF b \in new THEN p ELSE path[b]]
      /\ entry' = [b \in Bytes |-> IF b \in new THEN accepted + 1 ELSE entry[b]]
  BY DEF Append
<1>4. accepted + 1 \in Bytes
  BY <1>1 DEF Bytes
<1>5. path' \in [Bytes -> Paths] /\ entry' \in [Bytes -> Bytes]
  BY <1>3, <1>4 DEF TypeOK
<1>6. 1..accepted \subseteq Bytes /\ \A b \in 1..accepted : path'[b] = path[b]
  BY <1>1, <1>2, <1>3 DEF Bytes
<1>7. CASE /\ Degrades(n)
           /\ \E w \in Starts(new) : disk' = disk \cup w /\ lost' = lost \cup (new \ w)
           /\ reported' = reported \cup new
           /\ UNCHANGED <<queue, pendingBytes, phase>>
  <2>1. PICK w \in Starts(new) : disk' = disk \cup w /\ lost' = lost \cup (new \ w)
    BY <1>7
  <2>2. w \subseteq new
    BY DEF Starts
  <2>3. phase = "idle" /\ queue = {} /\ left = {}
    BY <1>7 DEF Degrades, Phases, IdleMeansQuiet
  <2> HIDE DEF new
  <2>4. Settled' = Settled \cup new
    BY <2>1, <2>2 DEF Settled
  <2>5. TypeOK'
    BY <1>1, <1>2, <1>5, <1>7, <2>1, <2>2 DEF TypeOK
  <2>6. EachByteInOnePlace'
    BY <1>1, <1>2, <1>7, <2>1, <2>2, <2>3, <2>4 DEF EachByteInOnePlace, TypeOK
  <2>7. IdleMeansQuiet' /\ PendingCounts'
    BY <1>1, <1>7, <2>3 DEF IdleMeansQuiet, PendingCounts
  <2>8. ReportedAfterWrite' /\ FlushCovers'
    BY <1>1, <1>7, <2>4 DEF ReportedAfterWrite, FlushCovers
  <2>9. CloseLosesNothing' /\ Ordered' /\ Phases'
    BY <1>1, <1>7, <2>3 DEF CloseLosesNothing, Ordered, Phases
  <2> QED
    BY <2>5, <2>6, <2>7, <2>8, <2>9
<1>8. CASE /\ ~Degrades(n)
           /\ queue' = queue \cup new
           /\ pendingBytes' = pendingBytes + n
           /\ ScheduleDrain
           /\ UNCHANGED <<files, reported>>
  <2>1. queue \in SUBSET (1..accepted) /\ taken \in SUBSET (1..accepted)
    BY DEF TypeOK
  <2>2. Cardinality(queue') = Cardinality(queue) + n
    BY <1>1, <1>8, <2>1, AddedSize
  <2>3. /\ Cardinality(queue) \in Nat /\ Cardinality(taken) \in Nat
    BY <1>1, <2>1, SizeOf
  <2>4. PendingCounts'
    BY <1>1, <1>8, <2>2, <2>3 DEF PendingCounts
  <2>5. accepted' \in new /\ ~syncMode
    BY <1>1, <1>8 DEF Degrades
  <2> HIDE DEF new
  <2>6. /\ phase' # "idle" /\ (phase' = "draining" <=> phase = "draining")
        /\ phase' \in {"scheduled", "draining"}
    BY <1>8 DEF ScheduleDrain, TypeOK
  <2>7. disk' = disk /\ lost' = lost /\ reported' = reported /\ Settled' = Settled
    BY <1>8 DEF files, Settled
  <2>8. TypeOK'
    BY <1>1, <1>2, <1>5, <1>8, <2>6, <2>7 DEF TypeOK
  <2>9. EachByteInOnePlace'
    BY <1>1, <1>2, <1>8, <2>1, <2>7 DEF EachByteInOnePlace, TypeOK, Settled
  <2>10. IdleMeansQuiet'
    BY <1>1, <2>6 DEF IdleMeansQuiet
  <2>11. ReportedAfterWrite' /\ FlushCovers' /\ CloseLosesNothing'
    BY <1>1, <2>7 DEF ReportedAfterWrite, FlushCovers, CloseLosesNothing
  <2>12. Ordered'
    <3>1. left \subseteq 1..accepted /\ disk \subseteq 1..accepted /\ Settled \subseteq 1..accepted
      BY DEF TypeOK, Settled
    <3>2. \A b \in left \cup Settled, c \in queue' : b < c
      BY <1>2, <1>8, <3>1 DEF Ordered
    <3>3. \A b \in disk, c \in left : path'[b] = path'[c] => b < c
      BY <1>6, <3>1 DEF Ordered
    <3> QED
      BY <1>1, <2>7, <3>2, <3>3 DEF Ordered
  <2>13. Phases'
    BY <1>1, <1>2, <1>8, <2>1, <2>5, <2>6 DEF Phases
  <2> QED
    BY <2>4, <2>8, <2>9, <2>10, <2>11, <2>12, <2>13
<1> QED
  BY <1>7, <1>8 DEF Append

LEMMA FlushIInv ==
  ASSUME IInv, Flush
  PROVE  IInv'
<1> USE DEF IInv
<1>1. /\ phase # "idle" /\ phase' = phase /\ waiting' = accepted
      /\ UNCHANGED <<syncMode, accepted, path, entry, queue, pendingBytes, drained, taken,
                     left, current, disk, lost, reported, flushed, listening, closing>>
  BY DEF Flush, ScheduleDrain, IdleMeansQuiet, input, batch, files
<1>2. TypeOK'
  BY <1>1, QueueAssumption DEF TypeOK
<1>3. Settled' = Settled
  BY <1>1 DEF Settled
<1>4. EachByteInOnePlace' /\ IdleMeansQuiet' /\ PendingCounts'
  BY <1>1, <1>3 DEF EachByteInOnePlace, IdleMeansQuiet, PendingCounts
<1>5. ReportedAfterWrite' /\ FlushCovers' /\ CloseLosesNothing' /\ Ordered' /\ Phases'
  BY <1>1, <1>3 DEF ReportedAfterWrite, FlushCovers, CloseLosesNothing, Ordered, Phases
<1> QED
  BY <1>2, <1>4, <1>5

LEMMA SameBytes ==
  ASSUME IInv, UNCHANGED vars \/ OnIdle
  PROVE  IInv'
<1>1. /\ UNCHANGED <<syncMode, accepted, path, entry, queue, pendingBytes, phase, drained,
                     taken, left, current, disk, lost, reported, waiting, flushed, closing>>
      /\ listening' \in BOOLEAN
  BY DEF OnIdle, vars, input, batch, files, IInv, TypeOK
<1>2. Settled' = Settled
  BY <1>1 DEF Settled
<1> QED
  BY <1>1, <1>2 DEF IInv, TypeOK, EachByteInOnePlace, IdleMeansQuiet, PendingCounts,
       ReportedAfterWrite, FlushCovers, CloseLosesNothing, Ordered, Phases

-----------------------------------------------------------------------------
(* Batches *)

\* The next batch, or the end of the drain, once the bytes of the last batch are
\* settled and credited.
LEMMA NextBatchIInv ==
  ASSUME IInv, NextBatch,
         UNCHANGED <<syncMode, accepted, path, entry, closing>>,
         ~syncMode, closing # "settled", drained', 
         Settled' = Settled \cup left, disk \subseteq disk', disk' \subseteq disk \cup left,
         disk' \cap lost' = {},
         reported \subseteq reported', reported' \subseteq Settled',
         pendingBytes' = Cardinality(queue)
  PROVE  IInv'
<1> USE DEF IInv
<1>1. /\ queue \in SUBSET (1..accepted) /\ accepted \in Nat
      /\ queue \subseteq Bytes /\ Cardinality(queue) \in Nat
  <2>1. queue \in SUBSET (1..accepted) /\ accepted \in Nat /\ accepted <= MaxBytes
    BY QueueAssumption DEF TypeOK
  <2>2. queue \subseteq Bytes
    BY <2>1, QueueAssumption DEF Bytes
  <2>3. Cardinality(queue) \in Nat
    BY <2>1, SizeOf
  <2> QED
    BY <2>1, <2>2, <2>3
<1>2. /\ queue \cup left \cup Settled = 1..accepted
      /\ queue \cap left = {} /\ (queue \cup left) \cap Settled = {}
  BY DEF EachByteInOnePlace
<1>3. Cardinality({}) = 0
  BY FS_EmptySet
<1>4. Settled' \subseteq 1..accepted
  BY <1>2
<1>5. CASE queue # {} /\ TakeBatch
  <2>1. /\ taken' = queue /\ left' = queue /\ queue' = {} /\ phase' = "draining"
        /\ UNCHANGED <<waiting, flushed, listening>>
    BY <1>5 DEF TakeBatch
  <2>2. current' \in Paths
    BY <1>1, <1>5, FirstByte DEF TakeBatch, TypeOK
  <2>3. TypeOK'
    BY <1>1, <1>4, <2>1, <2>2 DEF TypeOK, Settled
  <2>4. EachByteInOnePlace'
    BY <1>2, <2>1 DEF EachByteInOnePlace
  <2>5. IdleMeansQuiet'
    BY <1>5, <2>1 DEF IdleMeansQuiet
  <2>6. PendingCounts'
    BY <1>1, <1>3, <2>1 DEF PendingCounts
  <2>7. ReportedAfterWrite' /\ FlushCovers' /\ CloseLosesNothing'
    BY <2>1 DEF ReportedAfterWrite, FlushCovers, CloseLosesNothing
  <2>8. Ordered' /\ Phases'
    BY <2>1 DEF Ordered, Phases, Settled
  <2> QED
    BY <2>3, <2>4, <2>5, <2>6, <2>7, <2>8
<1>6. CASE queue = {} /\ DrainEnds
  <2>1. /\ taken' = {} /\ left' = {} /\ queue' = {} /\ phase' = "idle" /\ current' = current
        /\ waiting' = 0 /\ flushed' = (IF waiting = 0 THEN flushed ELSE waiting)
        /\ listening' = FALSE
    BY <1>6 DEF DrainEnds, FlushersResolve
  <2>2. Settled' = 1..accepted
    BY <1>2, <1>6
  <2>3. flushed' \in 0..accepted
    BY <2>1 DEF TypeOK
  <2>4. TypeOK'
    <3>1. disk' \subseteq 1..accepted /\ lost' \subseteq 1..accepted /\ reported' \subseteq 1..accepted
      BY <1>4 DEF Settled
    <3>2. waiting' \in 0..accepted
      BY <1>1, <2>1
    <3>3. pendingBytes' \in Nat
      BY <1>1
    <3>4. listening' \in BOOLEAN
      BY <2>1
    <3> QED
      BY <2>1, <2>3, <3>1, <3>2, <3>3, <3>4 DEF TypeOK
  <2>5. EachByteInOnePlace' /\ IdleMeansQuiet'
    BY <1>3, <1>6, <2>1, <2>2 DEF EachByteInOnePlace, IdleMeansQuiet
  <2>6. PendingCounts'
    BY <1>3, <1>6, <2>1 DEF PendingCounts
  <2>7. ReportedAfterWrite' /\ FlushCovers' /\ CloseLosesNothing'
    BY <1>1, <2>2, <2>3 DEF ReportedAfterWrite, FlushCovers, CloseLosesNothing
  <2>8. Ordered' /\ Phases'
    BY <2>1 DEF Ordered, Phases
  <2> QED
    BY <2>4, <2>5, <2>6, <2>7, <2>8
<1> QED
  BY <1>5, <1>6 DEF NextBatch

LEMMA StartDrainIInv ==
  ASSUME IInv, StartDrain
  PROVE  IInv'
<1>1. /\ UNCHANGED <<syncMode, accepted, path, entry, pendingBytes, closing, disk, lost, reported>>
      /\ drained' = TRUE /\ phase = "scheduled" /\ NextBatch
  BY DEF StartDrain, input, files
<1>2. taken = {} /\ left = {} /\ ~syncMode /\ closing # "settled"
  BY <1>1 DEF IInv, Phases, IdleMeansQuiet
<1>3. pendingBytes' = Cardinality(queue)
  <2>1. queue \in SUBSET (1..accepted) /\ accepted \in Nat
    BY QueueAssumption DEF IInv, TypeOK
  <2>2. Cardinality(queue) \in Nat /\ Cardinality(taken) = 0
    BY <1>2, <2>1, SizeOf, FS_EmptySet
  <2> QED
    BY <1>1, <2>2 DEF IInv, PendingCounts
<1>4. Settled' = Settled \cup left /\ disk' \cap lost' = {} /\ reported' \subseteq Settled'
  BY <1>1, <1>2 DEF IInv, Settled, EachByteInOnePlace, ReportedAfterWrite
<1> QED
  BY <1>1, <1>2, <1>3, <1>4, NextBatchIInv

-----------------------------------------------------------------------------
(* Appends of a drain *)

LEMMA ChunkIInv ==
  ASSUME IInv, NEW w \in SUBSET left, ChunkWritten(w)
  PROVE  IInv'
<1> DEFINE group == Group(left, current)
           dealt == IF w = Chunk(group) THEN w ELSE group
<1> USE DEF IInv
<1>1. /\ phase = "draining" /\ closing # "settled" /\ ~syncMode
      /\ disk' = disk \cup w /\ lost' = lost \cup (dealt \ w)
      /\ UNCHANGED <<syncMode, accepted, path, entry, drained, closing>>
  BY DEF ChunkWritten, input, Phases
<1>2. w \subseteq dealt /\ dealt \subseteq group /\ group \subseteq left
  <2>1. Chunk(group) \subseteq group
    BY DEF Chunk
  <2>2. w \subseteq Chunk(group)
    BY DEF ChunkWritten, Starts
  <2> QED
    BY <2>1, <2>2 DEF Group
<1>3. /\ left \in SUBSET (1..accepted) /\ taken \in SUBSET (1..accepted)
      /\ queue \in SUBSET (1..accepted)
      /\ accepted \in Nat /\ accepted <= MaxBytes
  BY QueueAssumption DEF TypeOK
<1>4. /\ left \subseteq Bytes
      /\ Cardinality(queue) \in Nat /\ Cardinality(taken) \in Nat
  <2>1. left \subseteq Bytes
    BY <1>3, QueueAssumption DEF Bytes
  <2> QED
    BY <1>3, <2>1, SizeOf
<1>5. /\ queue \cup left \cup Settled = 1..accepted
      /\ queue \cap left = {} /\ (queue \cup left) \cap Settled = {}
      /\ disk \cap lost = {}
  BY DEF EachByteInOnePlace
<1>6. \A b \in w, c \in left \ dealt : path[b] = path[c] => b < c
  <2> SUFFICES ASSUME NEW b \in w, NEW c \in left, c \notin dealt, path[b] = path[c]
               PROVE  b < c
    OBVIOUS
  <2>1. b \in group /\ path[b] = current
    BY <1>2 DEF Group
  <2>2. c \in group
    BY <2>1 DEF Group
  <2>3. w = Chunk(group)
    BY <2>2
  <2>4. group \in SUBSET (1..accepted)
    BY <1>2, <1>3
  <2> HIDE DEF group
  <2> QED
    BY <1>3, <2>2, <2>3, <2>4, ChunkFirst
<1>7. ChunkWritten(w) =>
         \/ /\ dealt # group
            /\ left' = left \ dealt
            /\ UNCHANGED <<queue, pendingBytes, phase, taken, current, reported,
                           waiting, flushed, listening>>
         \/ /\ dealt = group /\ left # group
            /\ left' = left \ dealt
            /\ current' = path[First(left \ dealt)]
            /\ reported' = reported \cup Finished
            /\ UNCHANGED <<queue, pendingBytes, phase, taken, waiting, flushed, listening>>
         \/ /\ dealt = group /\ left = group
            /\ reported' = reported \cup Finished
            /\ pendingBytes' = Credited
            /\ NextBatch
  BY DEF ChunkWritten
<1> HIDE DEF dealt
<1>8. /\ Settled' = Settled \cup dealt
      /\ disk' \cap lost' = {}
  BY <1>1, <1>2, <1>5 DEF Settled
<1>9. Finished \subseteq Settled \cup group
  <2> SUFFICES ASSUME NEW b \in taken, path[b] = current PROVE b \in Settled \cup group
    BY DEF Finished, Group
  <2>1. b \in left \cup Settled
    BY <1>3, <1>5 DEF Phases
  <2> QED
    BY <2>1 DEF Group
<1>10. CASE /\ left' = left \ dealt
            /\ left' # {} /\ current' \in Paths
            /\ reported' \subseteq Settled'
            /\ UNCHANGED <<queue, pendingBytes, phase, taken, waiting, flushed, listening>>
  <2>1. TypeOK'
    <3>1. dealt \subseteq 1..accepted
      BY <1>2, <1>3
    <3>2. Settled' \subseteq 1..accepted
      BY <1>5, <1>8, <3>1
    <3> QED
      BY <1>1, <1>10, <3>2 DEF TypeOK, Settled
  <2>2. EachByteInOnePlace'
    BY <1>1, <1>2, <1>5, <1>8, <1>10 DEF EachByteInOnePlace
  <2>3. IdleMeansQuiet' /\ PendingCounts'
    BY <1>1, <1>10 DEF IdleMeansQuiet, PendingCounts
  <2>4. ReportedAfterWrite' /\ FlushCovers' /\ CloseLosesNothing'
    BY <1>1, <1>8, <1>10 DEF ReportedAfterWrite, FlushCovers, CloseLosesNothing
  <2>5. Ordered'
    <3>1. \A b \in left' \cup Settled', c \in queue' : b < c
      BY <1>2, <1>8, <1>10 DEF Ordered
    <3>2. \A b \in disk', c \in left' : path[b] = path[c] => b < c
      BY <1>1, <1>6, <1>10 DEF Ordered
    <3> QED
      BY <1>1, <3>1, <3>2 DEF Ordered
  <2>6. Phases'
    BY <1>1, <1>10 DEF Phases
  <2> QED
    BY <2>1, <2>2, <2>3, <2>4, <2>5, <2>6
<1>11. CASE /\ dealt # group
            /\ left' = left \ dealt
            /\ UNCHANGED <<queue, pendingBytes, phase, taken, current, reported,
                           waiting, flushed, listening>>
  <2>1. left' # {} /\ current' \in Paths /\ reported' \subseteq Settled'
    BY <1>2, <1>8, <1>11 DEF TypeOK, ReportedAfterWrite
  <2> HIDE DEF group
  <2> QED
    BY <1>10, <1>11, <2>1
<1>12. CASE /\ dealt = group /\ left # group
            /\ left' = left \ dealt
            /\ current' = path[First(left \ dealt)]
            /\ reported' = reported \cup Finished
            /\ UNCHANGED <<queue, pendingBytes, phase, taken, waiting, flushed, listening>>
  <2> HIDE DEF group
  <2>1. left \ dealt # {} /\ left \ dealt \in SUBSET Bytes
    BY <1>2, <1>4, <1>12
  <2>2. First(left \ dealt) \in Bytes
    BY <2>1, FirstByte
  <2>3. current' \in Paths
    BY <1>12, <2>2 DEF TypeOK
  <2>4. reported' \subseteq Settled'
    BY <1>8, <1>9, <1>12 DEF ReportedAfterWrite
  <2> QED
    BY <1>10, <1>12, <2>1, <2>3, <2>4
<1>13. CASE /\ dealt = group /\ left = group
            /\ reported' = reported \cup Finished
            /\ pendingBytes' = Credited
            /\ NextBatch
  <2> HIDE DEF group
  <2>1. pendingBytes' = Cardinality(queue)
    BY <1>4, <1>13 DEF PendingCounts, Credited
  <2>2. drained'
    BY <1>1 DEF Phases, TypeOK
  <2>3. reported \subseteq reported' /\ reported' \subseteq Settled'
    BY <1>8, <1>9, <1>13 DEF ReportedAfterWrite
  <2>4. Settled' = Settled \cup left /\ disk \subseteq disk' /\ disk' \subseteq disk \cup left
    BY <1>1, <1>8, <1>13
  <2> QED
    BY <1>1, <1>8, <1>13, <2>1, <2>2, <2>3, <2>4, NextBatchIInv
<1> QED
  BY <1>7, <1>11, <1>12, <1>13

-----------------------------------------------------------------------------
(* Closing *)

LEMMA SyncDrainIInv ==
  ASSUME IInv, SyncDrain, phase # "draining",
         UNCHANGED <<input, phase, drained, batch, listening>>,
         closing' = "closed"
  PROVE  IInv'
<1> USE DEF IInv
<1>1. /\ queue' = {} /\ pendingBytes' = 0 /\ taken' = {} /\ left' = {}
      /\ left = {} /\ taken = {}
      /\ waiting' = 0 /\ flushed' = (IF waiting = 0 THEN flushed ELSE waiting)
      /\ UNCHANGED <<syncMode, accepted, path, entry, phase, drained, current, listening>>
  BY DEF SyncDrain, FlushersResolve, Phases, IdleMeansQuiet, input, batch
<1>2. PICK w \in EntryStarts(queue) :
             /\ disk' = disk \cup w
             /\ lost' = lost \cup (queue \ w)
             /\ reported' = reported \cup Complete(queue, w)
  BY DEF SyncDrain
<1>3. w \subseteq queue /\ Complete(queue, w) \subseteq queue
  BY DEF EntryStarts, Complete
<1>4. /\ queue \cup Settled = 1..accepted /\ queue \cap Settled = {} /\ disk \cap lost = {}
  BY <1>1 DEF EachByteInOnePlace
<1>5. Settled' = 1..accepted /\ disk' \cap lost' = {}
  BY <1>2, <1>3, <1>4 DEF Settled
<1>6. accepted \in Nat /\ Cardinality({}) = 0 /\ flushed' \in 0..accepted
  BY <1>1, FS_EmptySet, QueueAssumption DEF TypeOK
<1>7. reported' \subseteq Settled'
  BY <1>2, <1>3, <1>4, <1>5 DEF ReportedAfterWrite
<1>8. TypeOK'
  <2>1. disk' \subseteq 1..accepted /\ lost' \subseteq 1..accepted /\ reported' \subseteq 1..accepted
    BY <1>5, <1>7 DEF Settled
  <2>2. waiting' \in 0..accepted /\ pendingBytes' \in Nat
    BY <1>1, <1>6
  <2> QED
    BY <1>1, <1>6, <2>1, <2>2 DEF TypeOK
<1>9. EachByteInOnePlace' /\ IdleMeansQuiet'
  BY <1>1, <1>5 DEF EachByteInOnePlace, IdleMeansQuiet
<1>10. PendingCounts'
  BY <1>1, <1>6 DEF PendingCounts
<1>11. ReportedAfterWrite' /\ FlushCovers' /\ CloseLosesNothing'
  BY <1>1, <1>5, <1>6, <1>7 DEF ReportedAfterWrite, FlushCovers, CloseLosesNothing
<1>12. Ordered' /\ Phases'
  BY <1>1 DEF Ordered, Phases
<1> QED
  BY <1>8, <1>9, <1>10, <1>11, <1>12

LEMMA CloseIInv ==
  ASSUME IInv, CloseOnExit \/ CloseFresh
  PROVE  IInv'
<1>1. closing = "open" /\ UNCHANGED <<input, phase, drained, batch, listening>>
  BY DEF CloseOnExit, CloseFresh, Close
<1>2. CASE /\ drained
           /\ closing' = IF phase = "draining" THEN "running" ELSE "settled"
           /\ UNCHANGED <<queue, pendingBytes, files, reported, waiting, flushed>>
  <2>1. closing' \in {"running", "settled"} /\ (closing' = "settled" => phase = "idle")
    <3>1. phase # "scheduled"
      BY <1>2 DEF CloseOnExit, CloseFresh
    <3>2. phase \in {"idle", "draining"}
      BY <3>1 DEF IInv, TypeOK
    <3> QED
      BY <1>2, <3>2
  <2>2. UNCHANGED <<syncMode, accepted, path, entry, queue, pendingBytes, phase, drained,
                    taken, left, current, disk, lost, reported, waiting, flushed, listening>>
    BY <1>1, <1>2 DEF input, batch, files
  <2>3. Settled' = Settled
    BY <2>2 DEF Settled
  <2>4. TypeOK'
    BY <2>1, <2>2 DEF IInv, TypeOK
  <2>5. EachByteInOnePlace' /\ IdleMeansQuiet' /\ PendingCounts' /\ Ordered'
    BY <2>2, <2>3 DEF IInv, EachByteInOnePlace, IdleMeansQuiet, PendingCounts, Ordered
  <2>6. ReportedAfterWrite' /\ FlushCovers' /\ CloseLosesNothing' /\ Phases'
    BY <2>1, <2>2, <2>3 DEF IInv, ReportedAfterWrite, FlushCovers, CloseLosesNothing, Phases
  <2> QED
    BY <2>4, <2>5, <2>6 DEF IInv
<1>3. CASE ~drained /\ closing' = "closed" /\ SyncDrain
  <2>1. phase # "draining"
    BY <1>3 DEF IInv, Phases
  <2> QED
    BY <1>1, <1>3, <2>1, SyncDrainIInv
<1> QED
  BY <1>2, <1>3 DEF CloseOnExit, CloseFresh, Close

LEMMA CloseContinuesIInv ==
  ASSUME IInv, CloseContinues
  PROVE  IInv'
<1>1. /\ SyncDrain /\ closing' = "closed"
      /\ UNCHANGED <<input, phase, drained, batch, listening>>
  BY DEF CloseContinues
<1>2. phase # "draining"
  BY DEF CloseContinues, CloseMayGoOn, IInv, Phases
<1> QED
  BY <1>1, <1>2, SyncDrainIInv

-----------------------------------------------------------------------------
(* Theorems *)

LEMMA NextIInv ==
  ASSUME IInv, [Next]_vars
  PROVE  IInv'
<1>1. ASSUME NEW p \in Paths, NEW n \in Sizes, Append(p, n) PROVE IInv'
  BY <1>1, AppendIInv
<1>2. ASSUME NEW w \in SUBSET left, ChunkWritten(w) PROVE IInv'
  BY <1>2, ChunkIInv
<1>3. CASE Flush
  BY <1>3, FlushIInv
<1>4. CASE OnIdle \/ UNCHANGED vars
  BY <1>4, SameBytes
<1>5. CASE StartDrain
  BY <1>5, StartDrainIInv
<1>6. CASE CloseContinues
  BY <1>6, CloseContinuesIInv
<1>7. CASE CloseOnExit \/ CloseFresh
  BY <1>7, CloseIInv
<1> QED
  BY <1>1, <1>2, <1>3, <1>4, <1>5, <1>6, <1>7 DEF Next, Work

THEOREM IInvHolds == Spec => []IInv
BY InitIInv, NextIInv, PTL DEF Spec

\* Every variable keeps its type: batches and files hold accepted bytes only.
THEOREM TypeCorrect == Spec => []TypeOK
BY IInvHolds, PTL DEF IInv

\* No byte is dropped or written twice, whatever calls come during a drain
\* (lines 77, 124, 146-154, 102-108).
THEOREM EachByteInOnePlaceHolds == Spec => []EachByteInOnePlace
BY IInvHolds, PTL DEF IInv

\* What is queued has a drain coming, and an idle queue has no bytes to its
\* account (lines 41, 115-116, 164-168).
THEOREM IdleMeansQuietHolds == Spec => []IdleMeansQuiet
BY IInvHolds, PTL DEF IInv

\* The backlog counter never drifts (lines 78, 160-165).
THEOREM PendingCountsHolds == Spec => []PendingCounts
BY IInvHolds, PTL DEF IInv

\* onDone runs after its entry's fate is known (lines 108, 155-157).
THEOREM ReportedAfterWriteHolds == Spec => []ReportedAfterWrite
BY IInvHolds, PTL DEF IInv

\* A flush that resolved covers what was accepted before it (lines 82-88, 170).
THEOREM FlushCoversHolds == Spec => []FlushCovers
BY IInvHolds, PTL DEF IInv

\* A closed queue has nothing left to write (lines 92-97, 100).
THEOREM CloseLosesNothingHolds == Spec => []CloseLosesNothing
BY IInvHolds, PTL DEF IInv

\* A file holds its bytes in the order they were accepted: each step appends
\* later bytes of the file than those it holds (lines 62-71, 147-152).
THEOREM AppendsInOrderHolds == Spec => AppendsInOrder
<1> DEFINE Later == \A b \in disk, c \in disk' \ disk : path[b] = path'[c] => b < c
<1>1. ASSUME IInv, [Next]_vars PROVE [Later]_vars
  <2> SUFFICES ASSUME NEW b \in disk, NEW c \in disk', c \notin disk, path[b] = path'[c]
               PROVE  b < c
    OBVIOUS
  <2>1. /\ b \in Nat /\ b <= accepted /\ accepted \in Nat
        /\ \A d \in left : path[b] = path[d] => b < d
        /\ \A d \in queue : b < d
    BY <1>1, QueueAssumption DEF IInv, TypeOK, Ordered, Settled
  <2>2. ASSUME NEW p \in Paths, NEW n \in Sizes, Append(p, n) PROVE b < c
    <3>1. c \in (accepted + 1)..(accepted + n)
      BY <2>2 DEF Append, Starts, files
    <3> QED
      BY <2>1, <3>1, QueueAssumption
  <2>3. ASSUME NEW w \in SUBSET left, ChunkWritten(w) PROVE b < c
    BY <2>1, <2>3 DEF ChunkWritten, input
  <2>4. CASE SyncDrain
    BY <2>1, <2>4 DEF SyncDrain, EntryStarts
  <2>5. ~(disk' = disk)
    OBVIOUS
  <2> QED
    BY <1>1, <2>2, <2>3, <2>4, <2>5 DEF Next, Work, Flush, OnIdle, StartDrain,
         CloseOnExit, CloseFresh, Close, CloseContinues, vars, files
<1> QED
  BY <1>1, IInvHolds, PTL DEF Spec, AppendsInOrder

\* A flush() called later answers for more.
FlushesGrow == waiting # 0 => flushed <= waiting

LEMMA FlushesGrowHolds == Spec => []FlushesGrow
<1>1. Init => FlushesGrow
  BY DEF Init, FlushesGrow
<1>2. ASSUME TypeOK, TypeOK', FlushesGrow, [Next]_vars PROVE FlushesGrow'
  <2>1. waiting \in Nat /\ flushed \in Nat /\ flushed <= accepted
    BY <1>2 DEF TypeOK
  <2>2. CASE waiting' = waiting /\ flushed' = flushed
    BY <1>2, <2>2 DEF FlushesGrow
  <2>3. CASE waiting' = 0
    BY <2>3 DEF FlushesGrow
  <2>4. CASE waiting' = accepted /\ flushed' = flushed
    BY <2>1, <2>4 DEF FlushesGrow
  <2> QED
    BY <1>2, <2>2, <2>3, <2>4 DEF Next, Work, Append, Flush, OnIdle, StartDrain, ChunkWritten,
         NextBatch, TakeBatch, DrainEnds, SyncDrain, FlushersResolve,
         CloseOnExit, CloseFresh, Close, CloseContinues, vars
<1> QED
  BY <1>1, <1>2, TypeCorrect, PTL DEF Spec

\* What has been said of settled bytes stays said, and flushes answer for more.
LEMMA TellsMore ==
  ASSUME TypeOK, TypeOK', FlushesGrow, [Next]_vars
  PROVE  reported \subseteq reported' /\ flushed <= flushed'
<1>1. waiting \in Nat /\ flushed \in Nat
  BY DEF TypeOK
<1>2. flushed' = flushed \/ FlushersResolve
  BY DEF Next, Work, Append, Flush, OnIdle, StartDrain, ChunkWritten, NextBatch, TakeBatch,
     DrainEnds, SyncDrain, CloseOnExit, CloseFresh, Close, CloseContinues, vars
<1>3. flushed <= flushed'
  BY <1>1, <1>2 DEF FlushersResolve, FlushesGrow
<1>4. reported \subseteq reported'
  BY DEF Next, Work, Append, Flush, OnIdle, StartDrain, ChunkWritten, SyncDrain,
     CloseOnExit, CloseFresh, Close, CloseContinues, vars
<1> QED
  BY <1>3, <1>4

\* The queue implements the abstract log, step by step (lines 55-177).
THEOREM ImplementsLogHolds == Spec => ImplementsLog
<1>1. Init => Log!Init
  <2> SUFFICES ASSUME Init PROVE Log!Init
    OBVIOUS
  <2>1. AnyPath \in Paths
    BY QueueAssumption DEF AnyPath
  <2> QED
    BY <2>1 DEF Init, Log!Init, Bytes
<1>2. ASSUME IInv, IInv', FlushesGrow, [Next]_vars,
             [\A b \in disk, c \in disk' \ disk : path[b] = path'[c] => b < c]_vars
      PROVE  [Log!Next]_(Log!logVars)
  <2>1. CASE UNCHANGED vars
    BY <2>1 DEF vars, input, files, Log!logVars
  <2>2. CASE ~UNCHANGED vars
    <3>1. /\ accepted \in Nat /\ accepted' \in Nat /\ MaxBytes \in Nat
          /\ accepted <= MaxBytes /\ accepted' <= MaxBytes
          /\ path \in [Bytes -> Paths] /\ path' \in [Bytes -> Paths]
          /\ disk \subseteq 1..accepted
      BY <1>2, QueueAssumption DEF IInv, TypeOK
    <3>2. \/ accepted' = accepted /\ path' = path
          \/ \E p \in Paths, n \in Sizes : Append(p, n)
      BY <1>2, <2>2 DEF Next, Work, Flush, OnIdle, StartDrain, ChunkWritten,
           CloseOnExit, CloseFresh, Close, CloseContinues, input
    <3>3. Log!Accept /\ \A b \in 1..accepted : path'[b] = path[b]
      <4>1. CASE accepted' = accepted /\ path' = path
        BY <3>1, <4>1 DEF Log!Accept, Bytes
      <4>2. ASSUME NEW p \in Paths, NEW n \in Sizes, Append(p, n)
            PROVE  Log!Accept /\ \A b \in 1..accepted : path'[b] = path[b]
        <5>1. /\ n \in Nat /\ accepted' = accepted + n /\ closing = "open"
              /\ path' = [b \in Bytes |-> IF b \in (accepted + 1)..(accepted + n)
                                            THEN p ELSE path[b]]
          BY <4>2, QueueAssumption DEF Append
        <5>2. \A b \in 1..accepted' \ 1..accepted :
                 b \in Bytes /\ b \in (accepted + 1)..(accepted + n)
          BY <3>1, <5>1 DEF Bytes
        <5>3. \A b \in 1..accepted :
                 b \in Bytes /\ b \notin (accepted + 1)..(accepted + n)
          BY <3>1 DEF Bytes
        <5>4. \A b \in 1..accepted : path'[b] = path[b]
          BY <5>1, <5>3
        <5>5. \A b \in 1..accepted' \ 1..accepted : path'[b] = p
          BY <5>1, <5>2
        <5>6. accepted' \in accepted..MaxBytes
          BY <3>1, <5>1
        <5> QED
          BY <3>1, <5>1, <5>4, <5>5, <5>6 DEF Log!Accept, Bytes
      <4> QED
        BY <3>2, <4>1, <4>2
    <3>4. disk \subseteq disk' /\ lost \subseteq lost'
      <4>1. CASE SyncDrain
        BY <4>1 DEF SyncDrain
      <4>2. CASE UNCHANGED files
        BY <4>2 DEF files
      <4>3. ASSUME NEW p \in Paths, NEW n \in Sizes, Append(p, n)
            PROVE  disk \subseteq disk' /\ lost \subseteq lost'
        BY <4>3 DEF Append, files
      <4>4. ASSUME NEW w \in SUBSET left, ChunkWritten(w)
            PROVE  disk \subseteq disk' /\ lost \subseteq lost'
        BY <4>4 DEF ChunkWritten
      <4> QED
        BY <1>2, <2>2, <4>1, <4>2, <4>3, <4>4 DEF Next, Work, Flush, OnIdle, StartDrain,
             CloseOnExit, CloseFresh, Close, CloseContinues
    <3>5. Log!Settle
      <4>1. disk' \cup lost' \subseteq 1..accepted' /\ disk' \cap lost' = {}
        BY <1>2 DEF IInv, EachByteInOnePlace, Settled
      <4>2. \A b \in disk, c \in disk' \ disk : path'[b] = path'[c] => b < c
        BY <1>2, <2>2, <3>1, <3>3
      <4> QED
        BY <3>4, <4>1, <4>2 DEF Log!Settle, Log!Settled
    <3>6. Log!Close
      <4>1. closing = "closed" => closing' = "closed"
        BY <1>2, <2>2 DEF Next, Work, Append, Flush, OnIdle, StartDrain, ChunkWritten,
             CloseOnExit, CloseFresh, Close, CloseContinues, CloseMayGoOn
      <4>2. closing' = "closed" => 1..accepted' \ (disk' \cup lost') = {}
        BY <1>2 DEF IInv, CloseLosesNothing, Settled
      <4> QED
        BY <4>1, <4>2 DEF Log!Close, Log!Owed, Log!Settled
    <3>7. Log!Tell
      <4>1. /\ reported' \subseteq disk' \cup lost' /\ 1..flushed' \subseteq disk' \cup lost'
            /\ flushed \in Nat /\ flushed' \in 0..accepted'
        BY <1>2 DEF IInv, TypeOK, ReportedAfterWrite, FlushCovers, Settled
      <4>2. reported \subseteq reported' /\ flushed <= flushed'
        BY <1>2, TellsMore DEF IInv
      <4>3. flushed' \in flushed..accepted'
        BY <3>1, <4>1, <4>2
      <4> QED
        BY <4>1, <4>2, <4>3 DEF Log!Tell, Log!Settled
    <3> QED
      BY <3>3, <3>5, <3>6, <3>7 DEF Log!Next
  <2> QED
    BY <2>1, <2>2
<1> QED
  BY <1>1, <1>2, IInvHolds, FlushesGrowHolds, AppendsInOrderHolds, PTL
    DEF Spec, AppendsInOrder, ImplementsLog, Log!Spec

=============================================================================
