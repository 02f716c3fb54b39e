------------------------------ MODULE AppendLog ------------------------------
(***************************************************************************)
(* What the log writer promises its callers, whatever its queue, batches   *)
(* and chunks: a file is only ever appended to, in the order its bytes     *)
(* were accepted; a byte is settled once, written or lost; nobody is told  *)
(* that a byte is settled before it is; and a closed writer owes nothing.  *)
(***************************************************************************)
EXTENDS Naturals

CONSTANTS
  Paths,     \* the files
  MaxBytes   \* bound: bytes accepted in one behaviour

VARIABLES
  accepted,  \* how many bytes were accepted
  path,      \* the file of every byte
  disk,      \* bytes in their files
  lost,      \* bytes given up
  reported,  \* bytes whose callback has run
  flushed,   \* bytes that a resolved flush answers for: the first so many
  closed     \* nothing is accepted or written any more

logVars == <<accepted, path, disk, lost, reported, flushed, closed>>

Settled == disk \cup lost
Owed == 1..accepted \ Settled

Init ==
  /\ accepted = 0
  /\ path \in [1..MaxBytes -> Paths]
  /\ disk = {} /\ lost = {}
  /\ reported = {} /\ flushed = 0
  /\ closed = FALSE

\* More bytes for one file, unless the log is closed.
Accept ==
  /\ accepted' \in accepted..MaxBytes
  /\ path' \in [1..MaxBytes -> Paths]
  /\ \A b \in 1..accepted : path'[b] = path[b]
  /\ \A b, c \in 1..accepted' \ 1..accepted : path'[b] = path'[c]
  /\ closed => accepted' = accepted

\* Some of the bytes owed are appended, some are given up.
Settle ==
  /\ disk \subseteq disk' /\ lost \subseteq lost'
  /\ disk' \cap lost' = {}
  /\ Settled' \subseteq 1..accepted'
  /\ \A b \in disk, c \in disk' \ disk : path'[b] = path'[c] => b < c

\* Callbacks and flushes say what is true, and do not take it back.
Tell ==
  /\ reported \subseteq reported' /\ reported' \subseteq Settled'
  /\ flushed' \in flushed..accepted' /\ 1..flushed' \subseteq Settled'

Close == (closed => closed') /\ (closed' => Owed' = {})

\* One call may do all of it: a synchronous append accepts and settles.
Next == Accept /\ Settle /\ Tell /\ Close

Spec == Init /\ [][Next]_logVars
=============================================================================
