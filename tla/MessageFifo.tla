----------------------------- MODULE MessageFifo -----------------------------
(***************************************************************************)
(* What the chat queue promises those who look at it: messages wait in the *)
(* order they were accepted, up to a cap; what leaves does so for good and *)
(* for one reason; and a message is sent in its turn, unless somebody      *)
(* picked it to be sent now.                                               *)
(***************************************************************************)
EXTENDS Integers, Sequences, SequencesExt

CONSTANTS
  Ids,        \* messages, numbered in the order they are accepted
  MaxItems    \* how many may wait

VARIABLES
  waiting,    \* the messages that wait, first to be sent first
  fate,       \* what became of every message
  picked      \* messages that are being sent because somebody said so

fifoVars == <<waiting, fate, picked>>

Reasons == {"sent", "removed", "cleared", "rejected"}

Init ==
  /\ waiting = <<>>
  /\ fate = [m \in Ids |-> "new"]
  /\ picked = {}

Accept(m) ==
  /\ fate[m] = "new" /\ \A n \in Ids : n < m => fate[n] # "new"
  /\ Len(waiting) < MaxItems
  /\ waiting' = Append(waiting, m)
  /\ fate' = [fate EXCEPT ![m] = "held"]
  /\ UNCHANGED picked

\* Queue r is queue q without some of its messages.
Thinned(q, r) ==
  /\ ToSet(r) \subseteq ToSet(q)
  /\ \A j, k \in DOMAIN r : j < k =>
       \E a, b \in DOMAIN q : a < b /\ q[a] = r[j] /\ q[b] = r[k]

\* A message may turn out to have been sent when it was cleared in the act.
SentAfterAll(m) == fate[m] = "cleared" /\ fate'[m] = "sent"

InTurn(m) == waiting # <<>> /\ Head(waiting) = m

\* Some messages leave, none or all of them.
Leave ==
  LET gone == ToSet(waiting) \ ToSet(waiting') IN
  /\ Thinned(waiting, waiting')
  /\ fate' \in [Ids -> Reasons \cup {"new", "held"}]
  /\ \A m \in Ids :
       IF m \in gone
       THEN fate'[m] \in Reasons /\ (fate'[m] = "sent" => InTurn(m) \/ m \in picked)
       ELSE fate'[m] = fate[m] \/ SentAfterAll(m)
  /\ picked' \subseteq picked \cup ToSet(waiting)

Next == Leave \/ \E m \in Ids : Accept(m)

Spec == Init /\ [][Next]_fifoVars
=============================================================================
