---------------------------- MODULE MCChatQueue ----------------------------
(***************************************************************************)
(* ChatQueue for TLC: one project with one pinned instance, and the three  *)
(* kinds of anchor that _targetGone and _matchesScope tell apart: none, a  *)
(* project, and the strict instance anchor of a scheduled task.            *)
(***************************************************************************)
EXTENDS ChatQueue

CONSTANTS A, i1

MCAnchors ==
  {NoAnchor,
   [scope |-> [project |-> A, sessionId |-> None, instanceKey |-> None], strict |-> FALSE],
   [scope |-> [project |-> A, sessionId |-> None, instanceKey |-> i1], strict |-> TRUE]}
=============================================================================
