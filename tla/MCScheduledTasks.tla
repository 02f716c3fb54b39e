--------------------------- MODULE MCScheduledTasks ---------------------------
(* ScheduledTasks for TLC: the processes are interchangeable. *)
EXTENDS ScheduledTasks, TLC

ProcSymmetry == Permutations(Procs)
=============================================================================
