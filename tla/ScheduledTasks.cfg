CONSTANTS
  Procs = {p, q}
  Occurs = {1, 3}
  Jitter = 0
  Window = 1
  Stale = 1
  MaxTime = 3
  MaxRuns = 2
  MaxCalls = 1
  MaxFails = 1
SYMMETRY ProcSymmetry
SPECIFICATION Spec
INVARIANTS
  NoTimeTakenTwice
  HistoryAgrees
  OverlapOnlyWhenOverdue
CHECK_DEADLOCK FALSE
