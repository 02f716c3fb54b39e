SPECIFICATION RaceSpec
CONSTANTS
  Pids = {p1, p2, p3}
  NoPid = NoPid
INVARIANTS
  OneWinner
CHECK_DEADLOCK FALSE
