CONSTANTS
  MaxReqs = 3
  MaxFaults = 0
  Threshold = 1
  HeldMax = 0
  LateMax = 1
SPECIFICATION CalmSpec
INVARIANTS
  ShardsHoldWholeTurns
CHECK_DEADLOCK FALSE
