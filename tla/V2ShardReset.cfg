CONSTANTS
  MaxReqs = 3
  MaxFaults = 1
  Threshold = 1
  HeldMax = 0
  LateMax = 1
SPECIFICATION ResetSpec
INVARIANTS
  NumbersGivenOnce
CHECK_DEADLOCK FALSE
