CONSTANTS
  MaxReqs = 3
  MaxFaults = 2
  Threshold = 1
  HeldMax = 2
  LateMax = 1
SPECIFICATION Spec
INVARIANTS
  TypeOK
  NumbersInArrivalOrder
  LinesStayTogether
  CursorFindsShard
  CountCoversOpen
  ArmedCutIsComing
CHECK_DEADLOCK FALSE
