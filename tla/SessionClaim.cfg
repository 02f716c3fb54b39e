SPECIFICATION FairSpec
CONSTANTS
  Pids = {p1, p2, p3}
  NoPid = NoPid
INVARIANTS
  TypeOK
  OneOwnerUnlessStolen
  OwnerIsVisible
PROPERTIES
  ClearCallWins
  CallsAreShort
  CallsReturn
CHECK_DEADLOCK FALSE
