SPECIFICATION FairSpec
CONSTANTS
  A = A
  i1 = i1
  None = None
  Projects = {A}
  Sessions = {}
  Instances = {i1}
  Anchors <- MCAnchors
  MaxItems = 2
  MaxTicks = 1
  MaxMessages = 2
  MaxResumes = 1
  MaxGen = 1
  MaxStops = 0
INVARIANTS
  SingleFlight
  InjectingHasWriter
PROPERTIES
  DispatchOnlyAdvances
  DispatchEnds
  QueueNeverWedges
CHECK_DEADLOCK FALSE
