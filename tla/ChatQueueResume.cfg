SPECIFICATION FairSpec
CONSTANTS
  A = A
  i1 = i1
  None = None
  Projects = {A}
  Sessions = {}
  Instances = {i1}
  Anchors <- MCAnchors
  MaxItems = 1
  MaxTicks = 1
  MaxMessages = 1
  MaxResumes = 1
  MaxGen = 1
  MaxStops = 0
PROPERTIES
  ResumeSettles
CHECK_DEADLOCK FALSE
