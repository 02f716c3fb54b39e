SPECIFICATION Spec
CONSTANTS
  A = A
  i1 = i1
  None = None
  Projects = {A}
  Sessions = {}
  Instances = {i1}
  Anchors <- MCAnchors
  MaxItems = 2
  MaxTicks = 1
  MaxMessages = 3
  MaxResumes = 1
  MaxGen = 1
  MaxStops = 1
INVARIANTS
  TypeOK
  EachMessageInOnePlace
  DispatchHasOneOwner
  CompletionsMatchDispatch
  NoSecondPaste
PROPERTIES
  ImplementsFifo
  ParkedMeansNoDrain
CHECK_DEADLOCK FALSE
