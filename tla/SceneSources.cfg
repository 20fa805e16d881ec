SPECIFICATION Spec
CONSTANTS
  MaxItems = 2
  MaxEdits = 4
  Names = {n1, n2}
  None = None
SYMMETRY Symmetry
INVARIANTS
  ListIsScene
  DisplayDrawsLiveSource
  SavedIsScene
  HostKnowsNames
  EditsReachTheirItem
CHECK_DEADLOCK FALSE
