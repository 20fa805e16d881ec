\* Two items under the mouse, with requests beside it; a phone that is turned.
SPECIFICATION PlacementSpec
CONSTANTS
  Items = {1, 2}
  Width = 4
  Size = 2
  SnapDist = 2
  MaxPresses = 2
  MaxRequests = 1
  None = None
  CanvasCX = 4
  CanvasCY = 2
  PhoneCX = 1
  PhoneCY = 2
  Places <- MCPlaces
INVARIANTS
  PlacementTypes
  NothingIsLeft
  OneSelected
  NewItemIsNew
  FitsCanvas
PROPERTIES
  DragsMoveWhatTheyHold
  TurnKeepsItem
