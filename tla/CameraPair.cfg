\* Two cameras, every fault, removal and teardown, a host that may fall silent.
CONSTANTS
  c1 = c1
  c2 = c2
  Cameras = {c1, c2}
  MaxFrame = 2
  OneFrame = {c2}
  HostMayFail = TRUE
  HostInOrder = FALSE
  WithRemoval = TRUE
  WithUninit = TRUE
SPECIFICATION Spec
INVARIANTS
  LostWakeupsAreStolen
  StalePictureWasMissed
  BorrowedPictureAlive
  LateFramesOnly
PROPERTY
  ImplementsRelay
CHECK_DEADLOCK FALSE
