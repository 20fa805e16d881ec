\* One camera over more frames, and a host that answers everything in order.
CONSTANTS
  c1 = c1
  Cameras = {c1}
  MaxFrame = 4
  OneFrame = {}
  HostMayFail = FALSE
  HostInOrder = TRUE
  WithRemoval = TRUE
  WithUninit = TRUE
SPECIFICATION FairHostSpec
INVARIANTS
  PicturesInStep
PROPERTIES
  ImplementsFairRelay
CHECK_DEADLOCK FALSE
