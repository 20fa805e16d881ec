SPECIFICATION Spec
CONSTANTS
  MaxRequests = 3
  MaxId = 4
  Projects <- MCProjects
  Absent = Absent
  None = None
INVARIANTS
  HostHearsOfStart
  ProjectIsKept
PROPERTY
  PullsAnswered
CHECK_DEADLOCK FALSE
