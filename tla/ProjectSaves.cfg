\* Three threads save, at once or in turn; calls fail, the process ends anywhere.
CONSTANTS
  Absent = Absent
  Torn = Torn
  MaxEdits = 3
  MayFail = TRUE
SPECIFICATION Spec
INVARIANT
  DamageNeedsMixedWrites
PROPERTY
  ImplementsProject
