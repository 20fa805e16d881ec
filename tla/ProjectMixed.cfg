\* Three threads save at once and nothing fails.
CONSTANTS
  Absent = Absent
  Torn = Torn
  MaxEdits = 3
  MayFail = FALSE
SPECIFICATION Spec
INVARIANT
  BackupSurvives
