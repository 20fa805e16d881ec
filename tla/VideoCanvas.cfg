SPECIFICATION Spec
CONSTANTS
  Sizes = {wide, tall}
  TooSmall = nothing
  Rates = {0, 15, 60}
  MaxChanges = 5
INVARIANT
  SettingsAgree
PROPERTY
  ChangesKeepTheRest
CHECK_DEADLOCK FALSE
