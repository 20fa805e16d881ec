\* Two threads signal a device with two filters; the host sets two volumes.
SPECIFICATION AudioSpec
CONSTANTS
  Kinds = {gain, denoise}
  Levels = {low, high}
  Default = low
  Off = off
  None = None
  Signallers = {graphics, plugin}
  MaxFilters = 3
  MaxEdits = 2
  MaxTurns = 2
  Media = {media}
  Volumes = {53}
  Unknown = None
  MaxSets = 2
INVARIANTS
  OneFilterEach
  LevelsAgree
  UsedInTurn
  VolumesAgree
CHECK_DEADLOCK FALSE
