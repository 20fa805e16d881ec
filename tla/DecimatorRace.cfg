\* The three threads at once.
CONSTANTS
  VideoRates <- RaceRates
  Targets <- RaceTargets
  Overlap = TRUE
SPECIFICATION Spec
INVARIANTS
  BlackoutIsTransient
  ZeroDivisorNeedsStore
  LastRequestWins
