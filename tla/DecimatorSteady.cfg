\* One call at a time, real rates: the algorithm itself.
CONSTANTS
  VideoRates <- UsualRates
  Targets <- UsualTargets
  Overlap = FALSE
SPECIFICATION Spec
INVARIANT
  RateKept
  RateHonoured
