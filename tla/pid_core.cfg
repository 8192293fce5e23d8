SPECIFICATION Spec
CONSTANTS
  Gain = 2
  OutMax = 6
  AreaMax = 4
  ResetTime = 2
  RateTime = 1
  Sample = 2
  MaxSample = 7
  WordMax = 90
  Scale = 2
  MaxErr = 7
  Inputs = {0, 5}
  Settings <- MCSettings
  Values = {0, 3}
  MaxEvents = 3
INVARIANTS
  AreaBounded
  Kept
  ManualHolds
PROPERTIES
  Unwinds
