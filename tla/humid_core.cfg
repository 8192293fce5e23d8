SPECIFICATION Spec
CONSTANTS
  MaxSilent = 2
  MaxFailed = 3
  HeatAfter = 0
  HeatFor = 1
  Values = {1, 2}
  MaxEvents = 2
INVARIANTS
  HeaterKnown
PROPERTIES
  WatchSpec
  Present
  HeaterOff
  Obeyed
CHECK_DEADLOCK FALSE
