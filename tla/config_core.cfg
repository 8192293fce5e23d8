SPECIFICATION FairSpec
CONSTANTS
  NumOctets = 2
  Tested = {1}
  Values = {0, 1, 255}
  Default <- MCDefault
  Factory <- MCFactory
  Turns = 2
  MaxChanges = 3
  MaxFailures = 1
INVARIANTS
  LiveIsStored
PROPERTIES
  OfferSpec
  Restarted
  Agreed
CHECK_DEADLOCK FALSE
