SPECIFICATION Spec
CONSTANTS
  Orders = {0, 2, 4}
  MaxTime = 2
  MaxDelay = 2
INVARIANTS
  ManualKept
PROPERTIES
  BeeperSpec
  Follows
