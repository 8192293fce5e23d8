SPECIFICATION FairSpec
CONSTANTS
  n1 = n1
  n2 = n2
  Names <- MCNames
  Default = Default
  Erased = Erased
  Zero = Zero
  None = None
  NumRows = 2
  MaxChanges = 3
  MaxRestarts = 1
INVARIANTS
  WholeTables
  StoredWhenClean
PROPERTIES
  EventuallyStored
  DurableSpec
