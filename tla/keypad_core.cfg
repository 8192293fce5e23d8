SPECIFICATION Spec
CONSTANTS
  Keys = {"left", "right", "up"}
  QueueLen = 1
  LongPress = 1
  BlockTime = 2
  MaxDigit = 1
  user_password <- MCPassword
  MaxValue = 1
INVARIANTS
  Locked
PROPERTIES
  EditorSpec
  Home
  Responds
