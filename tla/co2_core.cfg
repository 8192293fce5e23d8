SPECIFICATION Spec
CONSTANTS
  Kinds = {"ogm", "temco"}
  AnswerLen = 3
  BufLen = 4
  ExistCtr = 1
  MaxSilent = 1
  Addresses = {0, 1}
  MaxFaults = 1
  MaxLate = 1
  MaxChanges = 1
INVARIANTS
  Whole
  Fresh
  Counted
PROPERTIES
  WatchSpec
  Detected
  BufferReadsOn
