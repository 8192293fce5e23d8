SPECIFICATION Spec
CONSTANTS
  Kinds = {"ogm"}
  AnswerLen = 4
  BufLen = 6
  ExistCtr = 1
  MaxSilent = 1
  Addresses = {0}
  MaxFaults = 1
  MaxLate = 0
  MaxChanges = 0
PROPERTIES
  ReadsOn
