SPECIFICATION Spec
CONSTANTS
  Requests = {"sr", "bc", "nm"}
  Garbage = {"gm", "go"}
  None = None
  Fn <- MCFn
  Dest <- MCDest
  ByteCount <- MCByteCount
  Scan <- MCScan
  BaudWrites <- MCBaud
  USART_REC_LEN = 13
  RX_TIMEOUT = 2
  RECEIVE_DELAY = 1
  ReplyLen = 2
  MaxLost = 0
  MenuChanges = 0
  Interruptible = TRUE
INVARIANTS
  CompleteIsWhole
