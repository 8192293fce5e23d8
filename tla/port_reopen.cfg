SPECIFICATION FairSpec
CONSTANTS
  Requests = {"ol", "bw"}
  Garbage = {"gz", "go"}
  None = None
  Fn <- MCFn
  Dest <- MCDest
  ByteCount <- MCByteCount
  Scan <- MCScan
  BaudWrites <- MCBaud
  USART_REC_LEN = 12
  RX_TIMEOUT = 2
  RECEIVE_DELAY = 1
  ReplyLen = 2
  MaxLost = 1
  MenuChanges = 1
  Interruptible = FALSE
INVARIANTS
  LineReleased
  NotDeaf
PROPERTIES
  Released
  Cleared
