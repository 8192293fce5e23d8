SPECIFICATION FairSpec
CONSTANTS
  Requests = {"rd", "nm"}
  Garbage = {"gm", "go"}
  None = None
  Fn <- MCFn
  Dest <- MCDest
  ByteCount <- MCByteCount
  Scan <- MCScan
  BaudWrites <- MCBaud
  USART_REC_LEN = 13
  RX_TIMEOUT = 2
  RECEIVE_DELAY = 1
  ReplyLen = 2
  MaxLost = 1
  MenuChanges = 0
  Interruptible = FALSE
INVARIANTS
  AtMostOnce
  DriverHeld
  ReplyFromStart
  PacketStopsTimeout
PROPERTIES
  SlaveSpec
