SPECIFICATION Spec
CONSTANTS
  Uplink <- MCUplink
  Downlink <- MCDownlink
  Trailing <- MCTrailing
  BufSize = 37
  MaxDone = 2
INVARIANTS
  TypeOK
  UpIntact
  DownIntact
  FreeIsIdle
  AnswerSeen
CHECK_DEADLOCK FALSE
