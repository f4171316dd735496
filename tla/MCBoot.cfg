SPECIFICATION Spec
CONSTANTS
  PS2_TIMEOUT = 2
  STALE = 1
  MaxKeys = 2
  MaxMoves = 2
INVARIANTS EarlySafe MouseEnabled TypedRight
PROPERTIES BytesRead BootReturns
