SPECIFICATION Spec
CONSTANTS
  ATA_TIMEOUT = 2
  Kinds <- MCKinds
  Sectors = 4
  MaxLba = 4
  MaxCount = 3
  PER_COMMAND = 2
  New = 9
  MaxCalls = 2
PROPERTY WriteCommitted
CHECK_DEADLOCK FALSE
