SPECIFICATION Spec
CONSTANTS
  Disks <- MCDisks
  Names <- MCNames
  HELLO <- MCHello
  SECTOR = 2
  PER_FAT = 2
  BASE = 2
  EOC = 14
  MASK = 16
  LBA_RANGE = 64
  SIZE_RANGE = 32
  HEAP_MAX = 8
  DIR_GUARD = 3
  FILE_GUARD = 3
  MaxFaults = 2
INVARIANT Buffers
PROPERTIES FindsFirst ReadRight PromptReturns
