SPECIFICATION Spec
CONSTANTS
  FRAME_SIZE <- MCFrameSize
  BYTE_BITS <- MCByteBits
  BootInfos <- MCBootInfos
INVARIANT ModuleKept
CHECK_DEADLOCK FALSE
