SPECIFICATION Spec
CONSTANTS
  FRAME_SIZE <- MCFrameSize
  BYTE_BITS <- MCByteBits
  BootInfos <- MCBootInfos
INVARIANTS BitmapClear BitmapExact CountExact HeldMarked
CHECK_DEADLOCK FALSE
