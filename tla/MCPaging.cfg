SPECIFICATION Spec
CONSTANTS
  SLOTS = 4
  PAGE_SIZE = 2
  TotalFrames = 35
  Memories <- MCMemories
  LowBytes <- MCLowBytes
  Spare <- MCSpare
  KernelFrames <- MCKernel
  IdentityFrames = 32
  HHDM_OFFSET = 128
  KERNEL_VIRT_BASE = 240
  HEAP_START = 192
  USER_STACK_VADDR = 48
  HeapPages = 2
  FrameBuffer <- MCFrameBuffer
  BackFrames = 2
  Images <- MCImages
  Ranges <- MCRanges
  WRITE_MAX = 5
  WRITE_CHUNK = 2
  MaxRuns = 4
INVARIANTS FramesAccounted KernelVisible ImageLoaded RangeExact WriteWhole
