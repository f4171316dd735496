SPECIFICATION Spec
CONSTANTS
  HEADER_SIZE <- MCHeaderSize
  HEAP_INITIAL_SIZE <- MCHeapSize
  Requests <- MCRequests
INVARIANTS Tiled Coalesced FreedIsFresh
PROPERTY Implements
