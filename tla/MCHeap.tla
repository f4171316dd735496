-------------------------------- MODULE MCHeap --------------------------------
(***************************************************************************)
(* A heap of a few blocks: the real 8-byte alignment with the header       *)
(* scaled to 16 bytes, and requests on both sides of an alignment boundary,*)
(* of the split threshold (an exact fit, one short of a split, a split)    *)
(* and of the whole heap.                                                  *)
(***************************************************************************)
EXTENDS Heap

MCHeaderSize == 16
MCHeapSize == 144
MCRequests == {0, 1, 8, 9, 24, 128, 129}
=============================================================================
