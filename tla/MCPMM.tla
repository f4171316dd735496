-------------------------------- MODULE MCPMM --------------------------------
(***************************************************************************)
(* A small machine for PMM: 7 frames of 2 bytes, 4 bits per bitmap byte, a *)
(* memory map with a hole and an end of memory that is not frame-aligned,  *)
(* the kernel at bytes 4 and 5, and the mb2 information and a module (or   *)
(* none) below it, where the bitmap would go, or above, in either order.   *)
(***************************************************************************)
EXTENDS PMM

MCFrameSize == 2
MCByteBits == 4

Ranges == {<<1, 3>>, <<6, 8>>, <<8, 9>>, <<10, 12>>}
Candidates ==
  [ram : {{<<0, 3>>, <<4, 15>>}}, kernel_end : {5},
   mb2 : Ranges, module : Ranges \cup {<<0, 0>>}]
MCBootInfos ==
  {b \in Candidates :
     /\ IsBootInfo(b)
     /\ ~Overlap(b.mb2, b.module)
     /\ \A r \in {b.mb2, b.module} : ~Overlap(r, <<4, b.kernel_end>>)}
=============================================================================
