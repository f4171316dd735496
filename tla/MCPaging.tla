------------------------------ MODULE MCPaging ------------------------------
(***************************************************************************)
(* A machine of 35 frames with tables of four entries and pages of two     *)
(* bytes.  RAM does not end on a huge page, and video memory begins inside *)
(* the last huge page and ends behind it.  vmm_init takes eleven frames.   *)
(***************************************************************************)
EXTENDS Paging

Seg(va, file, memsz) == [vaddr |-> va, file |-> file, memsz |-> memsz]
Image(ok, entry, segs) == [ok |-> ok, entry |-> entry, segs |-> segs]

\* vmm_init's tables at the bottom, too little memory for them, and at the top.
MCMemories == {4..34, 4..13, 22..34}
\* The bytes at 0: in the first memory, all that is in use is marked; almost nothing is
\* free; frames in use look free; no two free frames are neighbours.
MCLowBytes == {{3} \cup 15..34, 15..17, (3..21) \cup {24}, {3} \cup {f \in 15..34 : f % 2 = 1}}
MCSpare == 3..21
MCKernel == <<1, 2>>
MCFrameBuffer == <<35, 3>>
MCImages ==
  { Image(TRUE, 64, <<Seg(64, <<1, 2, 3>>, 3), Seg(67, <<4>>, 4)>>),   \* two segments on one page, .bss
    Image(TRUE, 71, <<Seg(71, <<5, 6>>, 4)>>),                         \* across two page tables
    Image(TRUE, 130, <<Seg(130, <<>>, 2), Seg(254, <<3, 2>>, 2)>>),    \* .bss only, and the last user page
    Image(TRUE, 96, <<Seg(95, <<6, 6>>, 2)>>),                         \* on the stack page
    Image(TRUE, 0, <<Seg(66, <<1>>, 3)>>),                             \* an entry point of 0
    Image(FALSE, 64, <<Seg(64, <<1>>, 1)>>) }                          \* a header that fails its checks

MCRanges == ({0, 63, 64, 65, 67, 70, 71, 96, 97, 129, 130, 253, 254, 255, 256, 510, 511} \X (0..6))
            \cup {<<64, 512 - 64>>, <<65, 512 - 64>>, <<64, 511>>}
=============================================================================
