--------------------------------- MODULE PMM ---------------------------------
(***************************************************************************)
(* The physical frame allocator, kernel/mm/pmm.c: one bit per frame, a     *)
(* count of the set bits, first-fit allocation of one frame or of a run.   *)
(*                                                                         *)
(* The bitmap is the set `bits` of the frames whose bit is set.  pmm_init  *)
(* places the bitmap behind the kernel, the multiboot2 information and the *)
(* boot module (one step per pass of its loop), then fills it.  Addresses  *)
(* are bytes; FRAME_SIZE and the bits held by a bitmap byte are constants, *)
(* scaled down for TLC.                                                    *)
(*                                                                         *)
(* pmm_use_hhdm repoints the bitmap at phys_to_virt(bitmap_phys).  Nothing *)
(* assigns bitmap_phys, so the bitmap becomes whatever bytes lie at        *)
(* physical address 0: low memory the kernel never wrote, any value.       *)
(***************************************************************************)
EXTENDS Integers, FiniteSets, FiniteSetsExt

CONSTANTS
  FRAME_SIZE,   \* bytes in a frame (4096)
  BYTE_BITS,    \* bits in a bitmap byte (8)
  BootInfos     \* what the boot loader may hand over, see IsBootInfo

Ceil(x, a) == (x + a - 1) \div a
ALIGN_UP(x, a) == Ceil(x, a) * a

\* The end of the highest available region (pass 1) and the frames below it.
MaxAddr(b) == Max({r[2] : r \in b.ram})
TotalFrames(b) == MaxAddr(b) \div FRAME_SIZE
BitmapSize(b) == Ceil(TotalFrames(b), BYTE_BITS)
Frames(b) == 0..TotalFrames(b) - 1

\* [start, end) byte ranges: the frames one touches, and those it holds whole.
Overlap(r, s) == r[2] > s[1] /\ r[1] < s[2]
Touched(r) == (r[1] \div FRAME_SIZE)..(Ceil(r[2], FRAME_SIZE) - 1)
Whole(r) == Ceil(r[1], FRAME_SIZE)..((r[2] \div FRAME_SIZE) - 1)

\* A module_end of 0 means that no module was loaded.
HasModule(b) == b.module[2] # 0
ModuleFrames(b) == IF HasModule(b) THEN Touched(b.module) ELSE {}

(***************************************************************************)
(* What the code relies on without checking it: the memory map holds a     *)
(* frame, module and mb2 information are proper ranges, the module lies in *)
(* frames the bitmap covers, and the available region behind the kernel    *)
(* has room for the bitmap past all three.  The bitmap fits one frame, as  *)
(* on the 128 MB machine the Makefile starts: on a larger one the bitmap   *)
(* that pmm_use_hhdm puts at address 0 would reach into frames it hands    *)
(* out, and their owners would write over it.                              *)
(***************************************************************************)
IsRange(r) == r \in Nat \X Nat /\ r[1] < r[2]
IsBootInfo(b) ==
  /\ b.kernel_end \in Nat
  /\ IsRange(b.mb2)
  /\ b.module \in Nat \X Nat
  /\ HasModule(b) => IsRange(b.module) /\ Touched(b.module) \subseteq Frames(b)
  /\ \A r \in b.ram : IsRange(r) /\ r[2] <= MaxAddr(b)
  /\ MaxAddr(b) \in Nat /\ MaxAddr(b) >= FRAME_SIZE
  /\ BitmapSize(b) <= FRAME_SIZE
  /\ \E r \in b.ram :
       /\ r[1] <= b.kernel_end
       /\ \A e \in {b.kernel_end, b.mb2[2], b.module[2]} :
            ALIGN_UP(ALIGN_UP(e, FRAME_SIZE) + BitmapSize(b), FRAME_SIZE) <= r[2]

ASSUME SizesAssumption == FRAME_SIZE \in Nat \ {0} /\ BYTE_BITS \in Nat \ {0}
ASSUME BootInfosAssumption == \A b \in BootInfos : IsBootInfo(b)

VARIABLES
  info,          \* the boot information of this boot
  pc,            \* "place": pmm_init's loop; "fill": the rest of it; "ready"
  bitmap_start,  \* physical address of the bitmap being placed
  bits,          \* frames whose bit is set in the bitmap in use
  used_frames,   \* the counter
  hhdm,          \* pmm_use_hhdm has been called
  early,         \* frames handed out before pmm_use_hhdm and still held
  held           \* frames handed out since and still held

vars == <<info, pc, bitmap_start, bits, used_frames, hhdm, early, held>>

Bitmap == <<bitmap_start, bitmap_start + BitmapSize(info)>>

Init ==
  /\ info \in BootInfos
  /\ pc = "place"
  /\ bitmap_start = ALIGN_UP(info.kernel_end, FRAME_SIZE)
  /\ bits = {} /\ used_frames = 0 /\ hhdm = FALSE
  /\ early = {} /\ held = {}

\* Where one pass of the placement loop leaves a bitmap it found at s.
PastMb2(s) ==
  IF Overlap(info.mb2, <<s, s + BitmapSize(info)>>)
    THEN ALIGN_UP(info.mb2[2], FRAME_SIZE) ELSE s
PastModule(s) ==
  IF HasModule(info) /\ Overlap(info.module, <<s, s + BitmapSize(info)>>)
    THEN ALIGN_UP(info.module[2], FRAME_SIZE) ELSE s

\* Mutant of PlacePass: one pass, whether it moved the bitmap or not.
PlaceOnce ==
  /\ pc = "place"
  /\ bitmap_start' = PastModule(PastMb2(bitmap_start))
  /\ pc' = "fill"
  /\ UNCHANGED <<info, bits, used_frames, hhdm, early, held>>

\* One pass of the placement loop; a pass that moves nothing is the last.
PlacePass ==
  /\ pc = "place"
  /\ bitmap_start' = PastModule(PastMb2(bitmap_start))
  /\ pc' = IF bitmap_start' = bitmap_start THEN "fill" ELSE "place"
  /\ UNCHANGED <<info, bits, used_frames, hhdm, early, held>>

\* Everything used, available frames freed, then the reservations.
Reserved ==
  {0} \cup 0..(Ceil(Bitmap[2], FRAME_SIZE) - 1) \cup ModuleFrames(info)

\* Mutants of Fill: the module is not reserved; mark_used does not test the bit.
FillNoModule ==
  LET unavailable == Frames(info) \ UNION {Whole(r) : r \in info.ram}
      kept == Reserved \ ModuleFrames(info)
  IN /\ pc = "fill"
     /\ bits' = unavailable \cup kept
     /\ used_frames' = Cardinality(unavailable) + Cardinality(kept \ unavailable)
     /\ pc' = "ready"
     /\ UNCHANGED <<info, bitmap_start, hhdm, early, held>>
FillCountsTwice ==
  LET unavailable == Frames(info) \ UNION {Whole(r) : r \in info.ram}
  IN /\ pc = "fill"
     /\ bits' = unavailable \cup Reserved
     /\ used_frames' = Cardinality(unavailable) + Cardinality(Reserved)
     /\ pc' = "ready"
     /\ UNCHANGED <<info, bitmap_start, hhdm, early, held>>

Fill ==
  LET unavailable == Frames(info) \ UNION {Whole(r) : r \in info.ram}
  IN /\ pc = "fill"
     /\ bits' = unavailable \cup Reserved
     /\ used_frames' = Cardinality(unavailable) + Cardinality(Reserved \ unavailable)
     /\ pc' = "ready"
     /\ UNCHANGED <<info, bitmap_start, hhdm, early, held>>

\* mark_used on every frame of F, which the caller now holds.
Take(F) ==
  /\ bits' = bits \cup F
  /\ used_frames' = used_frames + Cardinality(F \ bits)
  /\ IF hhdm THEN held' = held \cup F /\ UNCHANGED early
             ELSE early' = early \cup F /\ UNCHANGED held

\* A run of `count` clear frames ending at i, as the scan from frame 1 sees it.
RunEnd(i, count) == i >= count /\ (i - count + 1)..i \cap bits = {}
FirstRun(i, count) == RunEnd(i, count) /\ \A j \in 1..i - 1 : ~RunEnd(j, count)

\* Scans that find nothing return 0 and change nothing.
pmm_alloc_frame ==
  /\ pc = "ready"
  /\ \E i \in Frames(info) \ ({0} \cup bits) :
       /\ \A j \in 1..i - 1 : j \in bits
       /\ Take({i})
  /\ UNCHANGED <<info, pc, bitmap_start, hhdm>>

\* Mutant of pmm_alloc_contig: the last frame of the run is not marked.
ContigShort(count) ==
  /\ pc = "ready"
  /\ count > 0
  /\ \E i \in Frames(info) \ {0} :
       /\ FirstRun(i, count)
       /\ bits' = bits \cup (i - count + 1)..(i - 1)
       /\ used_frames' = used_frames + count - 1
       /\ IF hhdm THEN held' = held \cup (i - count + 1)..i /\ UNCHANGED early
                  ELSE early' = early \cup (i - count + 1)..i /\ UNCHANGED held
  /\ UNCHANGED <<info, pc, bitmap_start, hhdm>>

pmm_alloc_contig(count) ==
  /\ pc = "ready"
  /\ count > 0
  /\ \E i \in Frames(info) \ {0} :
       /\ FirstRun(i, count)
       /\ Take((i - count + 1)..i)
  /\ UNCHANGED <<info, pc, bitmap_start, hhdm>>

\* A holder gives a frame back.  What was handed out before the switch to the
\* direct map is the kernel's own page tables, which are kept from then on.
pmm_free_frame(f) ==
  /\ pc = "ready"
  /\ f \in IF hhdm THEN held ELSE early
  /\ bits' = bits \ {f}
  /\ used_frames' = used_frames - Cardinality({f} \cap bits)
  /\ early' = IF hhdm THEN early ELSE early \ {f}
  /\ held' = held \ {f}
  /\ UNCHANGED <<info, pc, bitmap_start, hhdm>>

\* The bitmap is now the bytes at physical address 0.
pmm_use_hhdm ==
  /\ pc = "ready"
  /\ ~hhdm
  /\ hhdm' = TRUE
  /\ bits' \in SUBSET Frames(info)
  /\ UNCHANGED <<info, pc, bitmap_start, used_frames, early, held>>

Next ==
  \/ PlacePass \/ Fill \/ pmm_alloc_frame \/ pmm_use_hhdm
  \/ \E n \in Frames(info) : pmm_alloc_contig(n)
  \/ \E f \in Frames(info) : pmm_free_frame(f)

Spec == Init /\ [][Next]_vars

-----------------------------------------------------------------------------
\* What pmm_init marks used for good.
Base == (Frames(info) \ UNION {Whole(r) : r \in info.ram}) \cup Reserved

\* Types: bits, holders and the counter stay within the frames of this machine.
TypeOK ==
  /\ info \in BootInfos
  /\ pc \in {"place", "fill", "ready"}
  /\ bitmap_start \in Nat
  /\ bits \subseteq Frames(info)
  /\ used_frames \in Nat
  /\ hhdm \in BOOLEAN
  /\ early \subseteq Frames(info)
  /\ held \subseteq Frames(info)

\* Where the placement loop stops (pmm.c:122-138), filling the bitmap writes
\* over neither the kernel image, nor the memory map pass 2 still has to read,
\* nor the boot module.
BitmapClear ==
  pc # "place" =>
    /\ bitmap_start >= info.kernel_end
    /\ ~Overlap(info.mb2, Bitmap)
    /\ HasModule(info) => ~Overlap(info.module, Bitmap)

\* Until pmm_use_hhdm the bitmap says exactly who owns what: a frame's bit is
\* set if and only if pmm_init reserved it or a client holds it, never both.
\* So no reserved frame (kernel, bitmap, module, unavailable) is handed out, no
\* frame is handed out twice, and a freed frame is available again.
BitmapExact ==
  pc = "ready" /\ ~hhdm => bits = Base \cup early /\ Base \cap early = {}

\* used_frames (pmm.c:44: "transition-based counting keeps used_frames exact")
\* counts the reserved frames and those clients hold, also after the bitmap
\* under it has been replaced by pmm_use_hhdm.
CountExact ==
  pc = "ready" =>
    used_frames = Cardinality(Base) + Cardinality(early) + Cardinality(held)

\* Whatever the bytes at physical address 0 were, a frame handed out after the
\* switch stays marked until its holder frees it: it is not handed out again.
HeldMarked == held \subseteq bits /\ (held # {} => hhdm)

\* pmm.c:165: "reserve the boot module's frames so nothing gets allocated on
\* top of it": no frame a client holds is one of the module's.
ModuleKept == (early \cup held) \cap ModuleFrames(info) = {}
=============================================================================
