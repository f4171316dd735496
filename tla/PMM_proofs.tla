------------------------------ MODULE PMM_proofs ------------------------------
(***************************************************************************)
(* Proofs about PMM for every boot information, frame size and bitmap      *)
(* width.  IInv is the inductive invariant: the checked properties, plus   *)
(* where the placement loop can be and what holds before the bitmap is     *)
(* filled.                                                                 *)
(***************************************************************************)
EXTENDS PMM, FiniteSetTheorems, TLAPS

\* Rounding up never goes below the argument, and stays a natural number.
LEMMA CeilFacts ==
  ASSUME NEW x \in Nat, NEW a \in Nat \ {0}
  PROVE  /\ Ceil(x, a) \in Nat
         /\ ALIGN_UP(x, a) \in Nat
         /\ ALIGN_UP(x, a) >= x
<1>1. /\ x + a - 1 \in Nat
      /\ Ceil(x, a) \in Nat
  BY DEF Ceil
<1>2. x + a - 1 = Ceil(x, a) * a + ((x + a - 1) % a) /\ (x + a - 1) % a \in 0..(a - 1)
  BY <1>1 DEF Ceil
<1>. QED  BY <1>1, <1>2 DEF ALIGN_UP

\* A whole number of frames below an address is a frame count below it.
LEMMA DivBound ==
  ASSUME NEW m \in Nat, NEW k \in Nat, NEW a \in Nat \ {0}, k * a <= m
  PROVE  k <= m \div a
<1>. DEFINE q == m \div a
            r == m % a
<1>1. /\ q \in Nat
      /\ r \in 0..(a - 1)
      /\ m = q * a + r
  OBVIOUS
<1>. HIDE DEF q, r
<1>2. ASSUME k > q PROVE FALSE
  <2>1. k * a >= (q + 1) * a
    BY <1>1, <1>2
  <2>2. (q + 1) * a = q * a + a
    BY <1>1
  <2>. QED  BY <1>1, <2>1, <2>2
<1>. QED  BY <1>1, <1>2 DEF q

-----------------------------------------------------------------------------
\* Places the loop can leave the bitmap: behind the kernel, mb2 or the module.
Places(b) == {ALIGN_UP(e, FRAME_SIZE) : e \in {b.kernel_end, b.mb2[2], b.module[2]}}

IInv ==
  /\ TypeOK
  /\ bitmap_start \in Places(info)
  /\ bitmap_start >= info.kernel_end
  /\ BitmapClear
  /\ BitmapExact
  /\ CountExact
  /\ HeldMarked
  /\ pc # "ready" => bits = {} /\ early = {} /\ held = {} /\ ~hhdm

\* The constants and sizes of a machine the boot loader may describe.
LEMMA InfoFacts ==
  ASSUME NEW b \in BootInfos
  PROVE  /\ b.kernel_end \in Nat /\ b.mb2[1] \in Nat /\ b.mb2[2] \in Nat
         /\ b.module[1] \in Nat /\ b.module[2] \in Nat
         /\ MaxAddr(b) \in Nat /\ TotalFrames(b) \in Nat \ {0} /\ BitmapSize(b) \in Nat
         /\ IsFiniteSet(Frames(b))
         /\ ModuleFrames(b) \subseteq Frames(b)
         /\ Places(b) \subseteq Nat
<1>1. IsBootInfo(b)
  BY BootInfosAssumption
<1>2. /\ b.kernel_end \in Nat /\ b.mb2[1] \in Nat /\ b.mb2[2] \in Nat
      /\ b.module[1] \in Nat /\ b.module[2] \in Nat
      /\ MaxAddr(b) \in Nat /\ MaxAddr(b) >= FRAME_SIZE
  BY <1>1 DEF IsBootInfo, IsRange
<1>3. TotalFrames(b) \in Nat \ {0}
  <2>1. 1 <= TotalFrames(b)
    BY <1>2, SizesAssumption, DivBound DEF TotalFrames
  <2>. QED  BY <1>2, <2>1, SizesAssumption DEF TotalFrames
<1>4. BitmapSize(b) \in Nat
  BY <1>3, SizesAssumption, CeilFacts DEF BitmapSize
<1>5. IsFiniteSet(Frames(b))
  BY <1>3, FS_Interval DEF Frames
<1>6. ModuleFrames(b) \subseteq Frames(b)
  BY <1>1 DEF ModuleFrames, IsBootInfo
<1>7. Places(b) \subseteq Nat
  BY <1>2, SizesAssumption, CeilFacts, Zenon DEF Places
<1>. QED  BY <1>2, <1>3, <1>4, <1>5, <1>6, <1>7

\* From any of its places the bitmap ends inside the frames it covers.
LEMMA RoomForBitmap ==
  ASSUME NEW b \in BootInfos, NEW s \in Places(b)
  PROVE  /\ Ceil(s + BitmapSize(b), FRAME_SIZE) \in Nat
         /\ Ceil(s + BitmapSize(b), FRAME_SIZE) <= TotalFrames(b)
<1>. DEFINE c == Ceil(s + BitmapSize(b), FRAME_SIZE)
<1>1. s \in Nat /\ BitmapSize(b) \in Nat /\ MaxAddr(b) \in Nat
  BY InfoFacts
<1>2. c \in Nat
  BY <1>1, SizesAssumption, CeilFacts
<1>3. PICK r \in b.ram :
        \A e \in {b.kernel_end, b.mb2[2], b.module[2]} :
          ALIGN_UP(ALIGN_UP(e, FRAME_SIZE) + BitmapSize(b), FRAME_SIZE) <= r[2]
  BY BootInfosAssumption DEF IsBootInfo
<1>4. r[2] \in Nat /\ r[2] <= MaxAddr(b)
  BY BootInfosAssumption DEF IsBootInfo, IsRange
<1>5. c * FRAME_SIZE <= r[2]
  BY <1>3 DEF Places, ALIGN_UP
<1>6. c * FRAME_SIZE <= MaxAddr(b)
  BY <1>1, <1>2, <1>4, <1>5, SizesAssumption
<1>. QED  BY <1>1, <1>2, <1>6, DivBound, SizesAssumption DEF TotalFrames

\* All that pmm_init reserves is a frame of the machine.
LEMMA BaseInFrames ==
  ASSUME info \in BootInfos, bitmap_start \in Places(info)
  PROVE  Reserved \subseteq Frames(info) /\ Base \subseteq Frames(info)
<1>1. 0..(Ceil(Bitmap[2], FRAME_SIZE) - 1) \subseteq Frames(info)
  BY RoomForBitmap, InfoFacts DEF Bitmap, Frames
<1>2. 0 \in Frames(info)
  BY InfoFacts DEF Frames
<1>. QED  BY <1>1, <1>2, InfoFacts DEF Reserved, Base

-----------------------------------------------------------------------------
LEMMA InitIInv == Init => IInv
<1>. SUFFICES ASSUME Init PROVE IInv
  OBVIOUS
<1>1. info \in BootInfos /\ bitmap_start \in Places(info) /\ bitmap_start \in Nat
  BY InfoFacts, CeilFacts, SizesAssumption DEF Init, Places
<1>2. bitmap_start >= info.kernel_end
  BY InfoFacts, CeilFacts, SizesAssumption DEF Init
<1>. QED
  BY <1>1, <1>2, Zenon DEF Init, IInv, TypeOK, BitmapClear, BitmapExact, CountExact, HeldMarked

\* A pass moves the bitmap upwards or not at all; when it does not move it,
\* the bitmap overlaps neither the mb2 information nor the module.
LEMMA PassFacts ==
  ASSUME info \in BootInfos, NEW s \in Places(info)
  PROVE  LET t == PastModule(PastMb2(s))
             at == <<s, s + BitmapSize(info)>>
         IN /\ t \in Places(info)
            /\ t >= s
            /\ t = s => /\ ~Overlap(info.mb2, at)
                        /\ HasModule(info) => ~Overlap(info.module, at)
<1>. DEFINE m == PastMb2(s)
            t == PastModule(m)
<1>1. /\ s \in Nat /\ BitmapSize(info) \in Nat
      /\ info.mb2[2] \in Nat /\ info.module[2] \in Nat
  BY InfoFacts
<1>2. /\ ALIGN_UP(info.mb2[2], FRAME_SIZE) \in Places(info)
      /\ ALIGN_UP(info.module[2], FRAME_SIZE) \in Places(info)
  BY DEF Places
<1>3. /\ ALIGN_UP(info.mb2[2], FRAME_SIZE) >= info.mb2[2]
      /\ ALIGN_UP(info.module[2], FRAME_SIZE) >= info.module[2]
  BY <1>1, CeilFacts, SizesAssumption, Zenon
<1>4. /\ m \in Places(info) /\ m \in Nat /\ m >= s
      /\ Overlap(info.mb2, <<s, s + BitmapSize(info)>>) => m > s
  BY <1>1, <1>2, <1>3, InfoFacts DEF PastMb2, Overlap
<1>5. /\ t \in Places(info) /\ t \in Nat /\ t >= m
      /\ HasModule(info) /\ Overlap(info.module, <<m, m + BitmapSize(info)>>) => t > m
  BY <1>1, <1>2, <1>3, <1>4, InfoFacts DEF PastModule, Overlap
<1>. HIDE DEF m, t
<1>6. t >= s /\ (t = s => m = s)
  BY <1>1, <1>4, <1>5
<1>7. t = s => ~Overlap(info.mb2, <<s, s + BitmapSize(info)>>)
  BY <1>1, <1>4, <1>6
<1>8. t = s /\ HasModule(info) => ~Overlap(info.module, <<s, s + BitmapSize(info)>>)
  BY <1>1, <1>4, <1>5, <1>6
<1>. QED  BY <1>5, <1>6, <1>7, <1>8 DEF t, m

LEMMA PlacePassIInv == IInv /\ PlacePass => IInv'
<1>. SUFFICES ASSUME IInv, PlacePass PROVE IInv'
  OBVIOUS
<1>1. info \in BootInfos /\ bitmap_start \in Places(info) /\ bitmap_start \in Nat
      /\ bitmap_start >= info.kernel_end /\ pc # "ready"
  BY DEF IInv, TypeOK, PlacePass
<1>2. /\ bitmap_start' \in Places(info)
      /\ bitmap_start' >= bitmap_start
      /\ bitmap_start' = bitmap_start =>
           /\ ~Overlap(info.mb2, Bitmap)
           /\ HasModule(info) => ~Overlap(info.module, Bitmap)
  BY <1>1, PassFacts DEF PlacePass, Bitmap
<1>3. bitmap_start' \in Nat /\ bitmap_start' >= info.kernel_end /\ info' = info
  BY <1>1, <1>2, InfoFacts DEF PlacePass
<1>4. pc' # "place" => Bitmap' = Bitmap /\ bitmap_start' = bitmap_start
  BY <1>3 DEF PlacePass, Bitmap, BitmapSize, TotalFrames, MaxAddr
<1>5. BitmapClear'
  BY <1>2, <1>3, <1>4 DEF BitmapClear, HasModule, Overlap
<1>. QED
  BY <1>1, <1>2, <1>3, <1>5 DEF IInv, TypeOK, PlacePass, BitmapExact, CountExact, HeldMarked

-----------------------------------------------------------------------------
\* Counting disjoint finite sets, and removing one element.
LEMMA DisjointUnion ==
  ASSUME NEW S, NEW T, IsFiniteSet(S), IsFiniteSet(T), S \cap T = {}
  PROVE  /\ IsFiniteSet(S \cup T)
         /\ Cardinality(S \cup T) = Cardinality(S) + Cardinality(T)
         /\ Cardinality(S) \in Nat /\ Cardinality(T) \in Nat
<1>1. Cardinality(S \cap T) = 0
  BY FS_EmptySet
<1>2. Cardinality(S) \in Nat /\ Cardinality(T) \in Nat
  BY FS_CardinalityType
<1>3. /\ IsFiniteSet(S \cup T)
      /\ Cardinality(S \cup T) = Cardinality(S) + Cardinality(T) - Cardinality(S \cap T)
  BY FS_Union
<1>. QED  BY <1>1, <1>2, <1>3

LEMMA RemoveOne ==
  ASSUME NEW S, IsFiniteSet(S), NEW x \in S
  PROVE  /\ Cardinality(S) \in Nat \ {0}
         /\ Cardinality(S \ {x}) = Cardinality(S) - 1
<1>1. Cardinality(S \ {x}) = Cardinality(S) - 1
  BY FS_RemoveElement
<1>2. IsFiniteSet(S \ {x})
  BY FS_Subset
<1>3. Cardinality(S) \in Nat /\ Cardinality(S \ {x}) \in Nat
  BY <1>2, FS_CardinalityType
<1>. QED  BY <1>1, <1>3

\* The finite sets the counter is about.
LEMMA FiniteParts ==
  ASSUME IInv
  PROVE  /\ IsFiniteSet(Frames(info)) /\ IsFiniteSet(Base)
         /\ IsFiniteSet(early) /\ IsFiniteSet(held) /\ IsFiniteSet(bits)
         /\ Cardinality(Base) \in Nat /\ Cardinality(early) \in Nat
         /\ Cardinality(held) \in Nat
<1>1. Base \subseteq Frames(info) /\ IsFiniteSet(Frames(info))
  BY BaseInFrames, InfoFacts DEF IInv, TypeOK
<1>2. early \subseteq Frames(info) /\ held \subseteq Frames(info) /\ bits \subseteq Frames(info)
  BY DEF IInv, TypeOK
<1>. QED  BY <1>1, <1>2, FS_Subset, FS_CardinalityType

\* Once pmm_init is done the layout never moves again.
LEMMA LayoutKept ==
  ASSUME info' = info, bitmap_start' = bitmap_start, BitmapClear, pc # "place"
  PROVE  Base' = Base /\ Frames(info') = Frames(info) /\ BitmapClear'
<1>1. Bitmap' = Bitmap
  BY DEF Bitmap
<1>2. Base' = Base
  BY <1>1 DEF Base, Reserved
<1>. QED  BY <1>1, <1>2 DEF BitmapClear

LEMMA FillIInv == IInv /\ Fill => IInv'
<1>. SUFFICES ASSUME IInv, Fill PROVE IInv'
  OBVIOUS
<1>. DEFINE U == Frames(info) \ UNION {Whole(r) : r \in info.ram}
<1>1. /\ info \in BootInfos /\ bitmap_start \in Places(info) /\ pc = "fill"
      /\ early = {} /\ held = {} /\ hhdm = FALSE
  BY DEF IInv, TypeOK, Fill
<1>2. Reserved \subseteq Frames(info) /\ Base \subseteq Frames(info)
  BY <1>1, BaseInFrames
<1>3. /\ bits' = Base
      /\ used_frames' = Cardinality(U) + Cardinality(Reserved \ U)
      /\ early' = {} /\ held' = {} /\ hhdm' = FALSE /\ pc' = "ready"
      /\ info' = info /\ bitmap_start' = bitmap_start
  BY <1>1 DEF Fill, Base
<1>4. Base' = Base /\ Frames(info') = Frames(info) /\ BitmapClear'
  BY <1>1, <1>3, LayoutKept DEF IInv
<1>5. IsFiniteSet(U) /\ IsFiniteSet(Reserved \ U)
  <2>1. U \subseteq Frames(info) /\ Reserved \ U \subseteq Frames(info)
    BY <1>2
  <2>. QED  BY <1>1, <2>1, InfoFacts, FS_Subset
<1>6. Base = U \cup (Reserved \ U) /\ U \cap (Reserved \ U) = {}
  BY DEF Base
<1>7. used_frames' = Cardinality(Base) /\ used_frames' \in Nat
  <2>. DEFINE V == Reserved \ U
  <2>1. IsFiniteSet(U) /\ IsFiniteSet(V) /\ U \cap V = {}
    BY <1>5
  <2>. HIDE DEF U, V
  <2>2. /\ Cardinality(U \cup V) = Cardinality(U) + Cardinality(V)
        /\ Cardinality(U) \in Nat /\ Cardinality(V) \in Nat
    BY <2>1, DisjointUnion, Zenon
  <2>. QED  BY <1>3, <1>6, <2>2 DEF V
<1>8. CountExact'
  BY <1>3, <1>4, <1>7, FS_EmptySet DEF CountExact
<1>. QED
  BY <1>1, <1>2, <1>3, <1>4, <1>7, <1>8, Zenon DEF IInv, TypeOK, BitmapExact, HeldMarked, Places

\* Handing out frames whose bits are clear keeps the books.
LEMMA TakeIInv ==
  ASSUME IInv, pc = "ready", NEW F \in SUBSET Frames(info), F \cap bits = {}, Take(F),
         UNCHANGED <<info, pc, bitmap_start, hhdm>>
  PROVE  IInv'
<1>1. /\ Base' = Base /\ Frames(info') = Frames(info) /\ BitmapClear'
  BY LayoutKept DEF IInv
<1>2. IsFiniteSet(F) /\ Cardinality(F) \in Nat /\ F \ bits = F
  BY FiniteParts, FS_Subset, FS_CardinalityType
<1>3. bits' = bits \cup F /\ used_frames' = used_frames + Cardinality(F)
  BY <1>2 DEF Take
<1>4. used_frames = Cardinality(Base) + Cardinality(early) + Cardinality(held)
  BY DEF IInv, CountExact
<1>5. CASE hhdm
  <2>1. early' = early /\ held' = held \cup F /\ held \cap F = {} /\ hhdm'
    BY <1>5 DEF Take, IInv, HeldMarked
  <2>2. Cardinality(held') = Cardinality(held) + Cardinality(F)
    BY <1>2, <2>1, FiniteParts, DisjointUnion, Zenon
  <2>3. CountExact' /\ used_frames' \in Nat
    BY <1>1, <1>2, <1>3, <1>4, <2>1, <2>2, FiniteParts DEF CountExact
  <2>. QED
    BY <1>1, <1>3, <2>1, <2>3 DEF IInv, TypeOK, BitmapExact, HeldMarked, Places
<1>6. CASE ~hhdm
  <2>1. /\ early' = early \cup F /\ held' = held /\ ~hhdm'
        /\ bits = Base \cup early /\ Base \cap early = {}
    BY <1>6 DEF Take, IInv, BitmapExact
  <2>2. Cardinality(early') = Cardinality(early) + Cardinality(F)
    BY <1>2, <2>1, FiniteParts, DisjointUnion, Zenon
  <2>3. CountExact' /\ used_frames' \in Nat
    BY <1>1, <1>2, <1>3, <1>4, <2>1, <2>2, FiniteParts DEF CountExact
  <2>4. BitmapExact'
    BY <1>1, <1>3, <2>1 DEF BitmapExact
  <2>. QED
    BY <1>1, <1>3, <2>1, <2>3, <2>4 DEF IInv, TypeOK, HeldMarked, Places
<1>. QED  BY <1>5, <1>6

LEMMA AllocFrameIInv == IInv /\ pmm_alloc_frame => IInv'
<1>. SUFFICES ASSUME IInv, pmm_alloc_frame PROVE IInv'
  OBVIOUS
<1>1. PICK i \in Frames(info) \ ({0} \cup bits) : Take({i})
  BY DEF pmm_alloc_frame
<1>. QED  BY <1>1, TakeIInv DEF pmm_alloc_frame

LEMMA AllocContigIInv ==
  ASSUME NEW count \in Nat, IInv, pmm_alloc_contig(count)
  PROVE  IInv'
<1>1. PICK i \in Frames(info) \ {0} :
        FirstRun(i, count) /\ Take((i - count + 1)..i)
  BY DEF pmm_alloc_contig
<1>. DEFINE F == (i - count + 1)..i
<1>2. F \cap bits = {} /\ F \subseteq Frames(info)
  BY <1>1, InfoFacts DEF FirstRun, RunEnd, Frames, IInv, TypeOK
<1>. HIDE DEF F
<1>3. Take(F)
  BY <1>1 DEF F
<1>. QED  BY <1>2, <1>3, TakeIInv DEF pmm_alloc_contig

LEMMA FreeFrameIInv ==
  ASSUME NEW f, IInv, pmm_free_frame(f)
  PROVE  IInv'
<1>1. /\ Base' = Base /\ Frames(info') = Frames(info) /\ BitmapClear' /\ pc = "ready"
  BY LayoutKept DEF IInv, pmm_free_frame
<1>2. f \in bits /\ bits' = bits \ {f} /\ used_frames' = used_frames - 1
  <2>1. f \in bits
    BY <1>1 DEF pmm_free_frame, IInv, BitmapExact, HeldMarked
  <2>2. {f} \cap bits = {f}
    BY <2>1
  <2>3. Cardinality({f}) = 1
    BY FS_Singleton
  <2>. QED  BY <2>1, <2>2, <2>3 DEF pmm_free_frame
<1>3. used_frames = Cardinality(Base) + Cardinality(early) + Cardinality(held)
  BY <1>1 DEF IInv, CountExact
<1>4. CASE hhdm
  <2>1. early' = early /\ held' = held \ {f} /\ f \in held /\ hhdm'
    BY <1>4 DEF pmm_free_frame
  <2>2. Cardinality(held') = Cardinality(held) - 1 /\ Cardinality(held) \in Nat \ {0}
    BY <2>1, FiniteParts, RemoveOne
  <2>3. CountExact' /\ used_frames' \in Nat
    BY <1>1, <1>2, <1>3, <2>1, <2>2, FiniteParts DEF CountExact
  <2>. QED
    BY <1>1, <1>2, <2>1, <2>3
    DEF IInv, TypeOK, BitmapExact, HeldMarked, Places, pmm_free_frame
<1>5. CASE ~hhdm
  <2>1. /\ early' = early \ {f} /\ held = {} /\ held' = {} /\ f \in early /\ ~hhdm'
        /\ bits = Base \cup early /\ Base \cap early = {}
    BY <1>1, <1>5 DEF pmm_free_frame, IInv, BitmapExact, HeldMarked
  <2>2. Cardinality(early') = Cardinality(early) - 1 /\ Cardinality(early) \in Nat \ {0}
    BY <2>1, FiniteParts, RemoveOne
  <2>3. CountExact' /\ used_frames' \in Nat
    BY <1>1, <1>2, <1>3, <2>1, <2>2, FiniteParts DEF CountExact
  <2>4. BitmapExact'
    BY <1>1, <1>2, <2>1 DEF BitmapExact
  <2>. QED
    BY <1>1, <1>2, <2>1, <2>3, <2>4 DEF IInv, TypeOK, HeldMarked, Places, pmm_free_frame
<1>. QED  BY <1>4, <1>5

LEMMA UseHhdmIInv == IInv /\ pmm_use_hhdm => IInv'
<1>. SUFFICES ASSUME IInv, pmm_use_hhdm PROVE IInv'
  OBVIOUS
<1>1. Base' = Base /\ Frames(info') = Frames(info) /\ BitmapClear'
  BY LayoutKept DEF IInv, pmm_use_hhdm
<1>2. held = {} /\ held' = {}
  BY DEF IInv, HeldMarked, pmm_use_hhdm
<1>3. CountExact'
  BY <1>1 DEF IInv, CountExact, pmm_use_hhdm
<1>. QED
  BY <1>1, <1>2, <1>3
  DEF IInv, TypeOK, BitmapExact, HeldMarked, Places, pmm_use_hhdm

LEMMA NextIInv == IInv /\ [Next]_vars => IInv'
<1>. SUFFICES ASSUME IInv, [Next]_vars PROVE IInv'
  OBVIOUS
<1>1. CASE PlacePass  BY <1>1, PlacePassIInv
<1>2. CASE Fill  BY <1>2, FillIInv
<1>3. CASE pmm_alloc_frame  BY <1>3, AllocFrameIInv
<1>4. CASE pmm_use_hhdm  BY <1>4, UseHhdmIInv
<1>5. ASSUME NEW n \in Frames(info), pmm_alloc_contig(n) PROVE IInv'
  <2>1. n \in Nat
    BY <1>5, InfoFacts DEF Frames, IInv, TypeOK
  <2>. QED  BY <1>5, <2>1, AllocContigIInv
<1>6. ASSUME NEW f \in Frames(info), pmm_free_frame(f) PROVE IInv'
  BY <1>6, FreeFrameIInv
<1>7. CASE UNCHANGED vars
  <2>1. Base' = Base /\ Bitmap' = Bitmap
    BY <1>7 DEF vars, Base, Reserved, Bitmap
  <2>. QED
    BY <1>7, <2>1 DEF vars, IInv, TypeOK, BitmapClear, BitmapExact, CountExact, HeldMarked, Places
<1>. QED  BY <1>1, <1>2, <1>3, <1>4, <1>5, <1>6, <1>7 DEF Next

LEMMA PMMInductive == Spec => []IInv
BY InitIInv, NextIInv, PTL DEF Spec

\* Types, for every machine the boot loader may describe.
THEOREM PMMTypes == Spec => []TypeOK
BY PMMInductive, PTL DEF IInv

\* pmm_init's placement loop only ever stops with the bitmap clear of the
\* kernel, the mb2 information and the module.
THEOREM PMMPlacement == Spec => []BitmapClear
BY PMMInductive, PTL DEF IInv

\* Until pmm_use_hhdm no reserved frame is handed out, no frame is handed out
\* twice and none is lost.
THEOREM PMMBitmapExact == Spec => []BitmapExact
BY PMMInductive, PTL DEF IInv

\* mark_used and mark_free keep the frame count exact, before and after
\* pmm_use_hhdm replaces the bitmap.
THEOREM PMMCountExact == Spec => []CountExact
BY PMMInductive, PTL DEF IInv

\* A frame handed out after pmm_use_hhdm is not handed out again while held.
THEOREM PMMHeldMarked == Spec => []HeldMarked
BY PMMInductive, PTL DEF IInv
=============================================================================
