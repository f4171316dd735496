------------------------------- MODULE Paging -------------------------------
(***************************************************************************)
(* Address spaces: kernel/mm/vmm.c (four-level page tables, the shared     *)
(* kernel half, the direct map), kernel/user/elf.c, spawn_user_process and *)
(* the user-pointer checks behind SYS_WRITE.                               *)
(*                                                                         *)
(* The machine's memory is one record m: the tables held in frames, the    *)
(* bytes held in frames, and the free frames.  The code's functions are    *)
(* operators from m to m; one iteration of a loop that boots, starts or    *)
(* reaps a process is an action.  Boot's context alone runs them.          *)
(*                                                                         *)
(* A table has SLOTS entries and a page PAGE_SIZE bytes, scaled down.  A   *)
(* virtual page is a number below SLOTS^4, the lower half of them the      *)
(* user's.                                                                 *)
(*                                                                         *)
(* Frames come from pmm.c.  The bitmap pmm_init made serves vmm_init only: *)
(* from pmm_use_hhdm on, before the first page of the heap is mapped, the  *)
(* allocator searches the bytes at physical address 0, whatever they are   *)
(* (see PMM), and may hand out frames that are in use.                     *)
(***************************************************************************)
EXTENDS Integers, Sequences, FiniteSets, FiniteSetsExt, SequencesExt

CONSTANTS
  SLOTS, PAGE_SIZE,
  TotalFrames,       \* RAM is the frames 0..TotalFrames-1
  Memories,          \* the sets of frames pmm_init may leave free
  LowBytes,          \* the sets of frames the bytes at address 0 may show as free
  Spare,             \* memory that is nobody's unless it is handed out
  KernelFrames,      \* the kernel image: <<first frame, number of frames>>
  IdentityFrames,    \* how much vmm_init maps one to one (4 GB)
  HHDM_OFFSET, KERNEL_VIRT_BASE, HEAP_START, USER_STACK_VADDR,   \* pages
  HeapPages,         \* HEAP_INITIAL_SIZE in pages
  FrameBuffer,       \* <<first frame, number of frames>> of video memory
  BackFrames,        \* the size of gfx_init's back buffer
  Images,            \* ELF files: [ok, entry, segs], see elf_load
  WRITE_MAX, WRITE_CHUNK,
  MaxRuns            \* bound: processes started

ASSUME PagingAssumption ==
  /\ SLOTS \in Nat /\ SLOTS % 2 = 0 /\ PAGE_SIZE \in Nat \ {0}
  /\ \A A \in Memories \cup LowBytes : A # {} /\ A \subseteq 1..TotalFrames - 1
  /\ HHDM_OFFSET >= SLOTS^4 \div 2

Slots == 0..SLOTS - 1
UserSlots == 0..(SLOTS \div 2) - 1            \* PML4 entries 0-255
USER_SPACE_END == (SLOTS^4 \div 2) * PAGE_SIZE
AddressEnd == SLOTS^4 * PAGE_SIZE             \* 2^64
Frames == 0..Max({TotalFrames, FrameBuffer[1] + FrameBuffer[2]}) - 1
Ram == 0..TotalFrames - 1

Absent == [to |-> 0, flags |-> {}]
Present(e) == "P" \in e.flags
Index(v, level) == (v \div SLOTS^(level - 1)) % SLOTS

VARIABLES
  graphics, \* whether GRUB left a frame buffer gfx_init can use
  Available,\* the frames the bitmap in use showed as free when it came into use
  m,        \* memory: tab, data, free; used, spoilt: see Alloc; huge: a huge page was used as a table
  kernel_pml4,
  pc,       \* how far boot, or the start of a process, has come; else "idle" or "run"
  n,        \* the counter of the loop pc is in
  space,    \* the process's pml4, 0 when there is none
  running,  \* its image
  seg,      \* and the segment elf_load is at
  back,     \* the frames of the back buffer
  runs,     \* processes started so far
  spilled   \* ghost: processes started from an image with a segment on the stack's page

process == <<space, running, seg>>
vars == <<graphics, Available, m, kernel_pml4, pc, n, process, back, runs, spilled>>

-----------------------------------------------------------------------------
\* pmm_alloc_frame, first fit.  Frame 0 is what it returns when nothing is free, and
\* next_level and its callers use that as a frame.  m.spoilt remembers that a frame was
\* taken that is in use (m.used): frame 0, or after pmm_use_hhdm any frame handed out or
\* reserved before it.
Take(mm, F) == [mm EXCEPT !.free = @ \ F, !.spoilt = @ \/ F \cap mm.used # {}]
Alloc(mm) ==
  LET f == IF mm.free = {} THEN 0 ELSE Min(mm.free)
  IN [phys |-> f, m |-> Take(mm, {f})]
Release(mm, F) == [mm EXCEPT !.free = @ \cup F]

\* pmm_alloc_contig: the first run of k free frames, none if there is no such run.
Run(mm, k) ==
  LET starts == {f \in mm.free : f..f + k - 1 \subseteq mm.free}
  IN IF starts = {} THEN {} ELSE Min(starts)..Min(starts) + k - 1

zero_table(mm, f) == [mm EXCEPT !.tab[f] = [i \in Slots |-> Absent]]

\* next_level with create: the entry's table, allocated if absent.
next_level(mm, t, i) ==
  LET e == mm.tab[t][i]
      a == Alloc(mm)
      new == [to |-> a.phys, flags |-> {"P", "W", "U"}]
  IN IF Present(e)
       THEN [phys |-> e.to, m |-> [mm EXCEPT !.huge = @ \/ "H" \in e.flags]]
       ELSE [phys |-> a.phys, m |-> [zero_table(a.m, a.phys) EXCEPT !.tab[t][i] = new]]

map_huge(mm, v, f, flags) ==
  LET pdpt == next_level(mm, kernel_pml4, Index(v, 4))
      pd   == next_level(pdpt.m, pdpt.phys, Index(v, 3))
  IN [pd.m EXCEPT !.tab[pd.phys][Index(v, 2)] = [to |-> f, flags |-> flags \cup {"H"}]]

vmm_map_page_in(mm, pml4, v, f, flags) ==
  LET pdpt == next_level(mm, pml4, Index(v, 4))
      pd   == next_level(pdpt.m, pdpt.phys, Index(v, 3))
      pt   == next_level(pd.m, pd.phys, Index(v, 2))
  IN [pt.m EXCEPT !.tab[pt.phys][Index(v, 1)] = [to |-> f, flags |-> flags \cup {"P"}]]

\* The table an entry leads to, 0 if it is absent (next_level without create).
Lookup(mm, t, i) == IF Present(mm.tab[t][i]) THEN mm.tab[t][i].to ELSE 0

\* The frame behind a page, 0 if it is not mapped.
vmm_get_phys_in(mm, pml4, v) ==
  LET pdpt == Lookup(mm, pml4, Index(v, 4))
      pd   == Lookup(mm, pdpt, Index(v, 3))
      e    == mm.tab[pd][Index(v, 2)]
  IN IF pdpt = 0 \/ pd = 0 \/ ~Present(e) THEN 0
     ELSE IF "H" \in e.flags THEN e.to + Index(v, 1)
     ELSE Lookup(mm, e.to, Index(v, 1))

-----------------------------------------------------------------------------
\* The tables the kernel boots into.

\* Mutant: RAM rounded down to huge pages.
HugeDown(k) == (k \div SLOTS) * SLOTS

HugeUp(k) == ((k + SLOTS - 1) \div SLOTS) * SLOTS
hhdm_end == HugeUp(TotalFrames)

\* One iteration of a boot loop of len iterations; next is what follows the loop.
Loop(at, len, next) ==
  /\ pc = at
  /\ pc' = IF n + 1 >= len THEN next ELSE at
  /\ n' = IF n + 1 >= len THEN 0 ELSE n + 1
  /\ UNCHANGED process

\* vmm_init: the top table, the first 4 GB one to one, the kernel image, all of RAM.
vmm_init ==
  /\ pc = "vmm_init"
  /\ LET a == Alloc(m) IN kernel_pml4' = a.phys /\ m' = zero_table(a.m, a.phys)
  /\ pc' = "identity" /\ UNCHANGED <<Available, n, process, back, runs, spilled>>
MapIdentity ==
  /\ Loop("identity", IdentityFrames \div SLOTS, "kernel")
  /\ m' = map_huge(m, n * SLOTS, n * SLOTS, {"P", "W"})
MapKernel ==
  /\ Loop("kernel", KernelFrames[2], "hhdm")
  /\ m' = vmm_map_page_in(m, kernel_pml4, KERNEL_VIRT_BASE + n, KernelFrames[1] + n, {"P", "W"})
MapHhdm ==
  /\ Loop("hhdm", hhdm_end \div SLOTS, "pmm_use_hhdm")
  /\ m' = map_huge(m, HHDM_OFFSET + n * SLOTS, n * SLOTS, {"P", "W"})

\* bitmap_phys was never assigned: the bitmap is now what lies at address 0.  The frames
\* in use are those handed out so far and those pmm_init reserved, but for spare memory.
pmm_use_hhdm ==
  /\ pc = "pmm_use_hhdm" /\ pc' = "heap_init"
  /\ Available' \in LowBytes
  /\ m' = [m EXCEPT !.free = Available',
                   !.used = (Ram \ (Spare \cup m.free)) \cup (Available \ m.free)]
  /\ UNCHANGED <<kernel_pml4, n, process, back, runs, spilled>>

\* heap_map_region halts the machine when frames run out.
heap_map_region ==
  LET a == Alloc(m)
  IN \/ /\ m.free # {}
        /\ Loop("heap_init", HeapPages, "gfx_init")
        /\ m' = vmm_map_page_in(a.m, kernel_pml4, HEAP_START + n, a.phys, {"P", "W"})
     \/ /\ m.free = {} /\ pc = "heap_init" /\ pc' = "halted"
        /\ UNCHANGED <<m, n, process>>

\* gfx_init: without a frame buffer the console stays in text mode.  Video memory above
\* the direct map is mapped behind it, page by page; the back buffer needs contiguous
\* frames, and without them it is text mode too.
TextMode == pc = "gfx_init" /\ ~graphics /\ pc' = "idle" /\ UNCHANGED <<m, n, process>>
vmm_map_mmio ==
  LET f == FrameBuffer[1] + n
  IN /\ graphics /\ Loop("gfx_init", FrameBuffer[2], "back")
     /\ m' = IF f < hhdm_end THEN m
             ELSE vmm_map_page_in(m, kernel_pml4, HHDM_OFFSET + f, f, {"P", "W"})
BackBuffer ==
  /\ pc = "back" /\ pc' = "idle"
  /\ back' = Run(m, BackFrames) /\ m' = Take(m, back')
  /\ UNCHANGED <<Available, kernel_pml4, n, process, runs, spilled>>

-----------------------------------------------------------------------------
\* Starting and ending a process.

vmm_create_address_space(mm) ==
  LET a == Alloc(mm)
      z == zero_table(a.m, a.phys)
      shared == [i \in Slots |-> IF i \in UserSlots THEN Absent ELSE mm.tab[kernel_pml4][i]]
  IN [phys |-> a.phys, m |-> [z EXCEPT !.tab[a.phys] = shared]]

ensure_user_page(mm, pml4, v) ==
  LET f == vmm_get_phys_in(mm, pml4, v)
      a == Alloc(mm)
  IN IF f # 0 THEN [phys |-> f, m |-> mm]
     ELSE [phys |-> a.phys, m |-> vmm_map_page_in(a.m, pml4, v, a.phys, {"W", "U"})]

Children(mm, T) ==
  {mm.tab[t][i].to : <<t, i>> \in {x \in T \X Slots :
      Present(mm.tab[x[1]][x[2]]) /\ "H" \notin mm.tab[x[1]][x[2]].flags}}

\* Every frame under a pml4's user half, level by level, and the pml4 itself are freed.
UserTables(mm, pml4) == {mm.tab[pml4][i].to : i \in {j \in UserSlots : Present(mm.tab[pml4][j])}}
vmm_destroy_address_space(mm, pml4, cr3) ==
  LET pdpts == UserTables(mm, pml4)
      pds == Children(mm, pdpts)
      pts == Children(mm, pds)
      pages == Children(mm, pts)
      freed == Release(mm, pdpts \cup pds \cup pts \cup pages \cup {pml4})
  IN IF pml4 \in {kernel_pml4, cr3} THEN mm
     ELSE [freed EXCEPT !.tab[pml4] =
             [i \in Slots |-> IF i \in UserSlots THEN Absent ELSE mm.tab[pml4][i]]]

\* Byte n of a segment: mapped on demand, then the file's byte or, past filesz, 0.
Byte(s, b) == IF b < Len(s.file) THEN s.file[b + 1] ELSE 0
LoadAt(va, x) ==
  LET p == ensure_user_page(m, space, va \div PAGE_SIZE)
  IN m' = [p.m EXCEPT !.data[p.phys][va % PAGE_SIZE] = x]

\* The headers are checked before anything is mapped; memory starts as the new
\* address space.  Boot's context runs all of this on the kernel's tables.
spawn_user_process(image) ==
  /\ pc = "idle" /\ runs < MaxRuns /\ runs' = runs + 1
  /\ LET new == vmm_create_address_space(m)
     IN m' = new.m /\ space' = new.phys
  /\ running' = image /\ seg' = 1 /\ n' = 0
  /\ pc' = IF image.ok THEN "load" ELSE "failed"
  /\ UNCHANGED <<Available, kernel_pml4, back, spilled>>

Loading == pc = "load" /\ seg <= Len(running.segs)

\* Mutant: bytes past filesz are left as they are.
LoadNoBss ==
  LET s == running.segs[seg]
  IN /\ Loading /\ n < s.memsz
     /\ IF n < Len(s.file) THEN LoadAt(s.vaddr + n, s.file[n + 1])
        ELSE m' = ensure_user_page(m, space, (s.vaddr + n) \div PAGE_SIZE).m
     /\ n' = n + 1 /\ UNCHANGED <<pc, process>>

LoadByte ==
  LET s == running.segs[seg]
  IN /\ Loading /\ n < s.memsz
     /\ LoadAt(s.vaddr + n, Byte(s, n))
     /\ n' = n + 1 /\ UNCHANGED <<pc, process>>
NextSegment ==
  /\ Loading /\ n >= running.segs[seg].memsz
  /\ seg' = seg + 1 /\ n' = 0 /\ UNCHANGED <<m, pc, space, running>>

\* elf_load returns the entry point, and 0 for an image that fails its checks;
\* any 0 is a failure to spawn_user_process, an entry point of 0 included.
elf_load ==
  /\ pc = "load" /\ seg > Len(running.segs)
  /\ pc' = IF running.entry = 0 THEN "failed" ELSE "stack"
  /\ UNCHANGED <<m, n, process>>

\* Mutant: a failed load keeps its address space.
SpawnKeepsSpace ==
  /\ pc = "failed"
  /\ pc' = "idle" /\ space' = 0 /\ UNCHANGED <<m, n, running, seg>>

SpawnFails ==
  /\ pc = "failed"
  /\ m' = vmm_destroy_address_space(m, space, kernel_pml4)
  /\ pc' = "idle" /\ space' = 0 /\ UNCHANGED <<n, running, seg>>
\* The stack page is mapped over what elf_load may have mapped there.
OnStackPage(image) ==
  \E i \in 1..Len(image.segs) : \E b \in 0..image.segs[i].memsz - 1 :
    (image.segs[i].vaddr + b) \div PAGE_SIZE = USER_STACK_VADDR
SpawnStack ==
  LET a == Alloc(m)
  IN /\ pc = "stack"
     /\ spilled' = spilled + (IF OnStackPage(running) THEN 1 ELSE 0)
     /\ m' = vmm_map_page_in(a.m, space, USER_STACK_VADDR, a.phys, {"W", "U"})
     /\ pc' = "run" /\ UNCHANGED <<Available, kernel_pml4, n, process, back, runs>>

\* The process exits and cmd_run reaps it.
task_reap ==
  /\ pc = "run"
  /\ m' = vmm_destroy_address_space(m, space, kernel_pml4)
  /\ pc' = "idle" /\ space' = 0 /\ UNCHANGED <<n, running, seg>>

-----------------------------------------------------------------------------
\* SYS_WRITE's view of memory, on the calling process's tables.

\* Do all four levels allow Ring 3 to read (write) this page?
UserPage(mm, pml4, v, need) ==
  LET e4 == mm.tab[pml4][Index(v, 4)]
      e3 == mm.tab[e4.to][Index(v, 3)]
      e2 == mm.tab[e3.to][Index(v, 2)]
      e1 == mm.tab[e2.to][Index(v, 1)]
  IN /\ need \subseteq e4.flags /\ need \subseteq e3.flags
     /\ \/ "H" \in e3.flags
        \/ /\ need \subseteq e2.flags
           /\ "H" \in e2.flags \/ need \subseteq e1.flags

\* Mutant: the last page is that of the byte before the last.
RangeShort(mm, pml4, va, len, write) ==
  LET end == (va + len) % AddressEnd
      need == {"P", "U"} \cup IF write THEN {"W"} ELSE {}
  IN \/ len = 0
     \/ /\ end >= va /\ end <= USER_SPACE_END
        /\ \A v \in (va \div PAGE_SIZE)..((end - 2) \div PAGE_SIZE) : UserPage(mm, pml4, v, need)

vmm_user_range_ok(mm, pml4, va, len, write) ==
  LET end == (va + len) % AddressEnd
      need == {"P", "U"} \cup IF write THEN {"W"} ELSE {}
  IN \/ len = 0
     \/ /\ end >= va /\ end <= USER_SPACE_END
        /\ \A v \in (va \div PAGE_SIZE)..((end - 1) \div PAGE_SIZE) : UserPage(mm, pml4, v, need)

\* The bytes copy_from_user fetches, through the tables.
ByteAt(mm, pml4, va) == mm.data[vmm_get_phys_in(mm, pml4, va \div PAGE_SIZE)][va % PAGE_SIZE]
Fetch(mm, pml4, va, k) == [i \in 1..k |-> ByteAt(mm, pml4, va + i - 1)]

\* sys_write: what is printed and what is returned.
WriteChunk(mm, pml4, ubuf, count, w) ==
  LET k == Min({count - Len(w.out), WRITE_CHUNK})
      src == ubuf + Len(w.out)
  IN IF w.stop \/ k = 0 THEN w
     ELSE IF ~vmm_user_range_ok(mm, pml4, src, k, FALSE) THEN [w EXCEPT !.stop = TRUE]
     ELSE [w EXCEPT !.out = @ \o Fetch(mm, pml4, src, k)]
\* Mutant: nothing is checked before the first chunk is printed.
WriteAsYouGo(mm, pml4, ubuf, count) ==
  LET w == FoldLeft(LAMBDA x, i : WriteChunk(mm, pml4, ubuf, count, x),
                    [out |-> <<>>, stop |-> FALSE], [i \in 1..count |-> i])
  IN IF count > WRITE_MAX THEN [ret |-> "EINVAL", out |-> <<>>]
     ELSE [ret |-> IF w.stop /\ w.out = <<>> THEN "EFAULT" ELSE "done", out |-> w.out]

sys_write(mm, pml4, ubuf, count) ==
  LET w == FoldLeft(LAMBDA x, i : WriteChunk(mm, pml4, ubuf, count, x),
                    [out |-> <<>>, stop |-> FALSE], [i \in 1..count |-> i])
  IN IF count > WRITE_MAX THEN [ret |-> "EINVAL", out |-> <<>>]
     ELSE IF ~vmm_user_range_ok(mm, pml4, ubuf, count, FALSE) THEN [ret |-> "EFAULT", out |-> <<>>]
     ELSE [ret |-> IF w.stop /\ w.out = <<>> THEN "EFAULT" ELSE "done", out |-> w.out]

-----------------------------------------------------------------------------
Junk == 7      \* what memory holds before anyone writes it

Init ==
  /\ graphics \in BOOLEAN /\ Available \in Memories
  /\ m = [tab |-> [f \in Frames |-> [i \in Slots |-> Absent]],
          data |-> [f \in Frames |-> [b \in 0..PAGE_SIZE - 1 |-> Junk]],
          free |-> Available, used |-> {0}, spoilt |-> FALSE, huge |-> FALSE]
  /\ pc = "vmm_init" /\ n = 0 /\ kernel_pml4 = 0 /\ space = 0 /\ seg = 1 /\ back = {} /\ runs = 0 /\ spilled = 0
  /\ running = [ok |-> FALSE, entry |-> 0, segs |-> <<>>]

\* The machine has halted; something else is about to be written over a frame in use, so
\* that memory is no longer what m says; or the bound is reached: the model stops.
Stopped == (m.spoilt \/ pc = "halted" \/ (pc = "idle" /\ runs = MaxRuns)) /\ UNCHANGED vars

Next ==
  \/ /\ ~m.spoilt /\ UNCHANGED graphics
     /\ \/ vmm_init \/ pmm_use_hhdm \/ BackBuffer \/ SpawnStack
        \/ \E image \in Images : spawn_user_process(image)
        \/ /\ UNCHANGED <<Available, kernel_pml4, back, runs, spilled>>
           /\ \/ MapIdentity \/ MapKernel \/ MapHhdm \/ heap_map_region \/ TextMode \/ vmm_map_mmio
              \/ LoadByte \/ NextSegment \/ elf_load \/ SpawnFails \/ task_reap
  \/ Stopped

Spec == Init /\ [][Next]_vars

-----------------------------------------------------------------------------
\* What the hardware makes of the tables: the frame behind a page with the
\* rights every level grants, or nothing.
RECURSIVE Walk(_, _, _, _, _)
Walk(mm, t, v, level, rights) ==
  LET e == mm.tab[t][Index(v, level)]
      r == rights \cap e.flags
  IN IF ~Present(e) THEN {}
     ELSE IF level = 1 THEN {[frame |-> e.to, rights |-> r]}
     ELSE IF "H" \in e.flags THEN {[frame |-> e.to + Index(v, 1), rights |-> r]}
     ELSE Walk(mm, e.to, v, level - 1, r)
Translate(pml4, v) == Walk(m, pml4, v, 4, {"W", "U"})

Mapped == ~m.spoilt /\ pc \notin {"vmm_init", "identity", "kernel", "hhdm"}    \* vmm_init is over
Booted == ~m.spoilt /\ pc \in {"idle", "load", "failed", "stack", "run"}
Process == {space} \ {0}

\* The entries that lead from a table to a table or a 4 KB page, and their targets.
EntriesOf(T) == {x \in T \X Slots : Present(m.tab[x[1]][x[2]]) /\ "H" \notin m.tab[x[1]][x[2]].flags}
To(E) == {m.tab[x[1]][x[2]].to : x \in E}
Tree(top) ==
  LET l3 == EntriesOf(To(top))
      l2 == EntriesOf(To(l3))
  IN top \cup l3 \cup l2 \cup EntriesOf(To(l2))
KernelTree == Tree(EntriesOf({kernel_pml4}))
UserTree == IF space = 0 THEN {} ELSE Tree({x \in EntriesOf({space}) : x[2] \in UserSlots})

\* As long as the allocator has handed out no frame that was in use at pmm_use_hhdm: each
\* frame it has handed out since is a process's pml4, a frame of the back buffer or reached
\* by exactly one entry of the tables; a process has such frames only; and the rest is free.
\* Whatever was loaded, failed to load or was reaped before, the frames missing are one for
\* each process whose image had a segment on the stack's page, and no others.
FramesAccounted ==
  Booted =>
    LET owned == {x \in KernelTree \cup UserTree : m.tab[x[1]][x[2]].to \in Ram \ m.used}
        held == To(owned) \cup Process \cup back
    IN /\ To(UserTree) \subseteq Available \ m.used
       /\ \A x, y \in owned : m.tab[x[1]][x[2]].to = m.tab[y[1]][y[2]].to => x = y
       /\ To(owned) \cap (Process \cup back) = {} /\ Process \cap back = {}
       /\ held \subseteq Available \ m.free
       /\ Cardinality(Available \ (m.free \cup held)) = spilled

\* From every address space the kernel reaches each frame of RAM at its direct-map address
\* and its own image at KERNEL_VIRT_BASE, writable and closed to Ring 3; after boot video
\* memory and the heap's pages too.  No 4 KB mapping was ever made by walking into a huge
\* page as if it were a table.  vmm_init establishes this; from pmm_use_hhdm on it holds
\* only as long as none of its tables is handed out again.
Direct(s, F) == \A f \in F : Translate(s, HHDM_OFFSET + f) = {[frame |-> f, rights |-> {"W"}]}
KernelVisible ==
  Mapped => ~m.huge /\ \A s \in {kernel_pml4} \cup Process :
    /\ Direct(s, Ram)
    /\ \A k \in 0..KernelFrames[2] - 1 :
          Translate(s, KERNEL_VIRT_BASE + k) = {[frame |-> KernelFrames[1] + k, rights |-> {"W"}]}
    /\ Booted =>
         /\ graphics => Direct(s, FrameBuffer[1]..FrameBuffer[1] + FrameBuffer[2] - 1)
         /\ \A h \in 0..HeapPages - 1 :
               \E x \in Translate(s, HEAP_START + h) : x.frame \in Available \ m.used /\ x.rights = {"W"}

\* What the segments say of a byte: the last one that covers it wins.
Covering(image, va) ==
  {i \in 1..Len(image.segs) : va - image.segs[i].vaddr \in 0..image.segs[i].memsz - 1}
Wanted(image, va) ==
  LET s == image.segs[Max(Covering(image, va))]
      b == va - s.vaddr
  IN IF b < Len(s.file) THEN s.file[b + 1] ELSE 0
UserBytes == 0..USER_SPACE_END - 1

\* A process starts with exactly the pages of its segments and its stack page,
\* all of them its own to write, and with every byte its segments describe,
\* .bss zeroed over whatever the frame held before.  What a segment has on the stack
\* page is not there any more.
ImageLoaded ==
  Booted /\ pc = "run" =>
    LET covered == {va \in UserBytes : Covering(running, va) # {}}
        pages == {va \div PAGE_SIZE : va \in covered} \cup {USER_STACK_VADDR}
    IN /\ \A v \in 0..(USER_SPACE_END \div PAGE_SIZE) - 1 :
            IF v \in pages THEN \E x \in Translate(space, v) : x.rights = {"W", "U"}
                           ELSE Translate(space, v) = {}
       /\ \A va \in covered : va \div PAGE_SIZE # USER_STACK_VADDR => ByteAt(m, space, va) = Wanted(running, va)

CONSTANT Ranges    \* the <<va, len>> the two properties below try

UserByte(va, rights) ==
  va < USER_SPACE_END /\ \E x \in Translate(space, va \div PAGE_SIZE) : rights \subseteq x.rights

\* vmm_user_range_ok accepts a range exactly if the hardware would let Ring 3
\* access each of its bytes in the lower half, at either end of the address space too.
RangeExact ==
  Booted /\ pc = "run" => \A <<va, len>> \in Ranges, write \in BOOLEAN :
    vmm_user_range_ok(m, space, va, len, write) <=>
      \A b \in 0..len - 1 : UserByte(va + b, IF write THEN {"U", "W"} ELSE {"U"})

\* SYS_WRITE prints the whole buffer, chunk after chunk, or nothing at all.
WriteWhole ==
  Booted /\ pc = "run" => \A <<va, len>> \in Ranges :
    LET w == sys_write(m, space, va, len)
    IN IF len <= WRITE_MAX /\ \A b \in 0..len - 1 : UserByte(va + b, {"U"})
         THEN w = [ret |-> "done",
                   out |-> [i \in 1..len |-> LET x == CHOOSE x \in Translate(space, (va + i - 1) \div PAGE_SIZE) : TRUE
                                             IN m.data[x.frame][(va + i - 1) % PAGE_SIZE]]]
         ELSE w.ret \in {"EINVAL", "EFAULT"} /\ w.out = <<>>
=============================================================================
