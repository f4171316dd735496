# TLA+ specifications of RevinixOS

RevinixOS is a monolithic x86-64 kernel for one CPU. Its concurrency is that of
interrupts: the timer (which also switches tasks), the keyboard and the mouse
interrupt the boot context, which runs the shell, and the one process the shell
may have started. Handlers run through interrupt gates, so they do not interrupt
each other. Besides the interrupts there is the hardware, which moves on its own:
the drive, the clock chip, the mouse.

The modules model the parts where that makes a difference, or where an algorithm
is hard to get right at its edges. Model-checking configurations (`MC*.tla`,
`*.cfg`) check them on small instances with TLC; `*_proofs.tla` prove the frame
allocator, the heap, the scheduler, the disk driver, the desktop with the clock,
and the start-up for every instance with TLAPS.
`PROJECT.json` lists components, runs, the source lines of every definition,
hazards and theorems.

## Inventory

| Part | Source | What is state, and who touches it | Module |
|---|---|---|---|
| Frame allocator | `mm/pmm.c` | bitmap, counter; boot context only | `PMM`, `PMM_proofs` |
| Heap | `mm/heap.c` | linked headers; boot context only | `Heap`, `Allocator`, `Heap_proofs` |
| Scheduler | `sched/*` | task list, `current`, kernel stacks, CR3, rsp0, IF; shell, process, timer | `Scheduler`, `Scheduler_frames`, `Scheduler_switch`, `Scheduler_proofs` |
| Paging, ELF, user pointers | `mm/vmm.c`, `user/elf.c`, `main.c`, `mm/uaccess.c`, `syscall/syscall.c` | page tables in frames; boot context, system calls | `Paging` |
| FAT32, VFS, RAM disk, file commands | `fs/*`, `drivers/block.h`, `drivers/ramdisk.c`, `main.c`, `shell.c` | root device, mounted geometry, handles, buffers; boot context, shell | `Fat32` |
| ATA driver | `drivers/ata.c` | poll counters, the drive's registers; boot context and drive | `Ata`, `BlockDevice`, `Ata_proofs` |
| Log, console, keyboard, shell loop | `kprintf.c`, `gfx/fbcon.c`, `drivers/vga.c`, `drivers/keyboard.c`, `shell.c` | ring, screen, both cursors, line latch; shell, keyboard, timer | `Console`, `Screen` |
| Clock chip | `drivers/rtc.c` | two readings; shell and chip | `Rtc`, `Desktop_proofs` |
| Mouse, pointer, taskbar clock | `drivers/mouse.c`, `gfx/gfx.c`, `gui/desktop.c` | packet, position, two buffers; shell, mouse, keyboard | `Desktop`, `Desktop_proofs` |
| Start-up order, interrupt controllers, `mouse_init` | `main.c`, `arch/*`, `drivers/mouse.c` | what is set up, the 8259s, the 8042; boot context, timer, keyboard, mouse | `Boot`, `Boot_proofs` |
| Serial port, boot code before `kmain`, user programs | | | not modelled |

Code without a caller is not modelled: `vmm_unmap_page`, `vmm_unmap_page_in`,
`copy_to_user`, `task_create`, `task_trampoline`, `sched_has_other_runnable`,
`load_program`, `pic_set_mask`.

`BlockDevice` is what `ata.c` promises of a disk, with what it does not promise
spelled out, and `Ata` is shown to implement it; `Allocator` is what callers rely on of the heap. `Screen`
holds the two consoles' character drawing as operators, which `Console` uses both
whole, in the keyboard's handler, and access by access, in the shell.

## How the models correspond to the code

Actions carry the names of the functions they translate; where a function is
several actions, they are named for their part of it. The grain of a step is what
can be observed by whoever may run in between:

- **`Scheduler`**: one memory access of `schedule`, `context_switch`, the append
  in `task_create_user` and `task_reap` per step. A task is its struct and its
  kernel stack, a sequence of activations of `schedule()` with their locals.
  `Tick` pushes an activation whenever interrupts are on. `context_switch` does
  not save the interrupt flag, so a task resumes with the flag of the one it
  replaces. Following a
  garbage pointer, or loading a stack pointer that names no suspended frame, ends
  in `fate = "lost"`. The ghost `hits` remembers which windows of the code a tick
  has landed in: `append` (between the two writes of the append), `stale`
  (between the test for finished tasks and the switch), `torn` (inside the
  switch), and `memory`: a `kmalloc` of `task_create_user` failed, whose result is
  used without a test.
- **`PMM`**: one pass of the placement loop, the filling, and each call is a
  step: only the boot context calls the allocator. `bits` is what `bitmap`
  points at. `pmm_use_hhdm` makes that the bytes at physical address 0, which
  may be anything, because `bitmap_phys` is never assigned.
- **`Heap`**: each call is a step; `hdr` maps the address of each header to its
  fields. `Allocator` has no headers, only the ranges callers hold.
- **`Paging`**: the functions of `vmm.c` are operators from memory to memory; an
  iteration of a loop that boots, loads or reaps is a step. Tables have four
  entries, pages two bytes, and the lower half of the virtual pages is the user's.
  The bitmap `pmm_init` made serves `vmm_init` only. From `pmm_use_hhdm` on, before
  the heap is mapped, frames come from the bytes at address 0 (`LowBytes`), as in
  `PMM`. The ghost `used` is what was in use at that moment; when one of those
  frames is handed out again (a page table of `vmm_init`, the kernel image, or
  frame 0, which is also what `pmm_alloc_frame` returns when nothing is left and
  what its callers use as a frame) `spoilt` is set and the model stops, since memory
  is then written over behind the tables' back. The ghost `spilled` counts the
  processes whose image has a segment on the stack's page: `spawn_user_process`
  maps the stack over it and that frame is never freed.
- **`Fat32`**: one sector per step. A directory entry, a FAT entry and a byte are
  values; names are formatted as `fat32_format_name` does. `kmain` chooses the
  root device, mounts it and looks for its greeting; then the shell lists, prints,
  dumps and runs files, one call after the other, with a buffer from the heap in
  between. `kmalloc(0)` returns NULL, so the `size + 1` of `cat` that wraps to 0
  ends in an error message, and running an empty file reports a lack of memory.
- **`Ata`**: one access to the ports per step, interleaved with the drive, which
  obeys a command when it is not busy and otherwise loses it. Without a drive the
  bus floats and every port reads 0xFF, at which `ata_wait_not_busy` returns.
- **`Console`**: the shell takes a step per memory access in `emit_char`,
  `vga_putc`, `vga_clear` and `keyboard_poll_line`; the handlers run whole.
  `fbcon_putc` is one step because it disables interrupts itself. Ghosts remember
  where a key was echoed: inside `emit_char` (`raced`; the log may then miss a
  character, and in text mode the screen may show another), between the two
  accesses of a backspace (`cut`; the cursor may then leave the screen), and while
  the hardware's cursor was being moved (`lag`).
- **`Boot`**: `kmain` takes a step per call, and a step per poll in `mouse_init`;
  handlers run whole, whenever the interrupt controllers pass their request on.
  The 8042 has one byte of output for keyboard, mouse and its own answers. Its
  line rises when a byte is there, the controllers latch the rise, and
  a byte read by polling leaves the request pending. The ghost `mixed` says that
  `mouse_init` took a key or a movement for an answer (interrupts are off then,
  the keyboard is not), `poked` that an interrupt is left over from a byte it
  took, `slow` that a device answered too late or refused.
- **`Rtc`, `Desktop`**: a step per register read, per drawing call and per half of
  `gfx_present`; `mouse_poll` and `gfx_cursor_set` disable interrupts and are one.

## Runs

| Run | Distinct states | What it shows |
|---|---|---|
| `pmm` | 113,842 | the bitmap is clear of the kernel, the boot information and the module (`BitmapClear`); it and the counter are exact (`BitmapExact`, `CountExact`); frames handed out stay marked (`HeldMarked`) |
| `heap` | 24,070 | the blocks tile the heap (`Tiled`), no two free ones are neighbours (`Coalesced`), freeing everything restores the initial heap (`FreedIsFresh`), and the heap implements `Allocator` (`Implements`) |
| `sched` | 65,811 | bad pointers come only from the `append` and `torn` windows and from a lack of memory (`LostExplained`), a finished task is switched to only from `stale` and `torn` (`ExitHolds`); CR3, rsp0 and `current` agree in Ring 3; `task_reap` leaves nothing dangling; the prompt never sleeps with interrupts off; ready tasks run and the prompt returns |
| `paging` | 15,455 | as long as no frame in use is handed out again (`spoilt`): frames are not shared, and over loads, failed loads and reaps exactly one is lost for each image with a segment on the stack's page (`FramesAccounted`); the kernel reaches RAM, its image, the heap and video memory from every space, and 4 KB mappings never go through a huge page (`KernelVisible`); images are loaded byte for byte; the range check accepts exactly the user's memory; `sys_write` prints all or nothing |
| `fat32` | 9,310 | every command gives its buffer back (`Buffers`), the first live entry is found, a read returns the file or fails and a sound file is read (`ReadRight`), and the prompt returns on circular chains too |
| `ata` | 48,615 | driver and drive implement the block device (`Implements`). Until a command is given up, reads return the sectors asked for over several commands, and a write that succeeds has stored every sector, but for its last one if the drive reported an error. Always, no sector is stored but one that a write named while writes were allowed, and no command leaves the disk; calls return whatever the drive does |
| `console` | 490,778 | the cursor is on the screen and the hardware's with it (`CursorRight`); the log's snapshot and the screen are right unless a key was echoed inside `emit_char`; the shell takes whole lines, and takes every one in time |
| `desktop` | 585,630 | `rtc_read` returns a time the chip had; the pointer is where the movements lead, stays on top of everything drawn, and catches up |
| `boot` | 205,324 | an interrupt finds whatever it uses already set up (`EarlySafe`); `mouse_init` succeeds when the devices answer and nothing else is sent, and then both devices interrupt (`MouseEnabled`); keys are typed once and in order (`TypedRight`); no byte blocks the 8042 for ever; `kmain` reaches the shell whatever the devices do |

Three runs are expected to fail, each on a sentence of a comment:

| Run | Property | What happens |
|---|---|---|
| `pmm_module` | `ModuleKept` | after `pmm_use_hhdm` a frame of the boot module is handed out (`pmm.c:33,203`) |
| `sched_exit` | `ExitIsForGood` | a tick in the `stale` window lets a process exit before `yield` switches to it: the code after `task_exit`'s `schedule()` runs |
| `ata_commit` | `WriteCommitted` | the cache flush is sent before the drive has taken the last sector and its outcome is not read |

The passing runs state what holds besides: their properties name the windows
(`hits`, `spoilt`, `raced`, `cut`, `lag`, `mixed`, `poked`, `slow`, `late`, `failed`)
outside which nothing goes wrong. What happens inside them, as far as the models
show:

- After `pmm_use_hhdm` the allocator may hand out a frame in use, a page table or
  frame 0 among them; whether it does depends on the bytes at address 0.
  `FramesAccounted`, `KernelVisible` and the rest of `paging` are claimed up to that
  step. The finding on `pmm_module` is about its cause.
- A write whose last sector fails returns 0: `ata_write` does not look at the drive's
  error after the last word (`failed`). The other sectors are stored, and nothing
  else is.
- A key echoed after `emit_char` has read its index and before it has stored the
  incremented one costs a character of the log.
- A key pressed during `mouse_init`'s dialogue can be taken for the configuration
  byte or for an acknowledgement; what is then written back to the controller may
  turn the keyboard's interrupt off.
- A mouse that answers after `mouse_init` has given up fills the controller's
  output: IRQ12 is masked, nobody reads the byte, and the keyboard is blocked
  behind it. `BytesRead` excepts this case.
- The interrupt left over from a byte `mouse_init` took can make the keyboard's
  handler take a byte of the mouse's for a key. No key is typed twice by it.
- The driver cannot tell the late data of a disk command it gave up from the
  answer to its next one.

### Bounds

- `pmm`: 7 frames, a memory with a hole and an unaligned end, and boot information
  and module on either side of the kernel in either order, so that one move of the
  bitmap causes another. The bitmap fits one frame (`IsBootInfo`), as on the
  128 MB machine of the Makefile. An allocation that finds no frame changes nothing,
  so a behaviour may stop when nothing is free and nothing held, and deadlock is not
  checked.
- `heap`: up to five blocks, requests on both sides of an alignment boundary, of
  the split threshold and of the whole heap.
- `sched`: two addresses for process structs, so that one is reused while stale
  pointers to it could exist, and kernel stacks of four activations. A tick in the
  handler's own `schedule()` is impossible, so deeper stacks repeat windows
  already reached. The system may halt, so deadlock is not checked.
- `paging`: 35 frames and four processes; RAM and video memory not aligned to a
  huge page; images with segments that share a page, cross tables, lie on the stack's
  page, are all .bss, or have entry point 0. Three memories (tables at the bottom, at
  the top, and too little for them) meet four contents of address 0: all that is in
  use is marked, hardly anything is free, frames in use look free, and no two free
  frames are neighbours, so that a back buffer of two frames is not found.
- `fat32`: clusters 2 to 7, guards of three, two failing sectors, a heap smaller
  than the largest file, sizes of five bits so that `size + 1` wraps.
- `ata`: four sectors, two per command, two calls, two polls. Behaviours end with
  the last call, so deadlock is not checked.
- `console`: a ring of three characters, a screen of two rows of three, lines of
  two characters, and four events: keys pressed and characters the shell prints,
  newline, carriage return, backspace and tab among them.
  That is enough to overwrite the ring, to wrap, to scroll, to overtake a line
  that is being taken, and for two keys inside one character. Behaviours end at
  the bound, so deadlock is not checked.
- `boot`: two polls, one stale byte, two keys and two bytes from the mouse; ticks
  are not bounded.
- `desktop`: four by two pixels, two movements, one echoed character, two updates
  of the chip, one lost byte of a mouse packet. At most one update falls into any
  three readings of the clock (an update a second, a reading well below a
  millisecond), and it ends before `read_raw` runs out of polls, unless the chip
  is broken.

### Fairness

- `sched`: the CPU executes kernel code (`WF(KernelStep)`), the PIT fires
  (`WF(Tick)`), and since a tick's handler is shorter than a tick's period, what it
  interrupts advances too (`SF(KernelStep /\ Top.ret # "irq")`). Nothing makes a
  process exit or a user type.
- `fat32`: a call that has begun goes on, and a command goes on to its next call.
  `ata`: the driver goes on; the drive need not.
- `console`: the shell goes on, and the timer ends `hlt` (`WF(Shell \/ Tick)`:
  never are both possible). Nobody need type.
- `boot`: `kmain` goes on, the controller takes its input in the end, a pending
  timer interrupt is served, and since its handler is shorter than its period the
  keyboard's and the mouse's get their turn (`SF`). Neither device need answer.
- `desktop`: `desktop_tick` goes on, and a chip that is not broken ends its
  update.

## Proofs

`PMM_proofs` (assumptions: positive frame size and bitmap width; boot information
as `IsBootInfo` says, which is what `pmm_init` relies on without a test):
`PMMTypes`, `PMMPlacement`, `PMMBitmapExact`, `PMMCountExact`, `PMMHeldMarked`.
The inductive invariant adds to the checked properties where the placement loop
can be: just behind the kernel, the boot information or the module. From that it
follows that the bitmap lies in memory it covers, and that the loop's last pass,
which moved nothing, overlapped nothing. The counter is exact because reserved
frames, those handed out before the switch and those after it are counted as
three sets, which may overlap after the switch because the bitmap then no longer
knows of the first two.

`Heap_proofs` (assumption: header and heap sizes are multiples of 8, the heap
has room for a header and 8 bytes): `HeapTypes`, `HeapTiled`, `HeapCoalesced`,
`HeapFreedIsFresh`, `HeapImplements`. `TypeOK /\ Tiled /\ Coalesced` is inductive.
Tiling is needed for the merges, which trust `next` and `prev` to be the
neighbours in memory; that no two free blocks are neighbours is needed so that
one merge on each side is enough. Lemmas say what a split and a merge do to a
well-formed list; disjointness of granted ranges follows from tiling, and with it
the step-by-step refinement of `Allocator`.

`Ata_proofs` (assumption: a disk with sectors, commands of at least one sector, at
least one poll): `AtaInductive` and `AtaImplements`, that is `Spec => Implements`
with nothing left out but fairness. The invariant has two layers. Whatever was
given up, the drive's command lies on the disk and a sector moves only while the
drive asks for one (`DriveInside`), and the driver has issued the open request
chunk by chunk within the disk (`Issued`). The block device's `span` and `pending`
are the sectors of the drive's command it has yet to move, and those it may yet
store: what a drive that comes back late can still touch. As long as nothing was given
up, drive and driver are also at the same sector of the same command (`InStep`),
what was read is what the sectors hold, and what was written is in the cache but
for the sector the drive is storing or has failed on (`Transferred`). A command
given up must leave this layer for good, since the drive may come back with its
data at any later time; the lemma `GivenUp` shows that after every other failure
the drive is at rest or reports an error, and takes the next command.

`Scheduler_proofs` (assumption: tasks, NULL and garbage are told apart, and a kernel
stack has room for three activations): `SchedulerInductive`,
`SchedulerLostExplained`, `SchedulerNoDangling`, `SchedulerExitHolds`,
`SchedulerRingThree`, `SchedulerPromptAwake`. `Scheduler_frames` has the invariant
`Core` and what a step of `schedule` does to an activation, `Scheduler_switch` the
steps, returns and stack switches of `schedule`. `Core` says, for each place the CPU
can be in, what the two stacks hold and whom `current`, CR3, rsp0 and the saved stack
pointers name: the shell runs and the process is suspended (`OnBoot`), or the other
way round (`OnProc`); one process at most is alive (`Live`) and in the circle
(`Links`). A tick inside the switch breaks that order, since its own `schedule` starts
with `current` changed and the stack not. Four shapes bound what it can leave: the
tick's activation leading back to the shell (`Undoing`), the interrupted one it
returns to (`Messed`), a second tick on top of that (`Again`), and the process on the
CPU while the scheduler believes in the shell (`Zombie`). They are what `NoDangling`
and `PromptAwake` rest on, which have no exception.

`Desktop_proofs` (assumptions: a screen that is not empty, with the console and the clock
on it; integer movements; a chip that counts at most sixty seconds, and at least one
poll):
`DesktopInductive`, `DesktopMouseRight`, `DesktopPointerOnTop`, `DesktopTimeRight`.
There are three invariants, one for each part. `MouseInv`: the bytes of a movement
that the driver has and those still to come make up the movement, unless one was
lost. `ScreenInv`: what the back buffer and the screen hold at each drawing call, and
whether the pointer is on the screen at that moment. `RtcInv`: a reading torn
by an update is followed by one that no update can tear, so that at the comparison
one of the two is whole.

`Boot_proofs` (assumption: the bounds are natural numbers): `BootInductive`,
`BootEarlySafe`, `BootTypedRight`, `BootMouseEnabled`, whatever the number of polls,
stale bytes, keys and reports. The invariant has three parts besides `TypedRight`.
`Order` ties the place in `kmain` to what is set up and to the masks. `Fresh` is
what makes a handler that reads without looking at the status harmless: a key in
the output buffer is the newest and not typed yet; the byte read last, which an
empty buffer gives again, is newer than every typed key while a request of the
keyboard's has no byte; and such a request is one `mouse_init` left over. `Spoken`
follows the dialogue. As long as no byte was mixed up and no device late, the
controller at each of the fifteen places has been told, has obeyed or has answered
exactly what that place needs, nothing interrupts it, and the configuration
`mouse_init` holds is the controller's; giving up then needs a device that is late
or refuses.

Only model-checked: all liveness properties, and everything about `Paging`,
`Fat32` and `Console`. These three state what is right with recursive operators (the
screen's rows, a cluster chain, a walk of the tables), which puts them out of
TLAPS's reach in this form.

## Not modelled

- Register contents over an interrupt or a context switch, the TLB, the bits of
  descriptor tables: no property here tells them apart.
- The formatting of `kprintf`, fonts and clipping, `console_write`, `vga_print_at` (one line at a fixed place, at boot) and
  `fbcon_write_at` (not reached), `dmesg`'s paging over its snapshot, and commands
  that only print.
- `disk_test` in `main.c`, which is not part of the default build and writes and
  reads back one sector through calls `Ata` has.
- The serial port (pure output) and `boot.asm` (straight-line code with interrupts
  off, of which `kmain` is handed the result); the walk over the Multiboot2 tags.
- What memory becomes after a frame in use has been handed out again, or NULL has
  been taken for a task: the models stop there or call the system lost.
- `boot` ends `kmain`'s order at the shell without `ata_init` and the mounting of the
  volume, which wait on the drive with bounded polls: that those calls return is
  shown by the runs `ata` and `fat32`.
- Processes: they make any system call at any time.

## Plan

1. Compose `Paging` with `PMM`, whose allocator it repeats on sets of frames, and
   show that the one is implemented by the other.
2. An abstract read-only file system (name to contents) refined by `Fat32` on
   sound volumes.
