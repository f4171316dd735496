------------------------------- MODULE Fat32 --------------------------------
(***************************************************************************)
(* The read-only file system and the commands that use it: fs/fat32.c,     *)
(* fs/vfs.c, the block devices (drivers/block.h, ramdisk.c), kmain's       *)
(* choice and use of the root device (main.c), ls, cat, hexdump and run    *)
(* (shell.c).                                                              *)
(*                                                                         *)
(* A call (walk, list, open or read) follows a chain of clusters, one      *)
(* sector per step; a command makes one call after the other, with a       *)
(* buffer from the heap in between.  The disk does not change, but it may  *)
(* be damaged, and an ATA disk may fail any single sector.  A sector is a  *)
(* sequence: of SECTOR bytes, of FAT entries, or of directory entries.     *)
(***************************************************************************)
EXTENDS Integers, Sequences, SequencesExt, FiniteSets, FiniteSetsExt

CONSTANTS
  Disks,        \* functions from 0..n-1 to sectors, sector 0 a BPB
  Names,        \* the names the user asks for
  HELLO,        \* the one kmain asks for
  SECTOR,       \* ATA_SECTOR_SIZE
  PER_FAT,      \* FAT entries in a sector
  BASE,         \* characters of a base name; the extension follows
  EOC, MASK,    \* FAT32_EOC, and 2^28
  LBA_RANGE,    \* 2^32, for sector numbers
  SIZE_RANGE,   \* 2^32, for sizes
  HEAP_MAX,     \* the largest buffer the heap has
  DIR_GUARD, FILE_GUARD,
  MaxFaults     \* bound: sectors the device fails

VARIABLES
  media,        \* the boot module ("none", "small" or "usable"), and whether ata_init succeeded
  dev, disk,    \* root_dev: "none", "ram0" or "ata0", and its sectors
  fs,           \* g_fs and mounted_fs: the geometry fat32_init computed
  mounted,
  cmd,          \* kmain's "boot", "prompt", "ls", "cat", "hexdump" or "run"
  call,         \* the call it is in, or what it does next
  name,         \* what is looked for
  at,           \* the walk: cluster, sector in it, clusters behind it
  file,         \* the handle: valid, start_cluster, size
  held,         \* the size of the buffer kmalloc gave; 0 without one
  buf,          \* the bytes copied so far, or the names listed
  ret,          \* what the last call returned
  faults, hit   \* sectors failed so far; ghost: one of them in this command

device == <<media, dev, disk>>
vars == <<device, fs, mounted, cmd, call, name, at, file, held, buf, ret, faults, hit>>

-----------------------------------------------------------------------------
\* block_read: the sector, or failure outside the device or when the device fails.
\* ramdisk_read never does.
InDevice(lba) == lba \in DOMAIN disk
Reads(lba) == InDevice(lba) /\ UNCHANGED <<faults, hit>>
Fails(lba) ==
  \/ ~InDevice(lba) /\ UNCHANGED <<faults, hit>>
  \/ InDevice(lba) /\ dev = "ata0" /\ faults < MaxFaults /\ faults' = faults + 1 /\ hit' = TRUE

Lba(cluster, s) == (fs.data_start_lba + (cluster - 2) * fs.sectors_per_cluster + s) % LBA_RANGE

FatLba(cluster) == fs.fat_start_lba + (cluster \div PER_FAT)
FatEntry(sector, cluster) == sector[(cluster % PER_FAT) + 1] % MASK

InChain(cluster) == cluster >= 2 /\ cluster < EOC

\* fat32_format_name: both parts up to their padding, with a dot if there is an extension.
UpToSpace(s) ==
  LET n == CHOOSE k \in 0..Len(s) :
             (k = Len(s) \/ s[k + 1] = " ") /\ \A i \in 1..k : s[i] # " "
  IN SubSeq(s, 1, n)
fat32_format_name(n) ==
  LET ext == SubSeq(n, BASE + 1, Len(n))
  IN UpToSpace(SubSeq(n, 1, BASE)) \o IF ext[1] = " " THEN <<>> ELSE <<".">> \o UpToSpace(ext)

-----------------------------------------------------------------------------
NoFile == [valid |-> FALSE, start_cluster |-> 0, size |-> 0]
Start(cluster) == [cluster |-> cluster, s |-> 0, guard |-> 0]

Init ==
  /\ media \in {"none", "small", "usable"} \X BOOLEAN /\ dev = "none" /\ disk \in Disks
  /\ fs = [fat_start_lba |-> 0, data_start_lba |-> 0, sectors_per_cluster |-> 0, root_cluster |-> 0]
  /\ mounted = FALSE /\ cmd = "boot" /\ call = "device" /\ name = HELLO
  /\ at = Start(0) /\ file = NoFile /\ held = 0 /\ buf = <<>> /\ ret = 0 /\ faults = 0 /\ hit = FALSE

Prompt == cmd' = "prompt" /\ call' = "none"

\* The boot module is used as a RAM disk if it has a sector; otherwise the ATA disk, if
\* there is one.
ramdisk_init == media[1] = "usable"
ata_blockdev == media[2]
root_dev ==
  /\ call = "device"
  /\ dev' = (IF ramdisk_init THEN "ram0" ELSE IF ata_blockdev THEN "ata0" ELSE "none")
  /\ IF dev' = "none" THEN Prompt ELSE call' = "init" /\ cmd' = cmd
  /\ UNCHANGED <<media, disk, fs, mounted, name, at, file, held, buf, ret, faults, hit>>

\* fat32_init
BpbOk(b) ==
  b.signature /\ b.root_entry_count = 0 /\ b.fat_size_16 = 0 /\ b.bytes_per_sector = SECTOR
fat32_init ==
  /\ call = "init"
  /\ \/ /\ Reads(0) /\ BpbOk(disk[0])
        /\ fs' = [fat_start_lba |-> disk[0].reserved_sectors,
                  data_start_lba |-> disk[0].reserved_sectors + disk[0].num_fats * disk[0].fat_size_32,
                  sectors_per_cluster |-> disk[0].sectors_per_cluster,
                  root_cluster |-> disk[0].root_cluster]
        /\ call' = "walk" /\ cmd' = cmd /\ at' = Start(disk[0].root_cluster)
     \/ /\ \/ Reads(0) /\ ~BpbOk(disk[0])
           \/ Fails(0)
        /\ Prompt /\ UNCHANGED <<fs, at>>
  /\ UNCHANGED <<device, mounted, name, file, held, buf, ret>>

-----------------------------------------------------------------------------
\* A call begins, and returns to what its caller does next.
Begin(c, cluster) == call' = c /\ at' = Start(cluster) /\ buf' = <<>>
Done(c) == CASE c = "walk" -> "mount" [] c = "list" -> "listed" [] c = "open" -> "opened" [] c = "read" -> "use"
Return(r) == call' = Done(call) /\ ret' = r

\* kmain, once it has followed the root directory's chain.
vfs_mount ==
  /\ call = "mount" /\ mounted' = TRUE /\ Begin("list", fs.root_cluster)
  /\ UNCHANGED <<device, fs, cmd, name, file, held, ret, faults, hit>>

\* The user's commands; on a system without file system they end here.
Command(c, n) ==
  /\ cmd = "prompt" /\ c \in {"ls", "cat", "hexdump", "run"} /\ (c = "ls" => n = HELLO) /\ name' = n
  /\ hit' = FALSE /\ file' = NoFile
  /\ \/ mounted /\ cmd' = c /\ Begin(IF c = "ls" THEN "list" ELSE "open", fs.root_cluster)
     \/ ~mounted /\ Prompt /\ UNCHANGED <<at, buf>>
  /\ UNCHANGED <<device, fs, mounted, held, ret, faults>>

\* kmain goes on to look for its file; ls is done.
Listed ==
  /\ call = "listed"
  /\ \/ cmd = "boot" /\ Begin("open", fs.root_cluster) /\ cmd' = cmd
     \/ cmd = "ls" /\ Prompt /\ UNCHANGED <<at, buf>>
  /\ UNCHANGED <<device, fs, mounted, name, file, held, ret, faults, hit>>

\* What the commands ask of kmalloc.
Wanted(c, size) ==
  CASE c = "cat" -> (size + 1) % SIZE_RANGE [] c = "hexdump" -> Max({size, 1}) [] OTHER -> size

\* fat32_read_file begins; it refuses a buffer smaller than the file.
fat32_read_file(buf_size) ==
  IF buf_size < file.size THEN call' = "use" /\ ret' = -1 /\ UNCHANGED <<at, buf>>
  ELSE Begin("read", file.start_cluster) /\ ret' = ret

\* The file was opened, or there is none.  kmalloc gives nothing for nothing.  What the
\* commands pass as the buffer's size is the file's, whatever they asked kmalloc for.
Opened ==
  LET n == Wanted(cmd, file.size)
  IN /\ call = "opened"
     /\ \/ ret # 0 /\ Prompt /\ UNCHANGED <<held, at, buf, ret>>
        \/ ret = 0 /\ Prompt /\ UNCHANGED <<held, at, buf, ret>>
        \/ ret = 0 /\ n \in 1..HEAP_MAX /\ held' = n /\ fat32_read_file(file.size) /\ cmd' = cmd
     /\ UNCHANGED <<device, fs, mounted, name, file, faults, hit>>

\* A conversion to int, as in the commands' comparison with what vfs_read returned.
ToInt(n) == IF n >= SIZE_RANGE \div 2 THEN n - SIZE_RANGE ELSE n
Complete == ret = ToInt(file.size)

\* Mutant: a command that cannot read its file forgets the buffer.
UseOrForget ==
  /\ call = "use" /\ Prompt /\ held' = (IF Complete THEN 0 ELSE held)
  /\ UNCHANGED <<device, fs, mounted, name, at, file, buf, ret, faults, hit>>

\* The command prints or starts what it has read, if it is complete; the buffer is freed.
Use ==
  /\ call = "use" /\ Prompt /\ held' = 0
  /\ UNCHANGED <<device, fs, mounted, name, at, file, buf, ret, faults, hit>>

\* Mutant: the bytes copied are not compared with the size.
ResultUnchecked == file.size

\* What a read returns when its loop ends.
Result == IF Len(buf) = file.size THEN file.size ELSE -1

\* The loop ends: the chain has, or the file is complete.
Calls == {"walk", "list", "open", "read"}
FileDone == call = "read" /\ Len(buf) >= file.size
ChainEnds ==
  /\ call \in Calls
  /\ at.s = 0 /\ (~InChain(at.cluster) \/ FileDone)
  /\ Return(CASE call = "open" -> -1 [] call = "read" -> Result [] OTHER -> 0)
  /\ UNCHANGED <<device, fs, mounted, cmd, name, at, file, held, buf, faults, hit>>

Walking(c) == call = c /\ InChain(at.cluster) /\ at.s < fs.sectors_per_cluster /\ ~FileDone

\* A directory entry that names something; where a directory ends.
Live(e) == e.kind = "file"
UpToEnd(sector) ==
  LET ends == {i \in 1..Len(sector) : sector[i].kind = "end"}
  IN IF ends = {} THEN sector ELSE SubSeq(sector, 1, Min(ends) - 1)
Ends(sector) == \E i \in 1..Len(sector) : sector[i].kind = "end"

\* One sector of the root directory, listed.
ListSector ==
  LET sector == disk[Lba(at.cluster, at.s)]
      live == SelectSeq(UpToEnd(sector), Live)
  IN /\ Walking("list") /\ Reads(Lba(at.cluster, at.s))
     /\ buf' = buf \o [i \in 1..Len(live) |-> fat32_format_name(live[i].name)]
     /\ IF Ends(sector) THEN Return(0) /\ at' = at
        ELSE at' = [at EXCEPT !.s = @ + 1] /\ UNCHANGED <<call, ret>>
     /\ UNCHANGED <<device, fs, mounted, cmd, name, file, held>>

\* Mutant: deleted entries are searched too.
Undeleted(sector) == SelectSeq(UpToEnd(sector), LAMBDA e : e.kind \in {"file", "deleted"})

Searched(sector) == SelectSeq(UpToEnd(sector), Live)

\* One sector of the root directory, searched for name.
FindSector ==
  LET sector == disk[Lba(at.cluster, at.s)]
      found == SelectSeq(Searched(sector), LAMBDA e : fat32_format_name(e.name) = name)
  IN /\ Walking("open") /\ Reads(Lba(at.cluster, at.s))
     /\ \/ /\ found # <<>>
           /\ file' = [valid |-> TRUE, start_cluster |-> found[1].start, size |-> found[1].size]
           /\ Return(0) /\ at' = at
        \/ found = <<>> /\ Ends(sector) /\ Return(-1) /\ UNCHANGED <<at, file>>
        \/ /\ found = <<>> /\ ~Ends(sector) /\ at' = [at EXCEPT !.s = @ + 1]
           /\ UNCHANGED <<call, ret, file>>
     /\ UNCHANGED <<device, fs, mounted, cmd, name, held, buf>>

\* What fat32_read_file takes from a sector: no more than the file has left.
Take(sector) == SubSeq(sector, 1, Min({file.size - Len(buf), SECTOR}))

ReadSector ==
  /\ Walking("read") /\ Reads(Lba(at.cluster, at.s))
  /\ buf' = buf \o Take(disk[Lba(at.cluster, at.s)])
  /\ at' = [at EXCEPT !.s = @ + 1]
  /\ UNCHANGED <<device, fs, mounted, cmd, call, name, file, held, ret>>

\* A data or directory sector that cannot be read ends the call.
SectorFails ==
  /\ \E c \in {"list", "open", "read"} : Walking(c)
  /\ Fails(Lba(at.cluster, at.s))
  /\ Return(IF call = "list" THEN 0 ELSE -1)
  /\ UNCHANGED <<device, fs, mounted, cmd, name, at, file, held, buf>>

\* The clusters a walk may follow.
Guard(c) == IF c = "read" THEN FILE_GUARD ELSE DIR_GUARD

\* Mutant: the count starts again with every cluster.
CountAgain(guard) == 1

Count(guard) == guard + 1

\* The cluster is done: follow the FAT, within the guard.
fat32_next_cluster ==
  /\ call \in Calls /\ InChain(at.cluster)
  /\ call = "walk" \/ at.s = fs.sectors_per_cluster \/ FileDone
  /\ ~(at.s = 0 /\ FileDone)
  /\ \E next \in 0..MASK - 1 :
       /\ \/ Reads(FatLba(at.cluster)) /\ next = FatEntry(disk[FatLba(at.cluster)], at.cluster)
          \/ Fails(FatLba(at.cluster)) /\ next = 0
       /\ at' = [cluster |-> next, s |-> 0, guard |-> Count(at.guard)]
  /\ IF Count(at.guard) > Guard(call) THEN Return(IF call \in {"walk", "list"} THEN 0 ELSE -1)
     ELSE UNCHANGED <<call, ret>>
  /\ UNCHANGED <<device, fs, mounted, cmd, name, file, held, buf>>

Step == \/ root_dev \/ fat32_init \/ vfs_mount \/ Listed \/ Opened \/ Use
        \/ ChainEnds \/ ListSector \/ FindSector \/ ReadSector \/ SectorFails \/ fat32_next_cluster
Next == Step \/ \E c \in {"ls", "cat", "hexdump", "run"}, n \in Names \cup {HELLO} : Command(c, n)

\* What kmain or a command has begun goes on.
Spec == Init /\ [][Next]_vars /\ WF_vars(Step)

-----------------------------------------------------------------------------
\* What is on the disk, by the layout of the format rather than by walking it.

Bpb == disk[0]
DataStart == Bpb.reserved_sectors + Bpb.num_fats * Bpb.fat_size_32
Fat(c) == disk[Bpb.reserved_sectors + c \div PER_FAT][(c % PER_FAT) + 1] % MASK
IsCluster(c) == c >= 2 /\ DataStart + (c - 1) * Bpb.sectors_per_cluster <= Cardinality(DOMAIN disk)

RECURSIVE Chain(_, _)
Chain(c, fuel) ==
  IF fuel = 0 \/ ~IsCluster(c) THEN <<>> ELSE <<c>> \o Chain(Fat(c), fuel - 1)
Content(c) ==
  FlattenSeq([s \in 1..Bpb.sectors_per_cluster |-> disk[DataStart + (c - 2) * Bpb.sectors_per_cluster + s - 1]])
Contents(chain) == FlattenSeq([i \in 1..Len(chain) |-> Content(chain[i])])

\* The chain from c reaches an end-of-chain mark after at most n clusters.
Sound(c, n) ==
  LET chain == Chain(c, n) IN IF chain = <<>> THEN c >= EOC ELSE Fat(Last(chain)) >= EOC

Directory == SelectSeq(UpToEnd(Contents(Chain(Bpb.root_cluster, DIR_GUARD + 1))), Live)
Matches == SelectSeq(Directory, LAMBDA e : fat32_format_name(e.name) = name)
Needed == (file.size + SECTOR * Bpb.sectors_per_cluster - 1) \div (SECTOR * Bpb.sectors_per_cluster)

Ended(c) == call = c /\ call' # c

\* fat32_find: what is found is the first live entry of that name, whatever
\* sectors fail; and unless a sector fails or the chain is damaged or too long,
\* a file that is there is found.
FindsFirst ==
  [][Ended("open") =>
       /\ ret' = 0 => /\ Matches # <<>>
                      /\ file' = [valid |-> TRUE, start_cluster |-> Matches[1].start, size |-> Matches[1].size]
       /\ Matches # <<>> /\ ~hit' /\ Sound(Bpb.root_cluster, DIR_GUARD) => ret' = 0]_vars

\* A command prints or starts a buffer only if it holds exactly the bytes of the file: a
\* chain that breaks off, a lost sector and a damaged FAT are all noticed, never papered
\* over.  And it does, if no sector fails and the file has at most FILE_GUARD sound clusters.
ReadRight ==
  [][call = "use" =>
       LET chain == Chain(file.start_cluster, Needed)
           whole == Len(chain) = Needed
       IN /\ Complete => whole /\ buf = SubSeq(Contents(chain), 1, file.size)
          /\ ~hit /\ whole /\ Needed <= FILE_GUARD => Complete]_vars

\* What is copied fits the buffer, with the end that cat adds to it and a size that wraps
\* around; and nobody is back at the prompt with a buffer still allocated.
Buffers ==
  /\ call \in {"read", "use"} => Len(buf) + (IF cmd = "cat" THEN 1 ELSE 0) <= held
  /\ cmd = "prompt" => held = 0

\* kmain and every command come to the prompt, also on a chain that runs in a circle.
PromptReturns == cmd # "prompt" ~> cmd = "prompt"
=============================================================================
