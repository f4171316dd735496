-------------------------------- MODULE Ata ---------------------------------
(***************************************************************************)
(* The ATA PIO driver (drivers/ata.c) and the drive it talks to.           *)
(*                                                                         *)
(* The driver polls the status register a bounded number of times and then *)
(* gives up; the drive answers when it likes, if it does.  Each step of    *)
(* the driver is one access to the ports, each step of the drive a change  *)
(* of its status, and they interleave freely.  A sector is a value; sector *)
(* n of the medium is Sector(n) until it is written.                       *)
(*                                                                         *)
(* The drive is external: it obeys a command when it is at rest or has     *)
(* failed; one sent while it is busy or has data pending is lost on it.    *)
(***************************************************************************)
EXTENDS Integers, Sequences

CONSTANTS
  ATA_TIMEOUT,     \* status polls before the driver gives up
  Kinds,           \* what may be attached: see ata_init
  Sectors,         \* the medium's size, ata_sectors
  MaxLba,          \* bound: requests name sectors 0..MaxLba
  MaxCount,        \* bound: and count sectors of 0..MaxCount
  PER_COMMAND,     \* 255: what one ata_read takes
  New,             \* what ata_write writes
  MaxCalls         \* bound: calls made after ata_init

ASSUME AtaAssumption ==
  /\ ATA_TIMEOUT \in Nat \ {0} /\ Sectors \in Nat \ {0} /\ PER_COMMAND \in Nat \ {0} /\ New \notin 0..Sectors
  /\ MaxLba \in Nat /\ MaxCount \in Nat

VARIABLES
  kind,            \* what is attached
  drive,           \* its status st, and the command it is executing
  medium,          \* what is committed
  cache,           \* what the drive's write cache holds on top of it
  present,         \* ata_present
  allowed,         \* ata_writes_ok
  pc, i,           \* where the driver is, and its poll counter
  req,             \* the call: op, and the lba and count of the whole request
  part,            \* the ata_read or ata_write in progress: lba, count, s
  out,             \* the sectors read so far
  ret, calls,
  late,            \* ghost: the driver has given up on a command
  failed           \* ghost: the drive has reported an error in this call

vars == <<kind, drive, medium, cache, present, allowed, pc, i, req, part, out, ret, calls, late, failed>>
driverVars == <<present, req, part, out, ret, calls>>

Sector(n) == n
Idle == [st |-> "rest", cmd |-> "none", lba |-> 0, left |-> 0, got |-> FALSE]

Init ==
  /\ kind \in Kinds
  /\ drive = Idle /\ medium = [n \in 0..Sectors - 1 |-> Sector(n)]
  /\ cache = medium
  /\ present = FALSE /\ allowed = FALSE /\ pc = "init" /\ i = 0 /\ calls = 0 /\ late = FALSE /\ failed = FALSE
  /\ req = [op |-> "init", lba |-> 0, count |-> 0] /\ part = [lba |-> 0, count |-> 0, s |-> 0]
  /\ out = <<>> /\ ret = 0

-----------------------------------------------------------------------------
\* External: the drive.

\* A command reaches the drive, or is lost on one that is at work or not there.
Command(c, lba, count) ==
  drive' = IF drive.st \in {"busy", "drq", "off"} THEN drive
           ELSE [st |-> "busy", cmd |-> c, lba |-> lba, left |-> count, got |-> FALSE]

\* Done with a sector it was given: it asks for the next one, rests, or fails.
Stored == IF drive.got THEN [cache EXCEPT ![drive.lba - 1] = New] ELSE cache
DriveReady ==
  /\ drive.st = "busy"
  /\ \/ /\ drive.cmd # "flush"
        /\ drive' = [drive EXCEPT !.st = IF drive.left > 0 THEN "drq" ELSE "rest", !.got = FALSE]
        /\ cache' = Stored /\ UNCHANGED <<medium, failed>>
     \/ /\ drive.cmd = "flush" /\ drive' = [drive EXCEPT !.st = "rest"] /\ medium' = cache
        /\ UNCHANGED <<cache, failed>>
     \/ /\ drive' = [drive EXCEPT !.st = "err", !.got = FALSE] /\ failed' = TRUE
        /\ UNCHANGED <<medium, cache>>
  /\ UNCHANGED <<kind, allowed, pc, i, late, driverVars>>

\* A sector moves through the data port; the drive goes on with the next.
Moved ==
  [drive EXCEPT !.st = IF drive.cmd # "write" /\ drive.left = 1 THEN "rest" ELSE "busy",
                !.lba = @ + 1, !.left = @ - 1, !.got = (drive.cmd = "write")]

-----------------------------------------------------------------------------
\* The driver.

Finish(r) ==
  /\ ret' = r /\ pc' = "idle" /\ i' = 0
  /\ late' = (late \/ (r < 0 /\ drive.st \in {"busy", "drq"}))

\* ata_init up to the IDENTIFY command: nothing attached gives itself away.  When only the
\* master is missing the bus may begin to float once it is selected.
ata_init ==
  /\ pc = "init"
  /\ IF kind \in {"floating", "no drive"} THEN Finish(-1) /\ UNCHANGED drive
     ELSE /\ IF kind = "no master" THEN drive' = [drive EXCEPT !.st = "off"] ELSE Command("identify", 0, 1)
          /\ pc' = "wait" /\ i' = 0 /\ UNCHANGED <<ret, late>>
  /\ UNCHANGED <<kind, allowed, failed, medium, cache, present, req, part, out, calls>>

\* The 256 words of IDENTIFY: a disk without LBA, or without sectors, is not used.
Identified ==
  /\ pc = "data" /\ req.op = "init"
  /\ present' = (kind = "disk")
  /\ drive' = [drive EXCEPT !.st = "rest"]
  /\ Finish(IF kind = "disk" THEN 0 ELSE -1)
  /\ UNCHANGED <<kind, allowed, failed, medium, cache, req, part, out, calls>>

ata_check(lba, count) == present /\ count # 0 /\ lba < Sectors /\ count <= Sectors - lba

\* ata_setup and the command, for one ata_read or ata_write.
Issue(op, lba, count) ==
  /\ part' = [lba |-> lba, count |-> count, s |-> 0]
  /\ IF (op = "write" => allowed) /\ ata_check(lba, count)
       THEN Command(op, lba, count) /\ pc' = "wait" /\ i' = 0 /\ UNCHANGED <<ret, late>>
       ELSE Finish(-1) /\ UNCHANGED drive

Chunk(count) == IF count > PER_COMMAND THEN PER_COMMAND ELSE count

\* ata_block_read starts its first command, ata_write its only one.
Call(op, lba, count) ==
  /\ pc = "idle" /\ calls < MaxCalls /\ calls' = calls + 1
  /\ req' = [op |-> op, lba |-> lba, count |-> count] /\ out' = <<>>
  /\ Issue(op, lba, IF op = "read" THEN Chunk(count) ELSE count)
  /\ failed' = FALSE /\ UNCHANGED <<kind, allowed, medium, cache, present>>
ata_read == \E lba \in 0..MaxLba, count \in 1..MaxCount : Call("read", lba, count)
ata_write == \E lba \in 0..MaxLba, count \in 0..PER_COMMAND : Call("write", lba, count)
ata_allow_writes ==
  /\ pc = "idle" /\ allowed' = ~allowed
  /\ UNCHANGED <<kind, failed, drive, medium, cache, pc, i, late, driverVars>>

Busy == drive.st = "busy"
Floating == drive.st = "off"
Poll(k) == pc' = k /\ UNCHANGED <<kind, allowed, failed, drive, medium, cache, late, driverVars>>

\* Mutant: the polls are not counted.
WaitForever ==
  /\ pc = "wait"
  /\ \/ Busy /\ i' = i /\ Poll("wait")
     \/ ~Busy /\ ~Floating /\ i' = 0 /\ Poll("ready")
     \/ /\ Floating /\ Finish(-1)
        /\ UNCHANGED <<kind, allowed, failed, drive, medium, cache, present, req, part, out, calls>>

\* ata_wait_not_busy, one read of the status register: 0xFF is a floating bus.
ata_wait_not_busy ==
  /\ pc = "wait"
  /\ \/ Busy /\ i + 1 < ATA_TIMEOUT /\ i' = i + 1 /\ Poll("wait")
     \/ /\ Floating \/ (Busy /\ i + 1 >= ATA_TIMEOUT)
        /\ Finish(-1) /\ UNCHANGED <<kind, allowed, failed, drive, medium, cache, present, req, part, out, calls>>
     \/ ~Busy /\ ~Floating /\ i' = 0 /\ Poll("ready")

\* IDENTIFY looks at the signature between the two polls: a CD drive is not a disk.
NotADisk ==
  /\ pc = "ready" /\ req.op = "init" /\ kind = "atapi"
  /\ Finish(-1) /\ UNCHANGED <<kind, allowed, failed, drive, medium, cache, present, req, part, out, calls>>

\* ata_poll's second loop: an error, a data request, or another read of the status.
ata_poll ==
  /\ pc = "ready" /\ ~(req.op = "init" /\ kind = "atapi")
  /\ \/ drive.st = "drq" /\ i' = 0 /\ Poll("data")
     \/ drive.st \notin {"drq", "err"} /\ i + 1 < ATA_TIMEOUT /\ i' = i + 1 /\ Poll("ready")
     \/ /\ \/ drive.st = "err"
           \/ drive.st # "drq" /\ i + 1 >= ATA_TIMEOUT
        /\ Finish(-1) /\ UNCHANGED <<kind, allowed, failed, drive, medium, cache, present, req, part, out, calls>>

\* insw: what the port yields is the drive's business, not the driver's.
Port == IF drive.cmd = "read" THEN cache[drive.lba] ELSE -1

MoveSector(op, next) ==
  /\ pc = "data" /\ req.op = op
  /\ drive' = Moved /\ i' = 0
  /\ part' = [part EXCEPT !.s = @ + 1]
  /\ pc' = IF part.s + 1 < part.count THEN "wait" ELSE next
  /\ UNCHANGED <<kind, allowed, failed, medium, cache, present, req, ret, calls, late>>
InSector == MoveSector("read", "next") /\ out' = Append(out, Port)
OutSector == MoveSector("write", "flush") /\ UNCHANGED out

\* Mutant: the next command reads the same sectors again.
NextSame ==
  LET left == req.count - Len(out)
  IN /\ pc = "next"
     /\ IF left > 0 THEN Issue("read", part.lba, Chunk(left))
        ELSE Finish(0) /\ UNCHANGED <<drive, part>>
     /\ UNCHANGED <<kind, allowed, failed, medium, cache, present, req, out, calls>>

\* ata_block_read: the next command, for what is left of the request.
NextChunk ==
  LET left == req.count - Len(out)
  IN /\ pc = "next"
     /\ IF left > 0 THEN Issue("read", part.lba + part.count, Chunk(left))
        ELSE Finish(0) /\ UNCHANGED <<drive, part>>
     /\ UNCHANGED <<kind, allowed, failed, medium, cache, present, req, out, calls>>

\* ata_write's end: the flush command, then a wait that only looks at BSY.
CacheFlush ==
  /\ pc = "flush" /\ Command("flush", 0, 0) /\ pc' = "flushed" /\ i' = 0
  /\ UNCHANGED <<kind, allowed, failed, medium, cache, present, req, part, out, ret, calls, late>>
FlushWait ==
  /\ pc = "flushed"
  /\ \/ Busy /\ i + 1 < ATA_TIMEOUT /\ i' = i + 1 /\ Poll("flushed")
     \/ /\ ~Busy \/ i + 1 >= ATA_TIMEOUT
        /\ Finish(IF Busy \/ Floating THEN -1 ELSE 0)
        /\ UNCHANGED <<kind, allowed, failed, drive, medium, cache, present, req, part, out, calls>>

Driver == \/ ata_init \/ Identified \/ ata_wait_not_busy \/ NotADisk \/ ata_poll
          \/ InSector \/ OutSector \/ NextChunk \/ CacheFlush \/ FlushWait
Next == Driver \/ DriveReady \/ ata_read \/ ata_write \/ ata_allow_writes

Spec == Init /\ [][Next]_vars /\ WF_vars(Driver)

-----------------------------------------------------------------------------
Returns(op, r) == pc # "idle" /\ pc' = "idle" /\ req.op = op /\ ret' = r
Asked == req.lba..req.lba + req.count - 1

\* What the block device is here: the drive's cache is the store, the sectors it is at work on
\* are those left of its command and the one it was given last, and a call that is over has
\* left its outcome.
Span ==
  IF drive.cmd \in {"read", "write"}
    THEN (IF drive.got THEN drive.lba - 1 ELSE drive.lba)..drive.lba + drive.left - 1 ELSE {}
Pending == IF drive.cmd = "write" THEN Span ELSE {}
Result == IF pc # "idle" THEN [ret |-> 0, data |-> <<>>]
          ELSE [ret |-> ret, data |-> IF ret = 0 /\ req.op = "read" THEN out ELSE <<>>]

\* What the driver promises (BlockDevice): a read that succeeds has returned the requested
\* sectors, all of them and in order, however it was cut into commands and however slowly
\* the drive answered; a write that succeeds has stored all of its sectors, but for the last
\* one if the drive failed on it: an error on any other ends the write with -1.  All this up
\* to the first command given up on.  Before and after it no sector is stored but
\* one a write named while writes were allowed, and no command reaches past the disk's end.
Abstract == INSTANCE BlockDevice WITH
  store <- cache, busy <- (pc # "idle"), trusted <- ~late, span <- Span, pending <- Pending, result <- Result

\* The ATA driver implements the block device.
Implements == Abstract!Spec

\* Every call returns, whether or not the drive ever answers: the timeout turns
\* "hang forever" into "fail with a message".
CallsReturn == pc # "idle" ~> pc = "idle"

\* ata.c: "Flush the drive's write cache so the data is committed."  A write
\* that reports success has reached the medium.
WriteCommitted == [][Returns("write", 0) => \A n \in Asked : medium[n] = New]_vars
=============================================================================
