----------------------------- MODULE Ata_proofs -----------------------------
(***************************************************************************)
(* The ATA driver implements the block device, for every disk size, limit  *)
(* per command and number of polls.                                        *)
(***************************************************************************)
EXTENDS Ata, TLAPS

DriveState == [st : {"rest", "busy", "drq", "err", "off"}, cmd : {"none", "identify", "read", "write", "flush"},
               lba : Nat, left : Nat, got : BOOLEAN]
Value == (0..Sectors - 1) \cup {New, -1}
Request == [op : {"init", "read", "write"}, lba : Nat, count : Nat]
Part == [lba : Nat, count : Nat, s : Nat]

\* The types of what the driver and the drive keep.
TypeOK ==
  /\ drive \in DriveState
  /\ cache \in [0..Sectors - 1 -> Value]
  /\ pc \in {"init", "idle", "wait", "ready", "data", "next", "flush", "flushed"}
  /\ req \in Request /\ part \in Part
  /\ out \in Seq(Value) /\ ret \in {0, -1}
  /\ allowed \in BOOLEAN /\ late \in BOOLEAN /\ failed \in BOOLEAN

\* Whatever was given up: the drive works inside the disk and asks only for sectors that
\* are left, and the driver moves one only while it asks.
DriveInside ==
  /\ drive.cmd \in {"read", "write"} => drive.lba + drive.left <= Sectors
  /\ drive.st = "drq" => drive.left > 0
  /\ pc = "data" => drive.st = "drq"
  /\ pc = "init" => drive = Idle /\ req.op = "init"
  /\ pc = "next" => req.op = "read"
  /\ drive.got => drive.cmd = "write" /\ drive.lba > 0

Moving == pc \in {"wait", "ready", "data"}

\* As long as nothing was given up, the drive executes the driver's command, if there is a
\* drive, and is where the driver believes it is.  An error stops the transfer.
InStep ==
  /\ pc = "idle" => drive.st \in {"rest", "err", "off"}
  /\ Moving /\ drive.st # "off" =>
       /\ drive.cmd = IF req.op = "init" THEN "identify" ELSE req.op
       /\ drive.st # "rest" /\ drive.left > 0
       /\ req.op # "init" => drive.lba = part.lba + part.s /\ drive.left = part.count - part.s
  /\ pc = "next" => drive.st = "rest"
  /\ pc \notin {"idle", "flush", "flushed"} /\ failed => drive.st = "err"
  /\ pc \in {"flush", "flushed"} =>
       /\ req.op = "write" /\ drive.st # "drq"
       /\ \/ drive.cmd = "write" /\ drive.left = 0 /\ drive.lba = part.lba + part.count
          \/ pc = "flushed" /\ drive.cmd = "flush" /\ ~drive.got
  /\ pc # "idle" /\ drive.st = "err" => failed
  /\ drive.got => /\ drive.st = "busy" /\ drive.cmd = "write" /\ pc # "idle" /\ req.op = "write"
                  /\ part.s > 0 /\ drive.lba = part.lba + part.s

\* Whatever was given up: an open request lies on the disk as far as it was issued, and the
\* driver has counted the sectors it moved.
Issued ==
  pc \notin {"idle", "init"} /\ req.op # "init" =>
    /\ part.count > 0 /\ req.count > 0 /\ part.lba + part.count <= Sectors
    /\ IF Moving THEN part.s < part.count ELSE part.s = part.count
    /\ req.op = "read" => /\ req.lba <= part.lba /\ part.lba + part.count <= req.lba + req.count
                          /\ Len(out) = part.lba + part.s - req.lba
    /\ req.op = "write" => allowed /\ part.lba = req.lba /\ part.count = req.count

\* What was read is what the sectors hold, and what was written is in the drive's cache,
\* but for the sector the drive is storing or has failed to.
Transferred ==
  pc # "idle" =>
    /\ req.op = "read" => \A k \in 1..Len(out) : out[k] = cache[req.lba + k - 1]
    /\ req.op = "write" =>
         \A n \in part.lba..part.lba + part.s - 1 :
           \/ cache[n] = New
           \/ drive.got /\ n = drive.lba - 1
           \/ failed /\ n = part.lba + part.s - 1

\* The inductive invariant.
IInv == TypeOK /\ DriveInside /\ Issued /\ (~late => InStep /\ Transferred)

-----------------------------------------------------------------------------
\* The drive at rest, and one that has taken a command.
LEMMA IdleState == Idle \in DriveState /\ Idle.st = "rest" /\ Idle.cmd = "none" /\ Idle.left = 0 /\ ~Idle.got
  BY DEF Idle, DriveState

\* A drive that is not at work takes the command; otherwise nothing changes.
LEMMA Commanded ==
  ASSUME drive \in DriveState, NEW c \in {"identify", "read", "write", "flush"},
         NEW lba \in Nat, NEW count \in Nat, Command(c, lba, count)
  PROVE  /\ drive' \in DriveState
         /\ drive.st \in {"busy", "drq", "off"} => drive' = drive
         /\ drive.st \notin {"busy", "drq", "off"} =>
              /\ drive'.st = "busy" /\ drive'.cmd = c /\ drive'.lba = lba
              /\ drive'.left = count /\ ~drive'.got
  BY DEF Command, DriveState

\* A sector moves: the drive is one further.
LEMMA MovedState ==
  ASSUME drive \in DriveState, drive.left > 0
  PROVE  /\ Moved \in DriveState
         /\ Moved.cmd = drive.cmd /\ Moved.lba = drive.lba + 1 /\ Moved.left = drive.left - 1
         /\ Moved.st = IF drive.cmd # "write" /\ drive.left = 1 THEN "rest" ELSE "busy"
         /\ Moved.got <=> drive.cmd = "write"
<1>1. /\ Moved.cmd = drive.cmd /\ Moved.lba = drive.lba + 1 /\ Moved.left = drive.left - 1
      /\ Moved.st = IF drive.cmd # "write" /\ drive.left = 1 THEN "rest" ELSE "busy"
  BY DEF Moved, DriveState
<1>2. Moved.got <=> drive.cmd = "write"
  BY Zenon DEF Moved, DriveState
<1>3. ASSUME NEW st \in {"rest", "busy", "drq", "err", "off"}, NEW b \in BOOLEAN
      PROVE  [drive EXCEPT !.st = st, !.lba = @ + 1, !.left = @ - 1, !.got = b] \in DriveState
  <2>1. drive.lba + 1 \in Nat /\ drive.left - 1 \in Nat
    BY DEF DriveState
  <2>2. ASSUME NEW m \in Nat, NEW n \in Nat
        PROVE  [drive EXCEPT !.st = st, !.lba = m, !.left = n, !.got = b] \in DriveState
    BY Zenon DEF DriveState
  <2>. QED  BY <2>1, <2>2, Zenon
<1>7. Moved \in DriveState
  BY <1>3, Zenon DEF Moved
<1>. QED  BY <1>1, <1>2, <1>7

-----------------------------------------------------------------------------
\* The model begins in the invariant.
LEMMA Begins == Init => IInv
<1>. SUFFICES ASSUME Init PROVE IInv
  OBVIOUS
<1>1. cache \in [0..Sectors - 1 -> Value]
  BY DEF Init, Value, Sector
<1>2. req \in Request /\ req.op = "init" /\ part \in Part /\ out \in Seq(Value)
  BY DEF Init, Request, Part
<1>3. TypeOK
  BY <1>1, <1>2, IdleState, Zenon DEF Init, TypeOK
<1>4. DriveInside
  BY <1>2, IdleState DEF Init, DriveInside
<1>5. InStep /\ Issued /\ Transferred
  BY <1>2, IdleState, Zenon DEF Init, InStep, Moving, Issued, Transferred
<1>. QED  BY <1>3, <1>4, <1>5 DEF IInv

\* A call that fails leaves a drive at rest, or one that is not trusted any more.
LEMMA GivenUp ==
  ASSUME IInv, Finish(-1), UNCHANGED <<drive, cache, allowed>>,
         req' \in Request, part' \in Part, out' \in Seq(Value), failed' \in BOOLEAN
  PROVE  IInv'
<1>4. Issued' /\ Transferred'
  BY DEF Finish, Issued, Transferred
<1>. USE DEF IInv, TypeOK, Finish
<1>1. TypeOK'
  OBVIOUS
<1>2. DriveInside'
  BY DEF DriveInside
<1>3. ASSUME ~late' PROVE InStep'
  <2>0. -1 < 0 /\ drive.st \in {"rest", "busy", "drq", "err", "off"}
    BY DEF DriveState
  <2>1. ~late /\ drive.st \in {"rest", "err", "off"}
    BY <1>3, <2>0, Zenon
  <2>2. ~drive.got
    BY <2>1 DEF InStep
  <2>. QED  BY <2>1, <2>2 DEF InStep, Moving
<1>. QED  BY <1>1, <1>2, <1>3, <1>4

\* Reading the status register changes nothing but the driver's place.
LEMMA Polled ==
  ASSUME IInv, NEW k \in {"wait", "ready", "data", "flushed"}, Poll(k),
         IF pc = "flushed" THEN k = pc ELSE pc \in {"wait", "ready"} /\ k # "flushed",
         k = "data" => drive.st = "drq"
  PROVE  IInv'
<1>. USE DEF IInv, TypeOK, Poll, driverVars
<1>1. TypeOK'
  OBVIOUS
<1>2. DriveInside'
  BY DEF DriveInside
<1>3. ASSUME ~late PROVE InStep'
  BY <1>3 DEF InStep, Moving
<1>4. Issued'
  BY DEF Issued, Moving
<1>5. ASSUME ~late PROVE Transferred'
  BY <1>5 DEF Transferred
<1>. QED  BY <1>1, <1>2, <1>3, <1>4, <1>5

\* A command for sectors on the disk reaches a drive that is at rest.  What it is for
\* continues what the call has read so far.
LEMMA IssueKeeps ==
  ASSUME IInv, pc \in {"idle", "next"}, UNCHANGED <<cache, allowed>>,
         NEW op \in {"read", "write"}, NEW lba \in Nat, NEW count \in Nat, Issue(op, lba, count),
         req' \in Request, req'.op = op, out' \in Seq(Value), failed' \in BOOLEAN,
         op = "write" => lba = req'.lba /\ count = req'.count,
         op = "read" =>
           req'.lba <= lba /\ lba + count <= req'.lba + req'.count /\ Len(out') = lba - req'.lba,
         ~late => ~failed' /\ (op = "read" => \A k \in 1..Len(out') : out'[k] = cache[req'.lba + k - 1])
  PROVE  IInv'
<1>. part' \in Part /\ part'.lba = lba /\ part'.count = count /\ part'.s = 0
  BY DEF Issue, Part
<1>1. CASE ~((op = "write" => allowed) /\ ata_check(lba, count))
  BY <1>1, GivenUp DEF Issue
<1>2. CASE (op = "write" => allowed) /\ ata_check(lba, count)
  <2>1. Command(op, lba, count) /\ pc' = "wait" /\ UNCHANGED <<ret, late>>
    BY <1>2 DEF Issue
  <2>2. count > 0 /\ lba + count <= Sectors
    BY <1>2, AtaAssumption DEF ata_check
  <2>3. /\ drive' \in DriveState
        /\ drive.st \in {"busy", "drq", "off"} => drive' = drive
        /\ drive.st \notin {"busy", "drq", "off"} =>
             /\ drive'.st = "busy" /\ drive'.cmd = op /\ drive'.lba = lba
             /\ drive'.left = count /\ ~drive'.got
    BY <2>1, Commanded DEF IInv, TypeOK
  <2>4. TypeOK'
    BY <2>1, <2>3 DEF IInv, TypeOK
  <2>5. DriveInside'
    BY <2>1, <2>2, <2>3, Zenon DEF IInv, TypeOK, DriveInside, DriveState
  <2>6. ASSUME ~late PROVE drive.st \in {"rest", "err", "off"} /\ ~drive.got
    BY <2>6 DEF IInv, InStep
  <2>7. ASSUME ~late PROVE InStep'
    BY <2>1, <2>2, <2>3, <2>6, <2>7 DEF InStep, Moving
  <2>8. Issued'
    BY <1>2, <2>1, <2>2 DEF Issued, Request, Moving
  <2>9. ASSUME ~late PROVE Transferred'
    BY <2>1, <2>9 DEF Transferred, Request
  <2>. QED  BY <2>1, <2>4, <2>5, <2>7, <2>8, <2>9 DEF IInv
<1>. QED  BY <1>1, <1>2

\* How many sectors the next command takes.
LEMMA ChunkFits == ASSUME NEW n \in Nat PROVE Chunk(n) \in Nat /\ Chunk(n) <= n /\ (n > 0 => Chunk(n) > 0)
  BY AtaAssumption DEF Chunk

\* A new call: the driver begins with the first sector asked for.
LEMMA CallKeeps ==
  ASSUME IInv, NEW op \in {"read", "write"}, NEW lba \in Nat, NEW count \in Nat, Call(op, lba, count)
  PROVE  IInv'
<1>. DEFINE n == IF op = "read" THEN Chunk(count) ELSE count
<1>1. n \in Nat /\ n <= count
  BY ChunkFits
<1>2. /\ pc = "idle" /\ UNCHANGED <<cache, allowed>> /\ Issue(op, lba, n)
      /\ out' = <<>> /\ failed' = FALSE
  BY DEF Call
<1>3. req' \in Request /\ req'.op = op /\ req'.lba = lba /\ req'.count = count
  BY DEF Call, Request
<1>4. out' \in Seq(Value) /\ Len(out') = 0
  BY <1>2
<1>5. op = "write" => lba = req'.lba /\ n = req'.count
  BY <1>3
<1>6. op = "read" =>
        /\ req'.lba <= lba /\ lba + n <= req'.lba + req'.count /\ Len(out') = lba - req'.lba
        /\ \A k \in 1..Len(out') : out'[k] = cache[req'.lba + k - 1]
  BY <1>1, <1>3, <1>4
<1>. HIDE DEF n
<1>. QED  BY <1>1, <1>2, <1>3, <1>4, <1>5, <1>6, IssueKeeps, Zenon
-----------------------------------------------------------------------------
\* A call that succeeds leaves the drive at rest.
LEMMA Succeeded ==
  ASSUME IInv, pc # "idle", Finish(0), ~late => drive.st \in {"rest", "err", "off"},
         UNCHANGED <<drive, cache, allowed, failed, req, out>>, part' \in Part
  PROVE  IInv'
<1>1. Issued' /\ Transferred'
  BY DEF Finish, Issued, Transferred
<1>2. late' = late
  BY DEF IInv, TypeOK, Finish
<1>3. TypeOK'
  BY <1>2 DEF IInv, TypeOK, Finish
<1>4. DriveInside'
  BY DEF IInv, DriveInside, Finish
<1>5. ASSUME ~late PROVE InStep'
  <2>1. ~drive.got
    BY <1>5 DEF IInv, InStep
  <2>. QED  BY <2>1, <1>5 DEF InStep, Moving, Finish
<1>. QED  BY <1>1, <1>2, <1>3, <1>4, <1>5 DEF IInv

\* ata_init sends IDENTIFY to a drive at rest, or finds none.
LEMMA AtaInitKeeps == IInv /\ ata_init => IInv'
<1>. SUFFICES ASSUME IInv, ata_init PROVE IInv'
  OBVIOUS
<1>1. CASE kind \in {"floating", "no drive"}
  BY <1>1, GivenUp, Zenon DEF ata_init, IInv, TypeOK
<1>m. CASE kind = "no master"
  <2>1. drive' = [drive EXCEPT !.st = "off"] /\ pc' = "wait" /\ UNCHANGED <<ret, late, allowed, failed, cache, req, part, out>>
    BY <1>m, Zenon DEF ata_init
  <2>2. pc = "init" /\ req.op = "init" /\ drive = Idle
    BY Zenon DEF ata_init, IInv, DriveInside
  <2>3. drive' \in DriveState /\ drive'.st = "off" /\ drive'.cmd = "none" /\ ~drive'.got
    BY <2>1, <2>2 DEF Idle, DriveState
  <2>4. TypeOK' /\ DriveInside'
    BY <2>1, <2>2, <2>3 DEF IInv, TypeOK, DriveInside
  <2>5. Issued' /\ Transferred'
    BY <2>1, <2>2 DEF Issued, Transferred
  <2>6. ASSUME ~late PROVE ~failed
    BY <2>2, <2>6, IdleState DEF IInv, InStep
  <2>7. ASSUME ~late PROVE InStep'
    BY <2>1, <2>3, <2>6, <2>7 DEF InStep, Moving
  <2>. QED  BY <2>1, <2>4, <2>5, <2>7 DEF IInv
<1>2. CASE kind \notin {"floating", "no drive", "no master"}
  <2>1. Command("identify", 0, 1) /\ pc' = "wait" /\ UNCHANGED <<ret, late, allowed, failed, cache, req, part, out>>
    BY <1>2, Zenon DEF ata_init
  <2>2. pc = "init" /\ req.op = "init" /\ drive.st = "rest" /\ drive \in DriveState
    BY IdleState, Zenon DEF ata_init, IInv, TypeOK, DriveInside
  <2>3. /\ drive' \in DriveState /\ drive'.st = "busy" /\ drive'.cmd = "identify"
        /\ drive'.left = 1 /\ ~drive'.got
    BY <2>1, <2>2, Commanded
  <2>4. TypeOK' /\ DriveInside'
    BY <2>1, <2>2, <2>3 DEF IInv, TypeOK, DriveInside
  <2>5. Issued' /\ Transferred'
    BY <2>1, <2>2 DEF Issued, Transferred
  <2>6. ASSUME ~late PROVE ~failed
    BY <2>2, <2>6 DEF IInv, InStep
  <2>7. ASSUME ~late PROVE InStep'
    BY <2>1, <2>2, <2>3, <2>6, <2>7 DEF InStep, Moving
  <2>. QED  BY <2>1, <2>4, <2>5, <2>7 DEF IInv
<1>. QED  BY <1>1, <1>m, <1>2, Zenon

\* The end of ata_init.
LEMMA IdentifiedKeeps == IInv /\ Identified => IInv'
<1>. SUFFICES ASSUME IInv, Identified PROVE IInv'
  OBVIOUS
<1>1. drive \in DriveState /\ drive' = [drive EXCEPT !.st = "rest"] /\ pc' = "idle" /\ pc = "data"
  BY DEF Identified, Finish, IInv, TypeOK
<1>2. /\ drive' \in DriveState /\ drive'.st = "rest" /\ drive'.cmd = drive.cmd
      /\ drive'.lba = drive.lba /\ drive'.left = drive.left /\ drive'.got = drive.got
  BY <1>1 DEF DriveState
<1>3. late' \in BOOLEAN /\ ret' \in {0, -1} /\ (late => late')
  BY DEF Identified, Finish, IInv, TypeOK
<1>4. TypeOK'
  BY <1>1, <1>2, <1>3 DEF IInv, TypeOK, Identified
<1>5. DriveInside'
  BY <1>1, <1>2 DEF IInv, DriveInside
<1>6. ASSUME ~late PROVE InStep'
  <2>1. ~drive.got
    BY <1>6, <1>1 DEF IInv, DriveInside, InStep
  <2>. QED  BY <2>1, <1>1, <1>2 DEF InStep, Moving
<1>7. Issued' /\ Transferred'
  BY <1>1 DEF Issued, Transferred
<1>. QED  BY <1>3, <1>4, <1>5, <1>6, <1>7 DEF IInv

\* ata_wait_not_busy.
LEMMA WaitKeeps == IInv /\ ata_wait_not_busy => IInv'
<1>. SUFFICES ASSUME IInv, ata_wait_not_busy PROVE IInv'
  OBVIOUS
<1>1. CASE Poll("wait") \/ Poll("ready")
  BY <1>1, Polled DEF ata_wait_not_busy
<1>2. CASE Finish(-1) /\ UNCHANGED <<drive, cache, allowed, failed, req, part, out>>
  BY <1>2, GivenUp DEF IInv, TypeOK
<1>. QED  BY <1>1, <1>2 DEF ata_wait_not_busy

\* ata_poll, and what is no disk.
LEMMA PollKeeps == IInv /\ (ata_poll \/ NotADisk) => IInv'
<1>. SUFFICES ASSUME IInv, ata_poll \/ NotADisk PROVE IInv'
  OBVIOUS
<1>1. CASE pc = "ready" /\ drive.st = "drq" /\ Poll("data")
  BY <1>1, Polled
<1>2. CASE pc = "ready" /\ Poll("ready")
  BY <1>2, Polled
<1>3. CASE Finish(-1) /\ UNCHANGED <<drive, cache, allowed, failed, req, part, out>>
  BY <1>3, GivenUp DEF IInv, TypeOK
<1>. QED  BY <1>1, <1>2, <1>3 DEF ata_poll, NotADisk

\* The wait behind the flush.
LEMMA FlushWaitKeeps == IInv /\ FlushWait => IInv'
<1>. SUFFICES ASSUME IInv, FlushWait PROVE IInv'
  OBVIOUS
<1>0. UNCHANGED <<drive, cache, allowed, failed, req, part, out>>
  BY DEF FlushWait, Poll, driverVars
<1>1. CASE Poll("flushed")
  BY <1>1, Polled DEF FlushWait
<1>2. CASE (Busy \/ Floating) /\ Finish(-1)
  BY <1>0, <1>2, GivenUp DEF IInv, TypeOK
<1>3. CASE ~Busy /\ ~Floating /\ Finish(0)
  <2>1. ~late => drive.st \in {"rest", "err", "off"}
    BY <1>3 DEF FlushWait, Busy, IInv, TypeOK, DriveState, InStep
  <2>. QED  BY <1>0, <1>3, <2>1, Succeeded DEF FlushWait, IInv, TypeOK
<1>. QED  BY <1>1, <1>2, <1>3 DEF FlushWait
-----------------------------------------------------------------------------
\* Moving a sector: the drive and the driver advance together.
LEMMA MoveKeeps ==
  ASSUME IInv, NEW op \in {"read", "write"}, NEW next \in {"next", "flush"}, MoveSector(op, next),
         next = IF op = "read" THEN "next" ELSE "flush", out' \in Seq(Value),
         op = "read" => Len(out') = Len(out) + 1
  PROVE  /\ TypeOK' /\ DriveInside' /\ Issued' /\ late' = late
         /\ part'.s = part.s + 1 /\ part'.lba = part.lba /\ part'.count = part.count
         /\ ~late => InStep' /\ drive'.lba = drive.lba + 1 /\ (drive'.got <=> op = "write")
<1>1. /\ pc = "data" /\ req.op = op /\ drive' = Moved
      /\ part' = [part EXCEPT !.s = @ + 1]
      /\ pc' = IF part.s + 1 < part.count THEN "wait" ELSE next
      /\ UNCHANGED <<cache, allowed, failed, req, ret, late>>
  BY DEF MoveSector
<1>2. drive \in DriveState /\ drive.st = "drq" /\ drive.left > 0
  BY <1>1 DEF IInv, TypeOK, DriveInside
<1>3. /\ drive' \in DriveState
      /\ drive'.cmd = drive.cmd /\ drive'.lba = drive.lba + 1 /\ drive'.left = drive.left - 1
      /\ drive'.st = IF drive.cmd # "write" /\ drive.left = 1 THEN "rest" ELSE "busy"
      /\ drive'.got <=> drive.cmd = "write"
  BY <1>1, <1>2, MovedState
<1>4. part' \in Part /\ part'.s = part.s + 1 /\ part'.lba = part.lba /\ part'.count = part.count
  BY <1>1 DEF IInv, TypeOK, Part
<1>5. TypeOK'
  BY <1>1, <1>3, <1>4 DEF IInv, TypeOK
<1>f. /\ drive.lba \in Nat /\ drive.left \in Nat /\ drive'.left \in Nat
      /\ part.lba \in Nat /\ part.count \in Nat /\ part.s \in Nat
  BY <1>2, <1>3 DEF DriveState, IInv, TypeOK, Part
<1>p. pc' \in {"wait", next} /\ drive'.st \in {"rest", "busy"}
  BY <1>1, <1>3
<1>6. DriveInside'
  <2>1. drive'.cmd \in {"read", "write"} => drive'.lba + drive'.left <= Sectors
    BY <1>3, <1>f, AtaAssumption DEF IInv, DriveInside
  <2>2. drive'.lba > 0
    BY <1>3, <1>f
  <2>. QED  BY <1>1, <1>3, <1>p, <2>1, <2>2 DEF DriveInside
<1>8. Issued'
  <2>1. /\ part.count > 0 /\ req.count > 0 /\ part.lba + part.count <= Sectors /\ part.s < part.count
        /\ req.op = "read" => /\ req.lba <= part.lba /\ part.lba + part.count <= req.lba + req.count
                              /\ Len(out) = part.lba + part.s - req.lba
        /\ req.op = "write" => allowed /\ part.lba = req.lba /\ part.count = req.count
    BY <1>1 DEF IInv, Issued, Moving
  <2>2. IF Moving' THEN part'.s < part'.count ELSE part'.s = part'.count
    BY <1>1, <1>4, <1>f, <2>1 DEF Moving
  <2>3. req.op = "read" => Len(out') = part'.lba + part'.s - req.lba
    BY <1>1, <1>4, <1>f, <2>1, SMTT(30) DEF IInv, TypeOK, Request
  <2>. QED  BY <1>1, <1>4, <2>1, <2>2, <2>3 DEF Issued
<1>7. ASSUME ~late
      PROVE  InStep' /\ (drive'.got <=> op = "write")
  <2>1. drive.cmd = op /\ drive.lba = part.lba + part.s /\ drive.left = part.count - part.s
    BY <1>1, <1>2, <1>7 DEF IInv, InStep, Moving
  <2>f. ~failed'
    BY <1>1, <1>2, <1>7 DEF IInv, InStep
  <2>2. InStep'
    <3>0. drive'.got => drive'.st = "busy" /\ drive'.cmd = "write" /\ op = "write"
      BY <1>3, <2>1
    <3>3. part'.s > 0 /\ drive'.lba = part'.lba + part'.s /\ drive'.left = part'.count - part'.s
      <4>1. drive'.lba = drive.lba + 1 /\ drive'.left = drive.left - 1
        BY <1>3
      <4>2. part'.s = part.s + 1 /\ part'.lba = part.lba /\ part'.count = part.count
        BY <1>4
      <4>3. drive'.lba = part'.lba + part'.s
        BY <4>1, <4>2, <1>f, <2>1, SMTT(30)
      <4>4. drive'.left = part'.count - part'.s
        BY <4>1, <4>2, <1>f, <2>1
      <4>5. part'.s > 0
        BY <4>2, <1>f
      <4>. QED  BY <4>3, <4>4, <4>5
    <3>1. CASE part.s + 1 < part.count
      <4>1. pc' = "wait" /\ drive'.st = "busy" /\ drive'.left > 0
        BY <1>1, <1>3, <1>f, <2>1, <3>1, SMTT(30)
      <4>. QED  BY <1>1, <1>3, <2>1, <2>f, <3>0, <3>3, <4>1 DEF InStep, Moving
    <3>2. CASE ~(part.s + 1 < part.count)
      <4>1. drive.left = 1 /\ drive'.left = 0 /\ part'.s = part'.count /\ pc' = next
        BY <1>1, <1>2, <1>3, <1>4, <1>f, <2>1, <3>2, SMTT(30)
      <4>. QED  BY <1>1, <1>3, <2>1, <2>f, <3>0, <3>3, <4>1 DEF InStep, Moving
    <3>. QED  BY <3>1, <3>2
  <2>. QED  BY <1>3, <2>1, <2>2
<1>. QED  BY <1>1, <1>3, <1>4, <1>5, <1>6, <1>7, <1>8

\* A sector read is the one that comes next.
LEMMA InSectorKeeps == IInv /\ InSector => IInv'
<1>. SUFFICES ASSUME IInv, InSector PROVE IInv'
  OBVIOUS
<1>1. /\ MoveSector("read", "next") /\ out' = Append(out, Port) /\ pc = "data" /\ req.op = "read"
      /\ UNCHANGED <<cache, req, late, failed>>
  BY DEF InSector, MoveSector
<1>2. Port \in Value
  BY <1>1, AtaAssumption DEF Port, Value, IInv, TypeOK, DriveInside, DriveState
<1>3. out \in Seq(Value) /\ out' \in Seq(Value) /\ Len(out') = Len(out) + 1 /\ out'[Len(out) + 1] = Port
      /\ \A k \in 1..Len(out) : out'[k] = out[k]
  BY <1>1, <1>2 DEF IInv, TypeOK
<1>4. /\ TypeOK' /\ DriveInside' /\ Issued' /\ late' = late
      /\ part'.s = part.s + 1 /\ part'.lba = part.lba
      /\ ~late => InStep'
  BY <1>1, <1>3, MoveKeeps
<1>5. ASSUME ~late PROVE Transferred'
  <2>1. drive.cmd = "read" /\ drive.lba = part.lba + part.s
    BY <1>1, <1>5 DEF IInv, InStep, Moving, DriveInside
  <2>2. Len(out) = part.lba + part.s - req.lba
    BY <1>1 DEF IInv, Issued
  <2>3. out'[Len(out) + 1] = cache[req.lba + (Len(out) + 1) - 1]
    <3>1. req.lba \in Nat /\ part.lba \in Nat /\ part.s \in Nat
      BY DEF IInv, TypeOK, Request, Part
    <3>2. req.lba + (Len(out) + 1) - 1 = drive.lba
      BY <2>1, <2>2, <3>1
    <3>. QED  BY <1>3, <2>1, <3>2 DEF Port
  <2>4. \A k \in 1..Len(out) : out'[k] = cache[req.lba + k - 1]
    BY <1>1, <1>3, <1>5 DEF IInv, Transferred
  <2>5. \A k \in 1..Len(out') : k \in 1..Len(out) \/ k = Len(out) + 1
    BY <1>3
  <2>6. \A k \in 1..Len(out') : out'[k] = cache[req.lba + k - 1]
    BY <2>3, <2>4, <2>5
  <2>. QED  BY <1>1, <2>6 DEF Transferred
<1>. QED  BY <1>4, <1>5 DEF IInv

\* A sector written is in the drive's hands until it has stored it.
LEMMA OutSectorKeeps == IInv /\ OutSector => IInv'
<1>. SUFFICES ASSUME IInv, OutSector PROVE IInv'
  OBVIOUS
<1>1. /\ MoveSector("write", "flush") /\ pc = "data" /\ req.op = "write"
      /\ UNCHANGED <<cache, req, late, failed, out>>
  BY DEF OutSector, MoveSector
<1>2. /\ TypeOK' /\ DriveInside' /\ Issued' /\ late' = late
      /\ part'.s = part.s + 1 /\ part'.lba = part.lba
      /\ ~late => InStep' /\ drive'.lba = drive.lba + 1 /\ drive'.got
  BY <1>1, MoveKeeps DEF IInv, TypeOK
<1>3. ASSUME ~late, NEW n \in part'.lba..part'.lba + part'.s - 1
      PROVE  cache[n] = New \/ (drive'.got /\ n = drive'.lba - 1)
  <2>1. drive.lba = part.lba + part.s /\ ~drive.got /\ ~failed
    BY <1>1, <1>3 DEF IInv, InStep, Moving, DriveInside
  <2>2. part.lba \in Nat /\ part.s \in Nat
    BY DEF IInv, TypeOK, Part
  <2>3. CASE n = part.lba + part.s
    BY <1>2, <1>3, <2>1, <2>2, <2>3
  <2>4. CASE n # part.lba + part.s
    <3>1. n \in part.lba..part.lba + part.s - 1
      BY <1>2, <1>3, <2>2, <2>4
    <3>. QED  BY <1>1, <1>3, <2>1, <3>1 DEF IInv, Transferred
  <2>. QED  BY <2>3, <2>4
<1>4. ASSUME ~late PROVE Transferred'
  BY <1>1, <1>3, <1>4 DEF Transferred
<1>. QED  BY <1>2, <1>4 DEF IInv
-----------------------------------------------------------------------------
\* The next command goes on behind the last one, until nothing is left.
LEMMA NextChunkKeeps == IInv /\ NextChunk => IInv'
<1>. SUFFICES ASSUME IInv, NextChunk PROVE IInv'
  OBVIOUS
<1>. DEFINE left == req.count - Len(out)
            lba == part.lba + part.count
            n == Chunk(left)
<1>1. pc = "next" /\ req.op = "read" /\ UNCHANGED <<cache, allowed, failed, req, out>>
  BY DEF NextChunk, IInv, DriveInside
<1>2. /\ req \in Request /\ part \in Part /\ out \in Seq(Value) /\ failed \in BOOLEAN
      /\ req.lba \in Nat /\ req.count \in Nat /\ part.lba \in Nat /\ part.count \in Nat /\ Len(out) \in Nat
  BY DEF IInv, TypeOK, Request, Part
<1>3. CASE left > 0
  <2>1. Issue("read", lba, n)
    BY <1>3 DEF NextChunk
  <2>2. left \in Nat /\ lba \in Nat
    BY <1>2, <1>3, SMTT(30)
  <2>. HIDE DEF n
  <2>3. n \in Nat /\ n <= req.count - Len(out)
    <3>. HIDE DEF left
    <3>1. n \in Nat /\ n <= left
      BY <2>2, ChunkFits DEF n
    <3>. QED  BY <3>1 DEF left
  <2>4. ASSUME ~late
        PROVE  ~failed /\ \A k \in 1..Len(out) : out[k] = cache[req.lba + k - 1]
    BY <1>1, <2>4 DEF IInv, InStep, Transferred
  <2>7. req.lba <= lba /\ lba + n <= req.lba + req.count /\ Len(out) = lba - req.lba
    <3>1. /\ part.s = part.count /\ Len(out) = part.lba + part.s - req.lba
          /\ req.lba <= part.lba
      BY <1>1 DEF IInv, Issued, Moving
    <3>2. Len(out) = lba - req.lba
      BY <1>2, <3>1
    <3>. QED  BY <1>2, <2>3, <3>1, <3>2, SMTT(30)
  <2>. HIDE DEF lba
  <2>5. /\ req' \in Request /\ req'.op = "read" /\ out' \in Seq(Value) /\ failed' \in BOOLEAN
        /\ UNCHANGED <<cache, allowed>> /\ pc \in {"idle", "next"}
    BY <1>1, <1>2
  <2>6. /\ req'.lba <= lba /\ lba + n <= req'.lba + req'.count /\ Len(out') = lba - req'.lba
        /\ ~late => ~failed' /\ \A k \in 1..Len(out') : out'[k] = cache[req'.lba + k - 1]
    BY <1>1, <2>4, <2>7
  <2>. QED  BY <2>1, <2>2, <2>3, <2>5, <2>6, IssueKeeps
<1>4. CASE ~(left > 0)
  <2>1. Finish(0) /\ UNCHANGED <<drive, part>>
    BY <1>4 DEF NextChunk
  <2>2. ~late => drive.st \in {"rest", "err", "off"}
    BY <1>1 DEF IInv, InStep
  <2>. QED  BY <1>1, <1>2, <2>1, <2>2, Succeeded
<1>. QED  BY <1>3, <1>4

\* The flush reaches a drive that has stored everything, or is lost on one that is still at it.
LEMMA CacheFlushKeeps == IInv /\ CacheFlush => IInv'
<1>. SUFFICES ASSUME IInv, CacheFlush PROVE IInv'
  OBVIOUS
<1>1. /\ pc = "flush" /\ pc' = "flushed" /\ Command("flush", 0, 0) /\ drive \in DriveState
      /\ UNCHANGED <<cache, allowed, failed, req, part, out, ret, late>>
  BY DEF CacheFlush, IInv, TypeOK
<1>2. /\ drive' \in DriveState
      /\ drive.st \in {"busy", "drq", "off"} => drive' = drive
      /\ drive.st \notin {"busy", "drq", "off"} =>
           drive'.st = "busy" /\ drive'.cmd = "flush" /\ drive'.lba = 0 /\ drive'.left = 0 /\ ~drive'.got
  BY <1>1, Commanded
<1>3. TypeOK'
  BY <1>1, <1>2 DEF IInv, TypeOK
<1>4. DriveInside'
  BY <1>1, <1>2 DEF IInv, DriveInside
<1>6. Issued'
  BY <1>1 DEF IInv, Issued, Moving
<1>5. ASSUME ~late PROVE InStep' /\ Transferred'
  <2>1. CASE drive' = drive
    BY <1>1, <1>5, <2>1 DEF IInv, InStep, Moving, Transferred
  <2>2. CASE drive.st \notin {"busy", "drq", "off"}
    <3>1. ~drive.got
      BY <1>5, <2>2 DEF IInv, InStep
    <3>2. InStep'
      BY <1>1, <1>2, <1>5, <2>2 DEF IInv, InStep, Moving
    <3>3. Transferred'
      BY <1>1, <1>5, <3>1 DEF IInv, Transferred
    <3>. QED  BY <3>2, <3>3
  <2>. QED  BY <1>2, <2>1, <2>2, SMTT(30)
<1>. QED  BY <1>1, <1>3, <1>4, <1>5, <1>6 DEF IInv

\* The drive moves on by itself: it asks for the next sector, stores one, rests or fails.
LEMMA DriveReadyKeeps == IInv /\ DriveReady => IInv'
<1>. SUFFICES ASSUME IInv, DriveReady PROVE IInv'
  OBVIOUS
<1>1. /\ drive.st = "busy" /\ drive \in DriveState
      /\ UNCHANGED <<allowed, pc, late, req, part, out, ret>>
  BY DEF DriveReady, driverVars, IInv, TypeOK
<1>2. /\ drive' \in DriveState /\ drive'.cmd = drive.cmd /\ drive'.lba = drive.lba /\ drive'.left = drive.left
      /\ drive'.st \in {"drq", "rest", "err"}
  BY <1>1, Zenon DEF DriveReady, DriveState
<1>r. /\ drive'.st = "drq" => drive.left > 0 /\ drive.cmd # "flush"
      /\ drive'.st = "rest" => ~(drive.left > 0) \/ drive.cmd = "flush"
  <2>1. CASE drive' = [drive EXCEPT !.st = IF drive.left > 0 THEN "drq" ELSE "rest", !.got = FALSE] /\ drive.cmd # "flush"
    BY <1>1, <2>1 DEF DriveState
  <2>2. CASE drive' = [drive EXCEPT !.st = "rest"] /\ drive.cmd = "flush"
    BY <1>1, <2>2 DEF DriveState
  <2>3. CASE drive' = [drive EXCEPT !.st = "err", !.got = FALSE]
    BY <1>1, <2>3 DEF DriveState
  <2>. QED  BY <2>1, <2>2, <2>3 DEF DriveReady
<1>3. cache' \in [0..Sectors - 1 -> Value] /\ failed' \in BOOLEAN
  BY <1>1, Zenon DEF DriveReady, Stored, IInv, TypeOK, Value
<1>4. TypeOK'
  BY <1>1, <1>2, <1>3 DEF IInv, TypeOK
<1>5. DriveInside'
  <2>1. drive'.got => drive.got
    BY <1>1, Zenon DEF DriveReady, DriveState
  <2>. QED  BY <1>1, <1>2, <1>r, <2>1, IdleState DEF IInv, DriveInside
<1>7. Issued'
  BY <1>1 DEF IInv, Issued, Moving
<1>6. ASSUME ~late PROVE InStep' /\ Transferred'
  <2>1. pc # "idle"
    BY <1>1, <1>6 DEF IInv, InStep
  <2>2. ~drive'.got
    BY <1>1, <1>6, Zenon DEF DriveReady, DriveState, IInv, InStep
  <2>4. /\ drive'.st = "err" => failed'
        /\ drive'.st # "err" => failed' = failed
    BY <1>1, Zenon DEF DriveReady, DriveState
  <2>7. pc \notin {"idle", "flush", "flushed"} /\ failed' => drive'.st = "err"
    BY <1>1, <1>6, <2>4 DEF IInv, InStep
  <2>5. InStep'
    <3>1. CASE Moving
      <4>1. /\ drive.cmd = IF req.op = "init" THEN "identify" ELSE req.op
            /\ drive.left > 0
            /\ req.op # "init" => drive.lba = part.lba + part.s /\ drive.left = part.count - part.s
        BY <1>1, <1>6, <3>1 DEF IInv, InStep
      <4>2. drive'.st # "rest"
        BY <1>r, <4>1 DEF IInv, TypeOK, Request
      <4>. QED  BY <1>1, <1>2, <2>2, <2>4, <2>7, <3>1, <4>1, <4>2 DEF InStep, Moving
    <3>2. CASE pc \in {"flush", "flushed"}
      BY <1>1, <1>2, <1>r, <1>6, <2>2, <2>4, <3>2 DEF IInv, InStep, Moving
    <3>3. pc \notin {"init", "next"}
      BY <1>1, <1>6, IdleState DEF IInv, DriveInside, InStep
    <3>. QED  BY <2>1, <3>1, <3>2, <3>3 DEF IInv, TypeOK, Moving
  <2>6. Transferred'
    <3>1. CASE req.op = "read"
      <4>1. ~drive.got
        BY <1>6, <3>1 DEF IInv, InStep
      <4>2. cache' = cache
        BY <4>1 DEF DriveReady, Stored
      <4>. QED  BY <1>1, <1>6, <2>1, <3>1, <4>2 DEF IInv, Transferred
    <3>2. CASE req.op = "write"
      <4>. SUFFICES ASSUME NEW n \in part.lba..part.lba + part.s - 1
                    PROVE  cache'[n] = New \/ (failed' /\ n = part.lba + part.s - 1)
        BY <1>1, <3>2 DEF Transferred
      <4>1. failed => failed'
        BY DEF DriveReady
      <4>2. \/ cache[n] = New
            \/ drive.got /\ n = drive.lba - 1
            \/ failed /\ n = part.lba + part.s - 1
        BY <1>6, <2>1, <3>2 DEF IInv, Transferred
      <4>3. cache' = Stored \/ (cache' = cache /\ (drive.got => failed'))
        BY <1>6 DEF DriveReady, IInv, InStep
      <4>5. drive.got => drive.lba - 1 = part.lba + part.s - 1
        <5>1. drive.got => drive.lba = part.lba + part.s
          BY <1>6 DEF IInv, InStep
        <5>2. drive.lba \in Nat /\ part.lba \in Nat /\ part.s \in Nat
          BY <1>1 DEF IInv, TypeOK, DriveState, Part
        <5>. QED  BY <5>1, <5>2
      <4>4. n \in DOMAIN cache
        <5>0. /\ part.lba \in Nat /\ part.s \in Nat /\ part.count \in Nat /\ drive.left \in Nat
              /\ pc \notin {"idle", "init"}
          BY <1>1, <2>1, IdleState DEF IInv, TypeOK, Part, DriveState, DriveInside
        <5>1. part.s <= part.count
          BY <3>2, <5>0 DEF IInv, Issued
        <5>2. part.lba + part.count <= Sectors
          BY <3>2, <5>0 DEF IInv, Issued
        <5>. QED  BY <5>0, <5>1, <5>2, AtaAssumption, SMTT(30) DEF IInv, TypeOK
      <4>. QED  BY <4>1, <4>2, <4>3, <4>4, <4>5 DEF Stored
    <3>. QED  BY <1>1, <3>1, <3>2, SMTT(30) DEF IInv, TypeOK, Request, Transferred
  <2>. QED  BY <2>5, <2>6
<1>. QED  BY <1>1, <1>4, <1>5, <1>6, <1>7 DEF IInv

\* ata_allow_writes, between calls.
LEMMA AllowKeeps == IInv /\ ata_allow_writes => IInv'
<1>. SUFFICES ASSUME IInv, ata_allow_writes PROVE IInv'
  OBVIOUS
<1>1. pc = "idle" /\ allowed' = ~allowed /\ UNCHANGED <<drive, cache, failed, pc, late, req, part, out, ret>>
  BY DEF ata_allow_writes, driverVars
<1>2. TypeOK' /\ DriveInside'
  BY <1>1 DEF IInv, TypeOK, DriveInside
<1>3. Issued' /\ Transferred'
  BY <1>1 DEF Issued, Transferred
<1>4. ASSUME ~late PROVE InStep'
  BY <1>1, <1>4 DEF IInv, InStep, Moving
<1>. QED  BY <1>1, <1>2, <1>3, <1>4 DEF IInv

\* The drive is where the driver believes it is, and what was moved is what was asked for,
\* in every state in which no command has been given up.
THEOREM AtaInductive == Spec => []IInv
<1>1. IInv /\ [Next]_vars => IInv'
  <2>. SUFFICES ASSUME IInv, [Next]_vars PROVE IInv'
    OBVIOUS
  <2>1. CASE Driver
    BY <2>1, AtaInitKeeps, IdentifiedKeeps, WaitKeeps, PollKeeps, InSectorKeeps, OutSectorKeeps,
       NextChunkKeeps, CacheFlushKeeps, FlushWaitKeeps DEF Driver
  <2>2. CASE ata_read
    BY <2>2, CallKeeps, AtaAssumption DEF ata_read
  <2>3. CASE ata_write
    BY <2>3, CallKeeps, AtaAssumption, SMTT(30) DEF ata_write
  <2>4. CASE UNCHANGED vars
    <3>1. TypeOK' /\ DriveInside'
      BY <2>4 DEF vars, IInv, TypeOK, DriveInside
    <3>2. Issued'
      BY <2>4 DEF vars, IInv, Moving, Issued
    <3>3. ASSUME ~late PROVE InStep'
      BY <2>4, <3>3 DEF vars, IInv, InStep, Moving
    <3>4. ASSUME ~late PROVE Transferred'
      BY <2>4, <3>4 DEF vars, IInv, Transferred
    <3>. QED  BY <2>4, <3>1, <3>2, <3>3, <3>4 DEF vars, IInv
  <2>. QED  BY <2>1, <2>2, <2>3, <2>4, DriveReadyKeeps, AllowKeeps DEF Next
<1>. QED  BY <1>1, Begins, PTL DEF Spec
-----------------------------------------------------------------------------
\* The steps of the block device.

\* What the drive is at work on lies on the disk after any step.
LEMMA SpanInside == IInv' => Span' \subseteq 0..Sectors - 1
  BY AtaAssumption DEF IInv, TypeOK, DriveState, DriveInside, Span

\* What the drive is at work on, and may store, only shrinks ...
Narrows == Span' \subseteq Span /\ Pending' \subseteq Pending

\* ... unless it takes on sectors of the request, to store them if it is a write that is allowed.
Named ==
  /\ Span' \subseteq Span \cup Abstract!Asked'
  /\ Pending' \subseteq Pending \cup {n \in Abstract!Asked' : req'.op = "write" /\ allowed'}

\* A command for sectors of the request.
LEMMA CommandNamed ==
  ASSUME IInv, NEW op \in {"read", "write"}, NEW lba \in Nat, NEW count \in Nat, Command(op, lba, count),
         req' \in Request, req'.op = op, op = "write" => allowed',
         req'.lba <= lba, lba + count <= req'.lba + req'.count
  PROVE  Named
<1>1. /\ drive.st \in {"busy", "drq", "off"} => drive' = drive
      /\ drive.st \notin {"busy", "drq", "off"} =>
           drive'.cmd = op /\ drive'.lba = lba /\ drive'.left = count /\ ~drive'.got
  BY Commanded DEF IInv, TypeOK
<1>2. CASE drive' = drive
  BY <1>2 DEF Named, Span, Pending
<1>3. CASE drive'.cmd = op /\ drive'.lba = lba /\ drive'.left = count /\ ~drive'.got
  <2>1. Span' = lba..lba + count - 1 /\ Pending' = IF op = "write" THEN Span' ELSE {}
    BY <1>3 DEF Span, Pending
  <2>2. Span' \subseteq Abstract!Asked'
    BY <2>1 DEF Abstract!Asked, Request
  <2>. QED  BY <2>1, <2>2 DEF Named
<1>. QED  BY <1>1, <1>2, <1>3

\* A call, and the next command of a read.
LEMMA IssueNamed ==
  ASSUME IInv, NEW op \in {"read", "write"}, NEW lba \in Nat, NEW count \in Nat, Issue(op, lba, count),
         req' \in Request, req'.op = op, UNCHANGED allowed,
         req'.lba <= lba, lba + count <= req'.lba + req'.count
  PROVE  Named
<1>1. CASE UNCHANGED drive
  BY <1>1 DEF Named, Span, Pending
<1>2. CASE Command(op, lba, count) /\ (op = "write" => allowed)
  BY <1>2, CommandNamed
<1>. QED  BY <1>1, <1>2 DEF Issue

LEMMA CallNamed ==
  ASSUME IInv, NEW op \in {"read", "write"}, NEW lba \in Nat, NEW count \in Nat, Call(op, lba, count)
  PROVE  Named
<1>. DEFINE n == IF op = "read" THEN Chunk(count) ELSE count
<1>1. n \in Nat /\ n <= count
  BY ChunkFits
<1>2. Issue(op, lba, n) /\ UNCHANGED allowed
  BY DEF Call
<1>3. req' \in Request /\ req'.op = op /\ req'.lba = lba /\ req'.count = count
  BY DEF Call, Request
<1>. HIDE DEF n
<1>4. req'.lba <= lba /\ lba + n <= req'.lba + req'.count
  BY <1>1, <1>3
<1>. QED  BY <1>1, <1>2, <1>3, <1>4, IssueNamed, Zenon

LEMMA NextChunkNamed == IInv /\ NextChunk => Named
<1>. SUFFICES ASSUME IInv, NextChunk PROVE Named
  OBVIOUS
<1>. DEFINE left == req.count - Len(out)
            lba == part.lba + part.count
            n == Chunk(left)
<1>1. pc = "next" /\ req.op = "read" /\ UNCHANGED <<allowed, req>>
  BY DEF NextChunk, IInv, DriveInside
<1>2. /\ req \in Request /\ Len(out) \in Nat
      /\ req.lba \in Nat /\ req.count \in Nat /\ part.lba \in Nat /\ part.count \in Nat
  BY DEF IInv, TypeOK, Request, Part
<1>3. CASE UNCHANGED drive
  BY <1>3 DEF Named, Span, Pending
<1>4. CASE left > 0 /\ Issue("read", lba, n)
  <2>1. left \in Nat /\ lba \in Nat
    BY <1>2, <1>4, SMTT(30)
  <2>. HIDE DEF n
  <2>2. n \in Nat /\ n <= left
    <3>. HIDE DEF left
    <3>. QED  BY <2>1, ChunkFits DEF n
  <2>3. /\ part.s = part.count /\ Len(out) = part.lba + part.s - req.lba
        /\ req.lba <= part.lba
    BY <1>1 DEF IInv, Issued, Moving
  <2>4. req.lba <= lba /\ lba + n <= req.lba + req.count
    BY <1>2, <2>2, <2>3, SMTT(30)
  <2>. HIDE DEF lba, left
  <2>. QED  BY <1>1, <1>2, <1>4, <2>1, <2>2, <2>4, IssueNamed
<1>. QED  BY <1>3, <1>4 DEF NextChunk

\* Every step keeps the drive to sectors that were asked for.
LEMMA StepNamed == IInv /\ [Next]_vars => Named
<1>. SUFFICES ASSUME IInv, [Next]_vars PROVE Named
  OBVIOUS
<1>d. /\ drive \in DriveState /\ drive.lba \in Nat /\ drive.left \in Nat
  BY DEF IInv, TypeOK, DriveState
<1>0. ASSUME Narrows PROVE Named
  BY <1>0 DEF Narrows, Named
<1>1. ASSUME UNCHANGED drive PROVE Named
  BY <1>0, <1>1 DEF Narrows, Span, Pending
<1>2. ASSUME NEW c \in {"identify", "flush"}, NEW m \in Nat, NEW k \in Nat, Command(c, m, k) PROVE Named
  <2>1. drive' = drive \/ drive'.cmd = c
    BY <1>2, <1>d, Commanded
  <2>. QED  BY <1>0, <2>1 DEF Narrows, Span, Pending
<1>3. ASSUME drive'.cmd = drive.cmd, drive'.lba = drive.lba, drive'.left = drive.left, drive'.got => drive.got
      PROVE  Named
  <2>1. Span' \subseteq Span
    BY <1>3, <1>d DEF Span
  <2>. QED  BY <1>0, <1>3, <2>1 DEF Narrows, Pending
<1>4. CASE ata_init
  <2>1. CASE kind = "no master"
    <3>1. drive' = [drive EXCEPT !.st = "off"] \/ UNCHANGED drive
      BY <1>4, <2>1, Zenon DEF ata_init
    <3>. QED  BY <1>1, <1>3, <1>d, <3>1 DEF DriveState
  <2>2. CASE kind # "no master"
    <3>1. Command("identify", 0, 1) \/ UNCHANGED drive
      BY <1>4, <2>2, Zenon DEF ata_init
    <3>. QED  BY <1>1, <1>2, <3>1
  <2>. QED  BY <2>1, <2>2
<1>5. CASE Identified
  BY <1>3, <1>5, <1>d DEF Identified, DriveState
<1>6. CASE ata_wait_not_busy \/ NotADisk \/ ata_poll \/ FlushWait \/ ata_allow_writes \/ UNCHANGED vars
  BY <1>1, <1>6, Zenon DEF ata_wait_not_busy, NotADisk, ata_poll, FlushWait, ata_allow_writes, Poll, vars
<1>7. CASE CacheFlush
  BY <1>2, <1>7 DEF CacheFlush
<1>8. CASE InSector \/ OutSector
  <2>1. drive' = Moved /\ pc = "data"
    BY <1>8 DEF InSector, OutSector, MoveSector
  <2>2. drive.left > 0 /\ ~(drive.got /\ ~(drive.cmd = "write"))
    BY <2>1 DEF IInv, DriveInside
  <2>3. /\ drive'.cmd = drive.cmd /\ drive'.lba = drive.lba + 1 /\ drive'.left = drive.left - 1
    BY <1>d, <2>1, <2>2, MovedState
  <2>4. Span' \subseteq Span
    BY <1>d, <2>2, <2>3 DEF Span
  <2>. QED  BY <1>0, <2>3, <2>4 DEF Narrows, Pending
<1>9. CASE DriveReady
  <2>1. drive'.cmd = drive.cmd /\ drive'.lba = drive.lba /\ drive'.left = drive.left /\ (drive'.got => drive.got)
    BY <1>9, <1>d, Zenon DEF DriveReady, DriveState
  <2>. QED  BY <1>3, <2>1
<1>10. CASE ata_read \/ ata_write
  BY <1>10, CallNamed, AtaAssumption, SMTT(30) DEF ata_read, ata_write
<1>. QED  BY <1>4, <1>5, <1>6, <1>7, <1>8, <1>9, <1>10, NextChunkNamed DEF Next, Driver

\* The drive stores at most the sector it was given, and only that of a write.
LEMMA StoresPending ==
  ASSUME IInv, [Next]_vars
  PROVE  /\ DOMAIN cache' = DOMAIN cache
         /\ \A n \in DOMAIN cache : cache'[n] = cache[n] \/ (n \in Pending /\ cache'[n] = New)
<1>1. cache' = cache \/ (drive.got /\ cache' = Stored)
  BY Zenon DEF Next, Driver, ata_init, Identified, ata_wait_not_busy, NotADisk, ata_poll, InSector, OutSector,
     MoveSector, NextChunk, CacheFlush, FlushWait, DriveReady, ata_read, ata_write, Call, ata_allow_writes, Poll,
     Stored, vars
<1>2. CASE drive.got /\ cache' = Stored
  <2>1. drive.cmd = "write" /\ drive.lba > 0 /\ drive.lba \in Nat /\ drive.left \in Nat
    BY <1>2 DEF IInv, TypeOK, DriveState, DriveInside
  <2>2. drive.lba - 1 \in Pending
    BY <1>2, <2>1 DEF Pending, Span
  <2>. QED  BY <1>2, <2>2 DEF Stored, IInv, TypeOK
<1>. QED  BY <1>1, <1>2 DEF IInv, TypeOK

\* A command that was given up stays so.
LEMMA LateStays == IInv /\ [Next]_vars /\ late => late'
<1>. SUFFICES ASSUME IInv, [Next]_vars, late PROVE late'
  OBVIOUS
<1>1. ASSUME NEW r \in {0, -1}, Finish(r) PROVE late'
  BY <1>1, Zenon DEF Finish
<1>2. ASSUME NEW op, NEW lba, NEW count, Issue(op, lba, count) PROVE late'
  BY <1>1, <1>2, Zenon DEF Issue
<1>3. ASSUME NEW k, Poll(k) PROVE late'
  BY <1>3 DEF Poll
<1>4. CASE ata_init \/ Identified \/ ata_wait_not_busy \/ NotADisk \/ ata_poll \/ FlushWait
  BY <1>1, <1>3, <1>4, Zenon DEF ata_init, Identified, ata_wait_not_busy, NotADisk, ata_poll, FlushWait
<1>5. CASE InSector \/ OutSector \/ NextChunk \/ CacheFlush
  BY <1>1, <1>2, <1>5, Zenon DEF InSector, OutSector, MoveSector, NextChunk, CacheFlush
<1>6. CASE ata_read \/ ata_write
  BY <1>2, <1>6 DEF ata_read, ata_write, Call
<1>7. CASE DriveReady \/ ata_allow_writes \/ UNCHANGED vars
  BY <1>7, Zenon DEF DriveReady, ata_allow_writes, vars
<1>. QED  BY <1>4, <1>5, <1>6, <1>7 DEF Next, Driver

\* Inside a call the block device does not see the driver.
LEMMA Moves ==
  ASSUME pc # "idle", pc' # "idle", UNCHANGED <<cache, allowed, failed, req, late>>
  PROVE  Abstract!Move
  BY DEF Abstract!Move, Result

\* A call that gives up answers with an error.
LEMMA AnswersError ==
  ASSUME pc # "idle", Finish(-1), UNCHANGED <<cache, allowed, failed, req>>
  PROVE  Abstract!Answer
<1>1. Result' = Abstract!Error
  BY DEF Finish, Result, Abstract!Error
<1>. QED  BY <1>1 DEF Abstract!Answer, Finish

\* A call that succeeds answers.
LEMMA Answers ==
  ASSUME IInv, pc # "idle", Finish(0), UNCHANGED <<cache, allowed, failed, req>>, Abstract!Answered
  PROVE  Abstract!Answer
<1>1. Result'.ret = 0
  BY DEF Finish, Result
<1>2. late' = late
  BY DEF Finish, IInv, TypeOK
<1>. QED  BY <1>1, <1>2 DEF Abstract!Answer, Finish

\* A call opens a request, or is refused at once.
LEMMA CallAsks ==
  ASSUME IInv, ~late, NEW op \in {"read", "write"}, NEW lba, NEW count, Call(op, lba, count)
  PROVE  Abstract!Ask
<1>1. /\ pc = "idle" /\ failed' = FALSE /\ UNCHANGED <<cache, allowed>>
      /\ Issue(op, lba, IF op = "read" THEN Chunk(count) ELSE count)
  BY DEF Call
<1>2. CASE pc' = "wait" /\ UNCHANGED late
  BY <1>1, <1>2 DEF Abstract!Ask, Abstract!Nothing, Result
<1>3. CASE Finish(-1)
  <2>1. Result' = Abstract!Error
    BY <1>3 DEF Finish, Result, Abstract!Error
  <2>. QED  BY <1>1, <1>3, <2>1 DEF Abstract!Ask, Finish
<1>. QED  BY <1>1, <1>2, <1>3 DEF Issue

\* A read is over when every sector has come.
LEMMA ReadAnswers ==
  ASSUME IInv, ~late, NextChunk PROVE Abstract!Answer \/ Abstract!Move
<1>. DEFINE left == req.count - Len(out)
<1>1. pc = "next" /\ req.op = "read" /\ UNCHANGED <<cache, allowed, failed, req, out>>
  BY DEF NextChunk, IInv, DriveInside
<1>2. CASE pc' = "wait" /\ UNCHANGED late
  BY <1>1, <1>2, Moves
<1>3. CASE Finish(-1)
  BY <1>1, <1>3, AnswersError
<1>4. CASE ~(left > 0) /\ Finish(0)
  <2>1. part.s = part.count /\ Len(out) = part.lba + part.s - req.lba
    BY <1>1 DEF IInv, Issued, Moving
  <2>2. \A k \in 1..Len(out) : out[k] = cache[req.lba + k - 1]
    BY <1>1 DEF IInv, Transferred
  <2>3. /\ req.count > 0 /\ part.lba + part.count <= Sectors
        /\ part.lba + part.count <= req.lba + req.count
    BY <1>1 DEF IInv, Issued
  <2>4. /\ req.lba \in Nat /\ req.count \in Nat /\ part.lba \in Nat /\ part.count \in Nat
        /\ out \in Seq(Value) /\ Len(out) \in Nat /\ DOMAIN cache = 0..Sectors - 1
    BY DEF IInv, TypeOK, Request, Part
  <2>5. Len(out) = req.count /\ req.lba + req.count <= Sectors
    BY <1>4, <2>1, <2>2, <2>3, <2>4
  <2>6. out = [k \in 1..req.count |-> cache[req.lba + k - 1]]
    BY <2>2, <2>4, <2>5
  <2>7. Result'.data = out
    BY <1>1, <1>4 DEF Result, Finish
  <2>8. Abstract!Asked \subseteq DOMAIN cache
    BY <2>4, <2>5, AtaAssumption DEF Abstract!Asked
  <2>9. Abstract!Answered
    BY <1>1, <2>3, <2>6, <2>7, <2>8 DEF Abstract!Answered
  <2>. QED  BY <1>1, <1>4, <2>9, Answers
<1>. QED  BY <1>1, <1>2, <1>3, <1>4 DEF NextChunk, Issue

\* A write is over when the drive rests: it has stored everything, but for a last sector it failed on.
LEMMA WriteAnswers ==
  ASSUME IInv, ~late, FlushWait PROVE Abstract!Answer \/ Abstract!Move
<1>1. pc = "flushed" /\ UNCHANGED <<drive, cache, allowed, failed, req, part, out>>
  BY DEF FlushWait, Poll, driverVars
<1>2. CASE Poll("flushed")
  BY <1>1, <1>2, Moves DEF Poll
<1>3. CASE Finish(-1)
  BY <1>1, <1>3, AnswersError
<1>4. CASE ~Busy /\ Finish(0)
  <2>0. req.op = "write" /\ ~drive.got
    BY <1>1, <1>4 DEF IInv, InStep, Busy
  <2>1. req.op = "write" /\ part.s = part.count /\ ~drive.got
    BY <1>1, <2>0 DEF IInv, Issued, Moving
  <2>2. /\ part.count > 0 /\ part.lba + part.count <= Sectors /\ allowed
        /\ part.lba = req.lba /\ part.count = req.count
    BY <1>1, <2>1 DEF IInv, Issued
  <2>3. \A n \in part.lba..part.lba + part.s - 1 : cache[n] = New \/ (failed /\ n = part.lba + part.s - 1)
    BY <1>1, <2>1 DEF IInv, Transferred
  <2>4. part.lba \in Nat /\ part.count \in Nat /\ DOMAIN cache = 0..Sectors - 1
    BY DEF IInv, TypeOK, Part
  <2>5. Abstract!Asked = part.lba..part.lba + part.s - 1
    BY <2>1, <2>2 DEF Abstract!Asked
  <2>6. Abstract!Asked \subseteq DOMAIN cache
    BY <2>1, <2>2, <2>4, <2>5, AtaAssumption
  <2>7. Abstract!Answered
    BY <2>1, <2>2, <2>3, <2>5, <2>6 DEF Abstract!Answered
  <2>. QED  BY <1>1, <1>4, <2>7, Answers
<1>. QED  BY <1>2, <1>3, <1>4 DEF FlushWait

\* ata_init answers.
LEMMA InitAnswers ==
  ASSUME IInv, Identified PROVE Abstract!Answer
<1>1. pc = "data" /\ req.op = "init" /\ UNCHANGED <<cache, allowed, failed, req>>
  BY DEF Identified
<1>2. CASE Finish(-1)
  BY <1>1, <1>2, AnswersError
<1>3. CASE Finish(0)
  BY <1>1, <1>3, Answers DEF Abstract!Answered
<1>. QED  BY <1>2, <1>3 DEF Identified

\* What the drive does by itself: it stores a sector of the open write, fails, or goes on.
LEMMA DriveSteps ==
  ASSUME IInv, ~late, DriveReady PROVE Abstract!Store \/ Abstract!Fail \/ Abstract!Move
<1>1. pc # "idle" /\ pc' = pc /\ UNCHANGED <<allowed, late, req, part, out, ret>>
  BY DEF DriveReady, driverVars, IInv, InStep
<1>2. Result' = Result
  BY <1>1 DEF Result
<1>3. CASE cache' = cache /\ failed' = failed
  BY <1>1, <1>3, Moves
<1>4. CASE cache' = cache /\ failed' = TRUE
  BY <1>1, <1>2, <1>4 DEF Abstract!Fail
<1>5. CASE cache' = Stored /\ failed' = failed /\ drive.got
  <2>1. /\ req.op = "write" /\ part.s > 0 /\ drive.lba = part.lba + part.s
        /\ drive.st = "busy" /\ drive.cmd = "write"
    BY <1>5 DEF IInv, InStep
  <2>2. pc \notin {"init", "idle", "next"}
    BY <1>1, <2>1, IdleState DEF IInv, DriveInside, InStep
  <2>3. allowed /\ part.lba = req.lba /\ part.count = req.count /\ part.lba + part.count <= Sectors
    BY <2>1, <2>2 DEF IInv, Issued
  <2>4. /\ part.lba \in Nat /\ part.s \in Nat /\ part.count \in Nat /\ drive.left \in Nat
        /\ DOMAIN cache = 0..Sectors - 1
    BY DEF IInv, TypeOK, Part, DriveState
  <2>5. part.s <= part.count
    BY <2>1, <2>2, <2>4 DEF IInv, Issued
  <2>6. drive.lba - 1 \in Abstract!Asked \cap DOMAIN cache
    BY <2>1, <2>3, <2>4, <2>5, AtaAssumption, SMTT(30) DEF Abstract!Asked
  <2>. QED  BY <1>1, <1>2, <1>5, <2>1, <2>3, <2>6, Zenon DEF Abstract!Store, Stored
<1>6. CASE cache' = Stored /\ failed' = failed /\ ~drive.got
  BY <1>3, <1>6 DEF Stored
<1>. QED  BY <1>3, <1>4, <1>5, <1>6, Zenon DEF DriveReady

\* The other steps of the driver.
LEMMA DriverSteps ==
  ASSUME IInv, ~late, Driver PROVE Abstract!Answer \/ Abstract!Move
<1>1. CASE ata_init
  BY <1>1, Moves, AnswersError, Zenon DEF ata_init
<1>2. CASE ata_wait_not_busy \/ NotADisk \/ ata_poll
  <2>1. ASSUME NEW k \in {"wait", "ready", "data"}, Poll(k), pc # "idle" PROVE Abstract!Move
    BY <2>1, Moves DEF Poll, driverVars
  <2>. QED  BY <1>2, <2>1, AnswersError DEF ata_wait_not_busy, NotADisk, ata_poll
<1>3. CASE InSector \/ OutSector \/ CacheFlush
  BY <1>3, Moves DEF InSector, OutSector, MoveSector, CacheFlush
<1>. QED  BY <1>1, <1>2, <1>3, InitAnswers, ReadAnswers, WriteAnswers DEF Driver

\* Every behaviour of the driver and the drive is one of the block device.  Until a command
\* is given up, a read that succeeds returns the sectors asked for, and a write that succeeds
\* has stored its own, but for the last one if the drive failed on it.  Always, no sector is
\* stored but one that a write named while writes were allowed, and no command leaves the disk.
THEOREM AtaImplements == Spec => Implements
<1>1. Init => Abstract!Init
  <2>. SUFFICES ASSUME Init PROVE Abstract!Init
    OBVIOUS
  <2>1. Span = {} /\ Pending = {} /\ Result = Abstract!Nothing /\ req.op = "init"
    BY IdleState DEF Init, Span, Pending, Result, Abstract!Nothing
  <2>. QED  BY <2>1, SMTT(30) DEF Init, Sector, Abstract!Init
<1>2. IInv /\ IInv' /\ [Next]_vars => [Abstract!Next]_(Abstract!vars)
  <2>. SUFFICES ASSUME IInv, IInv', [Next]_vars PROVE [Abstract!Next]_(Abstract!vars)
    OBVIOUS
  <2>1. /\ Span' \subseteq (Span \cup Abstract!Asked') \cap (0..Sectors - 1)
        /\ Pending' \subseteq Pending \cup {n \in Abstract!Asked' : req'.op = "write" /\ allowed'}
    BY SpanInside, StepNamed DEF Named
  <2>2. CASE late
    <3>1. Abstract!Untrusted
      BY <2>2, LateStays, StoresPending DEF Abstract!Untrusted
    <3>. QED  BY <2>1, <3>1 DEF Abstract!Next
  <2>3. CASE ~late
    <3>1. CASE Driver
      BY <2>1, <2>3, <3>1, DriverSteps DEF Abstract!Next
    <3>2. CASE DriveReady
      BY <2>1, <2>3, <3>2, DriveSteps DEF Abstract!Next
    <3>3. CASE ata_read \/ ata_write
      <4>1. Abstract!Ask
        BY <2>3, <3>3, CallAsks DEF ata_read, ata_write
      <4>. QED  BY <2>1, <4>1 DEF Abstract!Next
    <3>4. CASE ata_allow_writes
      <4>1. Abstract!AllowWrites
        BY <3>4, SMTT(30) DEF ata_allow_writes, driverVars, Abstract!AllowWrites, Result
      <4>. QED  BY <2>1, <4>1 DEF Abstract!Next
    <3>5. CASE UNCHANGED vars
      BY <3>5 DEF vars, Abstract!vars, Span, Pending, Result
    <3>. QED  BY <3>1, <3>2, <3>3, <3>4, <3>5 DEF Next
  <2>. QED  BY <2>2, <2>3
<1>. QED  BY <1>1, <1>2, AtaInductive, PTL DEF Spec, Implements, Abstract!Spec
=============================================================================
