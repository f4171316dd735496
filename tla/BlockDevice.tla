---------------------------- MODULE BlockDevice -----------------------------
(***************************************************************************)
(* What the disk driver promises to the file system above it: a read that  *)
(* succeeds returns exactly the sectors asked for; a write that succeeds   *)
(* has stored its sectors, except that the drive's error on the last one   *)
(* may have gone unnoticed; no request touches a sector outside its own.   *)
(* Ata shows that the ATA driver keeps this promise.                       *)
(***************************************************************************)
EXTENDS Integers

CONSTANTS
  Sectors,   \* the size of the device
  New        \* what a write writes

VARIABLES
  store,     \* what a read of each sector would return
  span,      \* the sectors of the drive's command that it has yet to move or to store
  pending,   \* those of them that it may store
  busy, req, \* whether a request is open; the last one: op, lba, count
  result,    \* and what it returned: ret and data
  allowed,   \* whether writes are
  failed,    \* the drive has reported an error in this request
  trusted    \* no command was ever given up while the drive was at work on it

vars == <<store, span, pending, busy, req, result, allowed, failed, trusted>>

Nothing == [ret |-> 0, data |-> <<>>]
Error == [ret |-> -1, data |-> <<>>]
Asked == req.lba..req.lba + req.count - 1

Init ==
  /\ store = [n \in 0..Sectors - 1 |-> n] /\ span = {} /\ pending = {} /\ busy = TRUE /\ req.op = "init"
  /\ result = Nothing /\ allowed = FALSE /\ failed = FALSE /\ trusted = TRUE

\* A request is opened, or refused at once.
Ask ==
  /\ ~busy /\ failed' = FALSE /\ UNCHANGED <<store, allowed>>
  /\ IF busy' THEN result' = Nothing /\ UNCHANGED trusted ELSE result' = Error

\* An open write replaces one of its sectors, if writes are allowed.
Store ==
  /\ busy /\ req.op = "write" /\ allowed
  /\ \E n \in Asked \cap DOMAIN store : store' = [store EXCEPT ![n] = New]
  /\ UNCHANGED <<busy, req, result, allowed, failed, trusted>>

Fail == busy /\ failed' /\ UNCHANGED <<store, busy, req, result, allowed, trusted>>

\* The request is answered: in full, or with an error.
Answered ==
  /\ req.op # "init" => req.count > 0 /\ Asked \subseteq DOMAIN store
  /\ req.op = "read" => result'.data = [k \in 1..req.count |-> store[req.lba + k - 1]]
  /\ req.op = "write" => allowed /\ \A n \in Asked : store[n] = New \/ (failed /\ n = req.lba + req.count - 1)
Answer ==
  /\ busy /\ ~busy' /\ UNCHANGED <<store, req, allowed, failed>>
  /\ \/ result'.ret = 0 /\ Answered /\ UNCHANGED trusted
     \/ result' = Error

AllowWrites == ~busy /\ UNCHANGED <<store, busy, req, result, failed, trusted>>
Move == UNCHANGED <<store, busy, req, result, allowed, failed, trusted>>

\* The driver cannot tell the late data of a command it gave up from the answer to its
\* next one, so no answer is promised then, but only sectors of its command are stored.
Untrusted ==
  /\ ~trusted /\ ~trusted' /\ DOMAIN store' = DOMAIN store
  /\ \A n \in DOMAIN store : store'[n] = store[n] \/ (n \in pending /\ store'[n] = New)

\* The drive takes on only sectors of the device that the request names, and stores only
\* what a write named while writes were allowed.
Next ==
  /\ Ask \/ Store \/ Fail \/ Answer \/ AllowWrites \/ Move \/ Untrusted
  /\ span' \subseteq (span \cup Asked') \cap (0..Sectors - 1)
  /\ pending' \subseteq pending \cup {n \in Asked' : req'.op = "write" /\ allowed'}

Spec == Init /\ [][Next]_vars
=============================================================================
