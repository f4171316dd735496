------------------------------ MODULE Allocator ------------------------------
(***************************************************************************)
(* What kmalloc and kfree promise their callers, with no header, list or   *)
(* policy in sight: a granted block is 8-byte aligned, at least as long as *)
(* asked, inside the arena and apart from every other granted block, and   *)
(* stays where it is until its owner frees it.                             *)
(***************************************************************************)
EXTENDS Integers

CONSTANTS ArenaSize, Requests

VARIABLE granted      \* blocks in their owners' hands: address, length, size asked for

Apart(x, y) == x.addr + x.len <= y.addr \/ y.addr + y.len <= x.addr
Proper(x) ==
  /\ x.asked \in Requests \ {0} /\ x.len >= x.asked
  /\ x.addr % 8 = 0 /\ 0 <= x.addr /\ x.addr + x.len <= ArenaSize

Init == granted = {}

Grant ==
  \E x \in granted' :
    /\ granted' = granted \cup {x}
    /\ Proper(x)
    /\ \A y \in granted : Apart(x, y)

Release == \E x \in granted : granted' = granted \ {x}

Next == Grant \/ Release

Spec == Init /\ [][Next]_granted
=============================================================================
