-------------------------------- MODULE Heap --------------------------------
(***************************************************************************)
(* The kernel heap, kernel/mm/heap.c: a doubly linked list of block        *)
(* headers that tile the heap, first-fit allocation that splits a block,   *)
(* and a free that merges with both neighbours.                            *)
(*                                                                         *)
(* Addresses are byte offsets from HEAP_START.  hdr maps the address of    *)
(* each header on the list to its fields; a header swallowed by a merge    *)
(* leaves hdr.  The list is in address order (an invariant below), so the  *)
(* first fit on the walk from heap_head is the lowest address that fits.   *)
(* Only the shell's context calls the heap, so each call is one step.      *)
(***************************************************************************)
EXTENDS Integers, FiniteSets, FiniteSetsExt

CONSTANTS
  HEADER_SIZE,        \* sizeof(struct block_header), 32
  HEAP_INITIAL_SIZE,  \* bytes mapped by heap_init
  Requests            \* the sizes callers ask for

ASSUME HeapAssumption ==
  /\ HEADER_SIZE \in Nat \ {0} /\ HEADER_SIZE % 8 = 0
  /\ HEAP_INITIAL_SIZE \in Nat /\ HEAP_INITIAL_SIZE % 8 = 0
  /\ HEAP_INITIAL_SIZE >= HEADER_SIZE + 8
  /\ Requests \subseteq Nat

VARIABLES
  hdr,    \* the headers on the list
  asked   \* for each allocated block, the size its owner asked for

vars == <<hdr, asked>>

NULL == -1
ALIGN8(x) == ((x + 7) \div 8) * 8
Blocks == DOMAIN hdr

\* heap_init: one free block spans the heap.
Init ==
  /\ hdr = [b \in {0} |-> [size |-> HEAP_INITIAL_SIZE - HEADER_SIZE,
                           free |-> TRUE, next |-> NULL, prev |-> NULL]]
  /\ asked = [b \in {} |-> 0]

\* In the headers h, the free flag of block b becomes v.
Mark(h, b, v) == [h EXCEPT ![b].free = v]

\* Mutant of Split: the old successor's back link is not updated.
SplitNoBackLink(b, n) ==
  LET split == b + HEADER_SIZE + n
  IN [c \in Blocks \cup {split} |->
        IF c = split
          THEN [size |-> hdr[b].size - n - HEADER_SIZE, free |-> TRUE,
                next |-> hdr[b].next, prev |-> b]
          ELSE [size |-> IF c = b THEN n ELSE hdr[c].size,
                free |-> c # b /\ hdr[c].free,
                next |-> IF c = b THEN split ELSE hdr[c].next,
                prev |-> hdr[c].prev]]

\* The block b cut in two: its first n bytes allocated, the rest a free block.
Split(b, n) ==
  LET split == b + HEADER_SIZE + n
  IN [c \in Blocks \cup {split} |->
        IF c = split
          THEN [size |-> hdr[b].size - n - HEADER_SIZE, free |-> TRUE,
                next |-> hdr[b].next, prev |-> b]
          ELSE [size |-> IF c = b THEN n ELSE hdr[c].size,
                free |-> c # b /\ hdr[c].free,
                next |-> IF c = b THEN split ELSE hdr[c].next,
                prev |-> IF c = hdr[b].next THEN split ELSE hdr[c].prev]]

\* Mutant of Fits: the header counts as payload.
FitsWithHeader(b, n) == hdr[b].free /\ hdr[b].size + HEADER_SIZE >= n

Fits(b, n) == hdr[b].free /\ hdr[b].size >= n
FirstFit(b, n) == Fits(b, n) /\ \A c \in Blocks : Fits(c, n) => b <= c

\* A request of 0 bytes, or one that nothing fits, returns NULL and changes nothing.
kmalloc(size) ==
  LET n == ALIGN8(size)
  IN /\ size # 0
     /\ \E b \in Blocks :
          /\ FirstFit(b, n)
          /\ hdr' = IF hdr[b].size >= n + HEADER_SIZE + 8
                      THEN Split(b, n) ELSE Mark(hdr, b, FALSE)
          /\ asked' = [c \in DOMAIN asked \cup {b} |-> IF c = b THEN size ELSE asked[c]]

\* In the headers h, block b swallows the one after it.
Absorb(h, b) ==
  LET n == h[b].next
  IN [c \in DOMAIN h \ {n} |->
        [size |-> IF c = b THEN h[b].size + HEADER_SIZE + h[n].size ELSE h[c].size,
         free |-> h[c].free,
         next |-> IF c = b THEN h[n].next ELSE h[c].next,
         prev |-> IF c = h[n].next THEN b ELSE h[c].prev]]

MergeNext(h, b) ==
  IF h[b].next # NULL /\ h[h[b].next].free THEN Absorb(h, b) ELSE h
MergePrev(h, b) ==
  IF h[b].prev # NULL /\ h[h[b].prev].free THEN Absorb(h, h[b].prev) ELSE h

\* Mutants of kfree: only the successor is merged; only the predecessor is.
FreeMergesNext(b) ==
  /\ ~hdr[b].free
  /\ hdr' = MergeNext(Mark(hdr, b, TRUE), b)
  /\ asked' = [c \in DOMAIN asked \ {b} |-> asked[c]]
FreeMergesPrev(b) ==
  /\ ~hdr[b].free
  /\ hdr' = MergePrev(Mark(hdr, b, TRUE), b)
  /\ asked' = [c \in DOMAIN asked \ {b} |-> asked[c]]

\* The owner of the block with header b frees it.
kfree(b) ==
  /\ ~hdr[b].free
  /\ hdr' = MergePrev(MergeNext(Mark(hdr, b, TRUE), b), b)
  /\ asked' = [c \in DOMAIN asked \ {b} |-> asked[c]]

Next == (\E n \in Requests : kmalloc(n)) \/ (\E b \in Blocks : kfree(b))

Spec == Init /\ [][Next]_vars

-----------------------------------------------------------------------------
\* The first byte past a block.
End(h, b) == b + HEADER_SIZE + h[b].size

\* Headers inside the heap, with the fields of struct block_header.
HeadersOf(h) ==
  /\ DOMAIN h \subseteq 0..HEAP_INITIAL_SIZE
  /\ h \in [DOMAIN h -> [size : Nat, free : BOOLEAN,
                         next : DOMAIN h \cup {NULL}, prev : DOMAIN h \cup {NULL}]]

TiledBy(h) ==
  /\ 0 \in DOMAIN h
  /\ \A b \in DOMAIN h :
       /\ b % 8 = 0 /\ h[b].size % 8 = 0 /\ h[b].size >= 8
       /\ End(h, b) <= HEAP_INITIAL_SIZE
       /\ End(h, b) = IF h[b].next = NULL THEN HEAP_INITIAL_SIZE ELSE h[b].next
       /\ h[b].next # NULL => h[h[b].next].prev = b
       /\ h[b].prev = NULL <=> b = 0
       /\ h[b].prev # NULL => h[h[b].prev].next = b
       /\ \A c \in DOMAIN h : b < c => End(h, b) <= c

\* Block b and its successor are both free.
FreePair(h, b) == h[b].free /\ h[b].next # NULL /\ h[h[b].next].free

\* Types: the headers' fields, and a size asked for each allocated block.
TypeOK ==
  /\ HeadersOf(hdr)
  /\ asked \in [{b \in Blocks : ~hdr[b].free} -> Requests]

\* The headers tile the heap: each block ends where its successor's header
\* starts, the last one ends with the heap, the back links mirror the forward
\* ones, and nothing overlaps.  kmalloc's split and kfree's two merges keep it,
\* so the list loses no byte and is in address order.
Tiled == TiledBy(hdr)

\* kfree coalesces completely: no free block is followed by a free block.
Coalesced == \A b \in Blocks : ~FreePair(hdr, b)

\* When every block has been freed, in any order, the heap is what heap_init
\* left: fragmentation does not outlive the allocations that caused it.
FreedIsFresh == (\A b \in Blocks : hdr[b].free) => Init

\* kmalloc and kfree implement the allocator their callers rely on.
Granted ==
  {[addr |-> b + HEADER_SIZE, len |-> hdr[b].size, asked |-> asked[b]] :
     b \in {c \in Blocks : ~hdr[c].free}}
Abstract == INSTANCE Allocator
              WITH ArenaSize <- HEAP_INITIAL_SIZE, granted <- Granted
Implements == Abstract!Spec
=============================================================================
