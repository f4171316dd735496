----------------------------- MODULE Heap_proofs -----------------------------
(***************************************************************************)
(* Proofs about Heap for every heap size, header size and set of requests. *)
(* The inductive invariant is the conjunction of the checked invariants    *)
(* TypeOK, Tiled and Coalesced; the lemmas say what one split and one      *)
(* merge do to a well-formed list of headers.                              *)
(***************************************************************************)
EXTENDS Heap, TLAPS

WellFormed(h) == HeadersOf(h) /\ TiledBy(h)

\* ALIGN8 rounds up to a multiple of 8.
LEMMA AlignFacts ==
  ASSUME NEW x \in Nat
  PROVE  /\ ALIGN8(x) \in Nat /\ ALIGN8(x) % 8 = 0 /\ ALIGN8(x) >= x
         /\ x # 0 => ALIGN8(x) >= 8
BY DEF ALIGN8

\* What merging b with its successor n makes of the headers h: the fields of g.
AbsorbResult(h, b, n, g) ==
  /\ n \in DOMAIN h /\ n # b /\ b \in Nat /\ n \in Nat /\ n = End(h, b)
  /\ h[n].next # b /\ h[n].next # n
  /\ DOMAIN g = DOMAIN h \ {n}
  /\ \A c \in DOMAIN g :
       /\ g[c].size = IF c = b THEN h[b].size + HEADER_SIZE + h[n].size ELSE h[c].size
       /\ g[c].free = h[c].free
       /\ g[c].next = IF c = b THEN h[n].next ELSE h[c].next
       /\ g[c].prev = IF c = h[n].next THEN b ELSE h[c].prev
       /\ g[c] \in [size : Nat, free : BOOLEAN, next : DOMAIN h \cup {NULL},
                    prev : DOMAIN h \cup {NULL}]

\* kfree's merge on a well-formed list does that, and nothing else.
LEMMA AbsorbFields ==
  ASSUME NEW h, WellFormed(h), NEW b \in DOMAIN h, h[b].next # NULL,
         NEW n, n = h[b].next, NEW g, g = Absorb(h, b)
  PROVE  AbsorbResult(h, b, n, g)
<1>1. /\ n \in DOMAIN h /\ b \in Nat /\ n \in Nat
      /\ h[b].size \in Nat /\ h[n].size \in Nat /\ HEADER_SIZE \in Nat \ {0}
      /\ n = End(h, b)
  BY HeapAssumption DEF WellFormed, HeadersOf, TiledBy
<1>2. n > b
  BY <1>1 DEF End
<1>3. h[n].next # NULL => h[n].next \in Nat /\ h[n].next > n
  <2>1. h[n].next # NULL => h[n].next \in DOMAIN h /\ h[n].next = End(h, n)
    BY <1>1 DEF WellFormed, HeadersOf, TiledBy
  <2>2. DOMAIN h \subseteq Nat
    BY HeapAssumption DEF WellFormed, HeadersOf
  <2>. QED
    BY <1>1, <2>1, <2>2, HeapAssumption DEF End
<1>4. h[n].next # b /\ h[n].next # n
  BY <1>1, <1>2, <1>3 DEF NULL
<1>5. DOMAIN g = DOMAIN h \ {n}
  BY DEF Absorb
<1>6. ASSUME NEW c \in DOMAIN g
      PROVE  /\ g[c].size = IF c = b THEN h[b].size + HEADER_SIZE + h[n].size ELSE h[c].size
             /\ g[c].free = h[c].free
             /\ g[c].next = IF c = b THEN h[n].next ELSE h[c].next
             /\ g[c].prev = IF c = h[n].next THEN b ELSE h[c].prev
             /\ g[c] \in [size : Nat, free : BOOLEAN, next : DOMAIN h \cup {NULL},
                          prev : DOMAIN h \cup {NULL}]
  <2>1. CASE c = b
    BY <1>1, <1>4, <1>5, <2>1 DEF Absorb, WellFormed, HeadersOf
  <2>2. CASE c # b /\ c = h[n].next
    BY <1>1, <1>4, <1>5, <2>2 DEF Absorb, WellFormed, HeadersOf
  <2>3. CASE c # b /\ c # h[n].next
    BY <1>1, <1>4, <1>5, <2>3 DEF Absorb, WellFormed, HeadersOf
  <2>. QED  BY <2>1, <2>2, <2>3
<1>. QED  BY <1>1, <1>2, <1>4, <1>5, <1>6 DEF AbsorbResult

\* A merge keeps the list well formed.
LEMMA AbsorbWellFormed ==
  ASSUME NEW h, WellFormed(h), NEW b \in DOMAIN h, h[b].next # NULL
  PROVE  WellFormed(Absorb(h, b))
<1>. DEFINE n == h[b].next
            g == Absorb(h, b)
<1>0. AbsorbResult(h, b, n, g)
  BY AbsorbFields
<1>1. /\ n \in DOMAIN h /\ n # b /\ b \in Nat /\ n \in Nat /\ n = End(h, b)
      /\ h[n].next # b /\ h[n].next # n
      /\ DOMAIN g = DOMAIN h \ {n}
      /\ \A c \in DOMAIN g :
           /\ g[c].size = IF c = b THEN h[b].size + HEADER_SIZE + h[n].size ELSE h[c].size
           /\ g[c].free = h[c].free
           /\ g[c].next = IF c = b THEN h[n].next ELSE h[c].next
           /\ g[c].prev = IF c = h[n].next THEN b ELSE h[c].prev
           /\ g[c] \in [size : Nat, free : BOOLEAN, next : DOMAIN h \cup {NULL},
                        prev : DOMAIN h \cup {NULL}]
  BY <1>0 DEF AbsorbResult
<1>2. g = [c \in DOMAIN g |-> g[c]]
  BY DEF Absorb
<1>. HIDE DEF g
<1>3. HEADER_SIZE \in Nat \ {0} /\ HEADER_SIZE % 8 = 0
  BY HeapAssumption
<1>4. /\ DOMAIN h \subseteq Nat
      /\ \A c \in DOMAIN h : h[c].size \in Nat
  BY DEF WellFormed, HeadersOf
<1>5. \A c \in DOMAIN h \ {b} : h[c].next # n
  BY <1>1 DEF WellFormed, TiledBy, NULL
<1>6. \A c \in DOMAIN h \ {n} : h[c].prev = n => c = h[n].next
  BY <1>1 DEF WellFormed, TiledBy, NULL
<1>7. HeadersOf(g)
  <2>1. DOMAIN g \subseteq 0..HEAP_INITIAL_SIZE
    BY <1>1 DEF WellFormed, HeadersOf
  <2>2. ASSUME NEW c \in DOMAIN g
        PROVE  g[c] \in [size : Nat, free : BOOLEAN, next : DOMAIN g \cup {NULL},
                         prev : DOMAIN g \cup {NULL}]
    <3>1. g[c].next \in DOMAIN g \cup {NULL}
      BY <1>1, <1>5
    <3>2. g[c].prev \in DOMAIN g \cup {NULL}
      BY <1>1, <1>6
    <3>. QED  BY <1>1, <3>1, <3>2
  <2>. QED  BY <1>2, <2>1, <2>2 DEF HeadersOf
<1>8. End(g, b) = End(h, n) /\ \A c \in DOMAIN g \ {b} : End(g, c) = End(h, c)
  BY <1>1, <1>3, <1>4 DEF End
<1>9. TiledBy(g)
  <2>1. 0 \in DOMAIN g
    BY <1>1, <1>3, <1>4 DEF WellFormed, TiledBy, End
  <2>2. ASSUME NEW c \in DOMAIN g
        PROVE  /\ c % 8 = 0 /\ g[c].size % 8 = 0 /\ g[c].size >= 8
               /\ End(g, c) <= HEAP_INITIAL_SIZE
               /\ End(g, c) = IF g[c].next = NULL THEN HEAP_INITIAL_SIZE ELSE g[c].next
    <3>1. CASE c = b
      <4>1. /\ h[b].size % 8 = 0 /\ h[n].size % 8 = 0 /\ h[b].size >= 8
            /\ b % 8 = 0 /\ End(h, n) <= HEAP_INITIAL_SIZE
            /\ End(h, n) = IF h[n].next = NULL THEN HEAP_INITIAL_SIZE ELSE h[n].next
        BY <1>1 DEF WellFormed, TiledBy
      <4>2. g[b].size = h[b].size + HEADER_SIZE + h[n].size /\ g[b].next = h[n].next
        BY <1>1
      <4>3. g[b].size % 8 = 0 /\ g[b].size >= 8
        BY <1>1, <1>3, <1>4, <4>1, <4>2
      <4>. QED  BY <1>8, <3>1, <4>1, <4>2, <4>3
    <3>2. CASE c # b
      BY <1>1, <1>8, <3>2 DEF WellFormed, TiledBy
    <3>. QED  BY <3>1, <3>2
  <2>3. ASSUME NEW c \in DOMAIN g
        PROVE  /\ g[c].next # NULL => g[g[c].next].prev = c
               /\ g[c].prev = NULL <=> c = 0
               /\ g[c].prev # NULL => g[g[c].prev].next = c
    <3>1. g[c].next # NULL => g[c].next \in DOMAIN g
      BY <1>7 DEF HeadersOf
    <3>2. g[c].prev # NULL => g[c].prev \in DOMAIN g
      BY <1>7 DEF HeadersOf
    <3>3. g[c].next # NULL => g[g[c].next].prev = c
      BY <1>1, <1>5, <3>1 DEF WellFormed, TiledBy
    <3>4. g[c].prev # NULL => g[g[c].prev].next = c
      BY <1>1, <1>6, <3>2 DEF WellFormed, TiledBy
    <3>5. c = h[n].next => c # 0 /\ b # NULL
      <4>1. b # NULL /\ c \in Nat /\ c # NULL
        BY <1>1, <1>4 DEF NULL
      <4>2. c = h[n].next => End(h, n) = c
        BY <1>1, <4>1 DEF WellFormed, TiledBy
      <4>3. End(h, n) > 0
        <5>1. n \in Nat /\ h[n].size \in Nat
          BY <1>1, <1>4
        <5>. HIDE DEF n
        <5>. QED  BY <1>3, <5>1 DEF End
      <4>. QED  BY <4>1, <4>2, <4>3
    <3>6. g[c].prev = NULL <=> c = 0
      BY <1>1, <3>5 DEF WellFormed, TiledBy
    <3>. QED  BY <3>3, <3>4, <3>6
  <2>4. ASSUME NEW c \in DOMAIN g, NEW d \in DOMAIN g, c < d
        PROVE  End(g, c) <= d
    <3>1. CASE c = b
      <4>1. End(h, b) <= d
        BY <1>1, <2>4, <3>1 DEF WellFormed, TiledBy
      <4>2. n < d
        BY <1>1, <1>4, <4>1
      <4>3. End(h, n) <= d
        BY <1>1, <4>2 DEF WellFormed, TiledBy
      <4>. QED  BY <1>8, <3>1, <4>3
    <3>2. CASE c # b
      BY <1>1, <1>8, <2>4, <3>2 DEF WellFormed, TiledBy
    <3>. QED  BY <3>1, <3>2
  <2>. QED  BY <2>1, <2>2, <2>3, <2>4 DEF TiledBy
<1>. QED  BY <1>7, <1>9 DEF WellFormed, g

\* Setting a block's free field touches no size and no link.
LEMMA MarkWellFormed ==
  ASSUME NEW h, WellFormed(h), NEW b \in DOMAIN h, NEW v \in BOOLEAN,
         NEW g, g = Mark(h, b, v)
  PROVE  /\ WellFormed(g) /\ DOMAIN g = DOMAIN h
         /\ \A c \in DOMAIN h : /\ g[c].size = h[c].size
                                /\ g[c].next = h[c].next
                                /\ g[c].prev = h[c].prev
                                /\ g[c].free = IF c = b THEN v ELSE h[c].free
<1>1. DOMAIN g = DOMAIN h
  BY DEF Mark
<1>2. \A c \in DOMAIN h : /\ g[c].size = h[c].size
                          /\ g[c].next = h[c].next
                          /\ g[c].prev = h[c].prev
                          /\ g[c].free = IF c = b THEN v ELSE h[c].free
  BY DEF WellFormed, HeadersOf, Mark
<1>3. HeadersOf(g)
  BY <1>1 DEF WellFormed, HeadersOf, Mark
<1>4. \A c \in DOMAIN h : End(g, c) = End(h, c)
  BY <1>2 DEF End
<1>5. TiledBy(g)
  <2>1. \A c \in DOMAIN h :
          /\ h[c].next # NULL => h[c].next \in DOMAIN h
          /\ h[c].prev # NULL => h[c].prev \in DOMAIN h
    BY DEF WellFormed, HeadersOf
  <2>2. TiledBy(h)
    BY DEF WellFormed
  <2>3. ASSUME NEW c \in DOMAIN h
        PROVE  /\ c % 8 = 0 /\ g[c].size % 8 = 0 /\ g[c].size >= 8
               /\ End(g, c) <= HEAP_INITIAL_SIZE
               /\ End(g, c) = IF g[c].next = NULL THEN HEAP_INITIAL_SIZE ELSE g[c].next
               /\ g[c].prev = NULL <=> c = 0
    BY <1>2, <1>4, <2>2 DEF TiledBy
  <2>4. ASSUME NEW c \in DOMAIN h
        PROVE  /\ g[c].next # NULL => g[g[c].next].prev = c
               /\ g[c].prev # NULL => g[g[c].prev].next = c
    BY <1>2, <2>1, <2>2 DEF TiledBy
  <2>5. ASSUME NEW c \in DOMAIN h, NEW d \in DOMAIN h, c < d
        PROVE  End(g, c) <= d
    BY <1>4, <2>2, <2>5 DEF TiledBy
  <2>6. 0 \in DOMAIN h
    BY <2>2 DEF TiledBy
  <2>. QED  BY <1>1, <2>3, <2>4, <2>5, <2>6 DEF TiledBy
<1>. QED  BY <1>1, <1>2, <1>3, <1>5 DEF WellFormed

\* What a split at s makes of the headers: the fields of g.
SplitResult(b, n, s, g) ==
  /\ s \in Nat /\ b \in Nat /\ s \notin Blocks /\ s # 0 /\ s # NULL
  /\ b < s /\ s + HEADER_SIZE + 8 <= End(hdr, b) /\ s % 8 = 0
  /\ hdr[b].next # b
  /\ DOMAIN g = Blocks \cup {s}
  /\ g[s] = [size |-> hdr[b].size - n - HEADER_SIZE, free |-> TRUE,
             next |-> hdr[b].next, prev |-> b]
  /\ \A c \in Blocks :
       /\ g[c].size = IF c = b THEN n ELSE hdr[c].size
       /\ g[c].free = (c # b /\ hdr[c].free)
       /\ g[c].next = IF c = b THEN s ELSE hdr[c].next
       /\ g[c].prev = IF c = hdr[b].next THEN s ELSE hdr[c].prev
       /\ g[c] \in [size : Nat, free : BOOLEAN, next : Blocks \cup {s, NULL},
                    prev : Blocks \cup {s, NULL}]

\* kmalloc's split of a block that is large enough does that, and nothing else.
LEMMA SplitFields ==
  ASSUME WellFormed(hdr), NEW b \in Blocks, NEW n \in Nat, n % 8 = 0, n >= 8,
         hdr[b].size >= n + HEADER_SIZE + 8,
         NEW s, s = b + HEADER_SIZE + n, NEW g, g = Split(b, n)
  PROVE  SplitResult(b, n, s, g)
<1>1. /\ b \in Nat /\ Blocks \subseteq Nat /\ hdr[b].size \in Nat
      /\ HEADER_SIZE \in Nat \ {0} /\ HEADER_SIZE % 8 = 0
      /\ b % 8 = 0
  BY HeapAssumption DEF WellFormed, HeadersOf, TiledBy, Blocks
<1>2. /\ s \in Nat /\ b < s /\ s # 0 /\ s # NULL /\ s + HEADER_SIZE + 8 <= End(hdr, b)
      /\ End(hdr, b) \in Nat /\ s < End(hdr, b) /\ b < End(hdr, b)
  BY <1>1 DEF End, NULL
<1>3. s \notin Blocks
  <2>1. s \in Blocks => End(hdr, b) <= s
    BY <1>2 DEF WellFormed, TiledBy, Blocks
  <2>. QED  BY <1>2, <2>1
<1>4. s % 8 = 0
  BY <1>1
<1>5. hdr[b].next # b
  <2>1. hdr[b].next = b => End(hdr, b) = b
    BY <1>1 DEF WellFormed, TiledBy, Blocks, NULL
  <2>. QED  BY <1>1, <1>2, <2>1
<1>6. DOMAIN g = Blocks \cup {s}
  BY DEF Split
<1>7. g[s] = [size |-> hdr[b].size - n - HEADER_SIZE, free |-> TRUE,
              next |-> hdr[b].next, prev |-> b]
  BY DEF Split
<1>8. ASSUME NEW c \in Blocks
      PROVE  /\ g[c].size = IF c = b THEN n ELSE hdr[c].size
             /\ g[c].free = (c # b /\ hdr[c].free)
             /\ g[c].next = IF c = b THEN s ELSE hdr[c].next
             /\ g[c].prev = IF c = hdr[b].next THEN s ELSE hdr[c].prev
             /\ g[c] \in [size : Nat, free : BOOLEAN, next : Blocks \cup {s, NULL},
                          prev : Blocks \cup {s, NULL}]
  <2>1. g[c] = [size |-> IF c = b THEN n ELSE hdr[c].size,
                free |-> c # b /\ hdr[c].free,
                next |-> IF c = b THEN s ELSE hdr[c].next,
                prev |-> IF c = hdr[b].next THEN s ELSE hdr[c].prev]
    BY <1>3 DEF Split
  <2>2. /\ hdr[c].size \in Nat /\ hdr[c].free \in BOOLEAN
        /\ hdr[c].next \in Blocks \cup {NULL} /\ hdr[c].prev \in Blocks \cup {NULL}
    BY DEF WellFormed, HeadersOf, Blocks
  <2>. QED  BY <2>1, <2>2
<1>. QED  BY <1>1, <1>2, <1>3, <1>4, <1>5, <1>6, <1>7, <1>8 DEF SplitResult

\* A split keeps the list well formed.
LEMMA SplitWellFormed ==
  ASSUME WellFormed(hdr), NEW b \in Blocks, NEW n \in Nat, n % 8 = 0, n >= 8,
         hdr[b].size >= n + HEADER_SIZE + 8
  PROVE  WellFormed(Split(b, n))
<1>. DEFINE s == b + HEADER_SIZE + n
            g == Split(b, n)
<1>0. SplitResult(b, n, s, g)
  BY SplitFields
<1>1. /\ s \in Nat /\ b \in Nat /\ s \notin Blocks /\ s # 0 /\ s # NULL
      /\ b < s /\ s + HEADER_SIZE + 8 <= End(hdr, b) /\ s % 8 = 0
      /\ hdr[b].next # b
      /\ DOMAIN g = Blocks \cup {s}
      /\ g[s] = [size |-> hdr[b].size - n - HEADER_SIZE, free |-> TRUE,
                 next |-> hdr[b].next, prev |-> b]
      /\ \A c \in Blocks :
           /\ g[c].size = IF c = b THEN n ELSE hdr[c].size
           /\ g[c].free = (c # b /\ hdr[c].free)
           /\ g[c].next = IF c = b THEN s ELSE hdr[c].next
           /\ g[c].prev = IF c = hdr[b].next THEN s ELSE hdr[c].prev
           /\ g[c] \in [size : Nat, free : BOOLEAN, next : Blocks \cup {s, NULL},
                        prev : Blocks \cup {s, NULL}]
  BY <1>0 DEF SplitResult
<1>2. g = [c \in DOMAIN g |-> g[c]] /\ s = b + HEADER_SIZE + n
  BY DEF Split
<1>. HIDE DEF g, s
<1>3. /\ HEADER_SIZE \in Nat \ {0} /\ HEADER_SIZE % 8 = 0 /\ HEAP_INITIAL_SIZE \in Nat
      /\ Blocks \subseteq 0..HEAP_INITIAL_SIZE
      /\ \A c \in Blocks : /\ hdr[c].size \in Nat
                           /\ hdr[c].next \in Blocks \cup {NULL}
                           /\ hdr[c].prev \in Blocks \cup {NULL}
  BY HeapAssumption DEF WellFormed, HeadersOf, Blocks
<1>4. TiledBy(hdr)
  BY DEF WellFormed
<1>5. /\ End(hdr, b) \in Nat /\ End(hdr, b) <= HEAP_INITIAL_SIZE
      /\ s < HEAP_INITIAL_SIZE
  BY <1>1, <1>3, <1>4 DEF TiledBy, Blocks, End
<1>6. HeadersOf(g)
  <2>1. DOMAIN g \subseteq 0..HEAP_INITIAL_SIZE
    <3>1. s \in Nat /\ DOMAIN g = Blocks \cup {s} /\ Blocks \subseteq 0..HEAP_INITIAL_SIZE
      BY <1>1, <1>3, Zenon
    <3>2. s \in 0..HEAP_INITIAL_SIZE
      BY <3>1, <1>5, HeapAssumption
    <3>. QED  BY <3>1, <3>2, Zenon
  <2>2. hdr[b].size - n - HEADER_SIZE \in Nat
    BY <1>3
  <2>3. g[s] \in [size : Nat, free : BOOLEAN, next : DOMAIN g \cup {NULL},
                  prev : DOMAIN g \cup {NULL}]
    BY <1>1, <1>3, <2>2
  <2>4. \A c \in Blocks : g[c] \in [size : Nat, free : BOOLEAN, next : DOMAIN g \cup {NULL},
                                    prev : DOMAIN g \cup {NULL}]
    BY <1>1
  <2>. QED  BY <1>1, <1>2, <2>1, <2>3, <2>4, Zenon DEF HeadersOf
<1>7. /\ End(g, b) = s /\ End(g, s) = End(hdr, b)
      /\ \A c \in Blocks \ {b} : End(g, c) = End(hdr, c)
  BY <1>1, <1>2, <1>3 DEF End
<1>8. TiledBy(g)
  <2>1. 0 \in DOMAIN g
    BY <1>1, <1>4 DEF TiledBy, Blocks
  <2>2. ASSUME NEW c \in DOMAIN g
        PROVE  /\ c % 8 = 0 /\ g[c].size % 8 = 0 /\ g[c].size >= 8
               /\ End(g, c) <= HEAP_INITIAL_SIZE
               /\ End(g, c) = IF g[c].next = NULL THEN HEAP_INITIAL_SIZE ELSE g[c].next
    <3>1. CASE c = s
      <4>1. /\ hdr[b].size % 8 = 0
            /\ End(hdr, b) = IF hdr[b].next = NULL THEN HEAP_INITIAL_SIZE ELSE hdr[b].next
        BY <1>4 DEF TiledBy, Blocks
      <4>2. g[s].size = hdr[b].size - n - HEADER_SIZE /\ g[s].next = hdr[b].next
        BY <1>1
      <4>3. g[s].size % 8 = 0 /\ g[s].size >= 8
        BY <1>3, <4>1, <4>2
      <4>. QED  BY <1>1, <1>5, <1>7, <3>1, <4>1, <4>2, <4>3
    <3>2. CASE c = b
      <4>1. g[b].size = n /\ g[b].next = s /\ b % 8 = 0
        BY <1>1, <1>4 DEF TiledBy, Blocks
      <4>. QED  BY <1>1, <1>3, <1>5, <1>7, <3>2, <4>1
    <3>3. CASE c # s /\ c # b
      BY <1>1, <1>4, <1>7, <3>3 DEF TiledBy, Blocks
    <3>. QED  BY <3>1, <3>2, <3>3
  <2>3. ASSUME NEW c \in DOMAIN g
        PROVE  /\ g[c].next # NULL => g[g[c].next].prev = c
               /\ g[c].prev = NULL <=> c = 0
               /\ g[c].prev # NULL => g[g[c].prev].next = c
    <3>1. \A d \in Blocks :
            /\ hdr[d].next # NULL => hdr[hdr[d].next].prev = d
            /\ hdr[d].prev = NULL <=> d = 0
            /\ hdr[d].prev # NULL => hdr[hdr[d].prev].next = d
      BY <1>4 DEF TiledBy, Blocks
    <3>2. b # NULL
      BY <1>1 DEF NULL
    <3>3. \A d \in Blocks : d = hdr[b].next => hdr[d].prev = b
      BY <1>3, <3>1 DEF NULL
    <3>4. CASE c = s
      BY <1>1, <1>3, <3>1, <3>2, <3>4
    <3>5. CASE c = b
      <4>1. g[b].next = s /\ g[s].prev = b /\ g[b].prev = hdr[b].prev
        BY <1>1
      <4>2. hdr[b].prev # NULL => hdr[b].prev \in Blocks /\ hdr[b].prev # b
        BY <1>1, <1>3, <3>1
      <4>3. hdr[b].prev # NULL => g[hdr[b].prev].next = b
        BY <1>1, <3>1, <4>2, Zenon
      <4>. QED  BY <3>1, <3>5, <4>1, <4>3
    <3>6. CASE c # s /\ c # b
      <4>1. c \in Blocks /\ g[c].next = hdr[c].next
            /\ g[c].prev = IF c = hdr[b].next THEN s ELSE hdr[c].prev
        BY <1>1, <3>6, Zenon
      <4>2. hdr[c].next # NULL => hdr[c].next \in Blocks /\ hdr[c].next # hdr[b].next
        BY <1>3, <3>1, <3>6, <4>1, Zenon
      <4>3. g[c].next # NULL => g[g[c].next].prev = c
        <5>1. \A e \in Blocks : e # hdr[b].next => g[e].prev = hdr[e].prev
          BY <1>1
        <5>. QED  BY <3>1, <4>1, <4>2, <5>1
      <4>4. CASE c = hdr[b].next
        <5>1. g[c].prev = s /\ g[s].next = c /\ c # 0
          BY <1>1, <3>1, <3>2, <3>3, <4>1, <4>4
        <5>. QED  BY <1>1, <4>3, <5>1
      <4>5. CASE c # hdr[b].next
        <5>1. hdr[c].prev # NULL => hdr[c].prev \in Blocks /\ hdr[c].prev # b
          BY <1>3, <3>1, <4>1, <4>5, Zenon
        <5>2. \A e \in Blocks : e # b => g[e].next = hdr[e].next
          BY <1>1
        <5>. QED  BY <3>1, <4>1, <4>3, <4>5, <5>1, <5>2
      <4>. QED  BY <4>4, <4>5
    <3>. QED  BY <3>4, <3>5, <3>6
  <2>4. ASSUME NEW c \in DOMAIN g, NEW d \in DOMAIN g, c < d
        PROVE  End(g, c) <= d
    <3>1. /\ \A x, y \in Blocks : x < y => End(hdr, x) <= y
          /\ \A x \in Blocks : x \in Nat /\ End(hdr, x) \in Nat
      BY <1>3, <1>4 DEF TiledBy, Blocks, End
    <3>2. /\ c \in Blocks \cup {s} /\ d \in Blocks \cup {s}
          /\ c \in Nat /\ d \in Nat
          /\ s \in Nat /\ b \in Nat /\ b < s /\ s < End(hdr, b)
      <4>1. c \in Blocks \cup {s} /\ d \in Blocks \cup {s}
        BY <1>1
      <4>2. s \in Nat /\ b \in Nat /\ b < s /\ s + HEADER_SIZE + 8 <= End(hdr, b)
        BY <1>1
      <4>3. s < End(hdr, b)
        BY <1>3, <1>5, <4>2
      <4>. QED  BY <3>1, <4>1, <4>2, <4>3, Zenon
    <3>3. \A y \in Blocks : b < y => s < y
      BY <3>1, <3>2
    <3>4. CASE c = s
      <4>1. d \in Blocks /\ b < d
        BY <2>4, <3>2, <3>4
      <4>. QED  BY <1>7, <3>1, <3>4, <4>1
    <3>5. CASE c = b
      <4>1. d = s \/ s < d
        BY <2>4, <3>2, <3>3, <3>5
      <4>2. s <= d
        BY <3>2, <4>1
      <4>. QED  BY <1>7, <3>5, <4>2
    <3>6. CASE c # s /\ c # b /\ d = s
      <4>1. c \in Blocks /\ c < b
        <5>1. c \in Blocks /\ ~(s < c)
          BY <2>4, <3>2, <3>6
        <5>2. ~(b < c)
          BY <3>3, <5>1
        <5>. QED  BY <3>2, <3>6, <5>1, <5>2
      <4>2. End(hdr, c) <= s
        <5>1. End(hdr, c) <= b /\ End(hdr, c) \in Nat
          BY <3>1, <4>1
        <5>. QED  BY <3>2, <5>1
      <4>. QED  BY <1>7, <3>6, <4>1, <4>2
    <3>7. CASE c # s /\ c # b /\ d # s
      <4>1. c \in Blocks /\ d \in Blocks
        BY <3>2, <3>7
      <4>. QED  BY <1>7, <2>4, <3>1, <3>7, <4>1
    <3>. QED  BY <3>4, <3>5, <3>6, <3>7
  <2>. QED  BY <2>1, <2>2, <2>3, <2>4 DEF TiledBy
<1>. QED  BY <1>6, <1>8 DEF WellFormed, g

-----------------------------------------------------------------------------
\* The headers g are h with block b's flag set to v.
IsMark(h, g, b, v) ==
  /\ WellFormed(g) /\ DOMAIN g = DOMAIN h
  /\ \A c \in DOMAIN h : /\ g[c].size = h[c].size
                         /\ g[c].next = h[c].next
                         /\ g[c].prev = h[c].prev
                         /\ g[c].free = IF c = b THEN v ELSE h[c].free

LEMMA MarkFacts ==
  ASSUME NEW h, WellFormed(h), NEW b \in DOMAIN h, NEW v \in BOOLEAN
  PROVE  IsMark(h, Mark(h, b, v), b, v)
BY MarkWellFormed DEF IsMark

\* The headers g are h with block b split at s, its first n bytes allocated.
IsSplit(h, g, b, n, s) ==
  /\ WellFormed(g) /\ s \notin DOMAIN h /\ DOMAIN g = DOMAIN h \cup {s}
  /\ g[s].free = TRUE /\ g[s].next = h[b].next
  /\ \A c \in DOMAIN h : /\ g[c].size = IF c = b THEN n ELSE h[c].size
                         /\ g[c].free = (c # b /\ h[c].free)
                         /\ g[c].next = IF c = b THEN s ELSE h[c].next

LEMMA SplitFacts ==
  ASSUME WellFormed(hdr), NEW b \in Blocks, NEW n \in Nat, n % 8 = 0, n >= 8,
         hdr[b].size >= n + HEADER_SIZE + 8
  PROVE  IsSplit(hdr, Split(b, n), b, n, b + HEADER_SIZE + n)
<1>. DEFINE s == b + HEADER_SIZE + n
            g == Split(b, n)
<1>0. SplitResult(b, n, s, g)
  BY SplitFields
<1>1. /\ s \in Nat /\ b \in Nat /\ s \notin Blocks /\ s # 0 /\ s # NULL
      /\ b < s /\ s + HEADER_SIZE + 8 <= End(hdr, b) /\ s % 8 = 0
      /\ hdr[b].next # b
      /\ DOMAIN g = Blocks \cup {s}
      /\ g[s] = [size |-> hdr[b].size - n - HEADER_SIZE, free |-> TRUE,
                 next |-> hdr[b].next, prev |-> b]
      /\ \A c \in Blocks :
           /\ g[c].size = IF c = b THEN n ELSE hdr[c].size
           /\ g[c].free = (c # b /\ hdr[c].free)
           /\ g[c].next = IF c = b THEN s ELSE hdr[c].next
           /\ g[c].prev = IF c = hdr[b].next THEN s ELSE hdr[c].prev
           /\ g[c] \in [size : Nat, free : BOOLEAN, next : Blocks \cup {s, NULL},
                        prev : Blocks \cup {s, NULL}]
  BY <1>0 DEF SplitResult
<1>2. WellFormed(g)
  BY SplitWellFormed
<1>. HIDE DEF s, g
<1>3. IsSplit(hdr, g, b, n, s)
  BY <1>1, <1>2 DEF IsSplit, Blocks
<1>. QED  BY <1>3 DEF s, g

\* The headers g are h with b's successor n swallowed by b.
IsAbsorb(h, g, b, n) ==
  /\ WellFormed(g) /\ n \in DOMAIN h /\ n # b
  /\ h[n].next # b /\ h[n].next # n
  /\ DOMAIN g = DOMAIN h \ {n}
  /\ \A c \in DOMAIN g :
       /\ c # b => g[c].size = h[c].size
       /\ g[c].free = h[c].free
       /\ g[c].next = IF c = b THEN h[n].next ELSE h[c].next
       /\ g[c].prev = IF c = h[n].next THEN b ELSE h[c].prev

LEMMA AbsorbFacts ==
  ASSUME NEW h, WellFormed(h), NEW b \in DOMAIN h, h[b].next # NULL
  PROVE  IsAbsorb(h, Absorb(h, b), b, h[b].next)
<1>. DEFINE n == h[b].next
            g == Absorb(h, b)
<1>0. AbsorbResult(h, b, n, g)
  BY AbsorbFields
<1>1. /\ n \in DOMAIN h /\ n # b /\ b \in Nat /\ n \in Nat /\ n = End(h, b)
      /\ h[n].next # b /\ h[n].next # n
      /\ DOMAIN g = DOMAIN h \ {n}
      /\ \A c \in DOMAIN g :
           /\ g[c].size = IF c = b THEN h[b].size + HEADER_SIZE + h[n].size ELSE h[c].size
           /\ g[c].free = h[c].free
           /\ g[c].next = IF c = b THEN h[n].next ELSE h[c].next
           /\ g[c].prev = IF c = h[n].next THEN b ELSE h[c].prev
           /\ g[c] \in [size : Nat, free : BOOLEAN, next : DOMAIN h \cup {NULL},
                        prev : DOMAIN h \cup {NULL}]
  BY <1>0 DEF AbsorbResult
<1>2. WellFormed(g)
  BY AbsorbWellFormed
<1>. HIDE DEF n, g
<1>3. IsAbsorb(h, g, b, n)
  BY <1>1, <1>2 DEF IsAbsorb
<1>. QED  BY <1>3 DEF n, g

-----------------------------------------------------------------------------
IInv == TypeOK /\ Tiled /\ Coalesced

\* The blocks in their owners' hands.
Allocated(h) == {b \in DOMAIN h : ~h[b].free}

LEMMA InitIInv == Init => IInv
<1>. SUFFICES ASSUME Init PROVE IInv
  OBVIOUS
<1>1. /\ Blocks = {0} /\ hdr[0].size = HEAP_INITIAL_SIZE - HEADER_SIZE
      /\ hdr[0].free = TRUE /\ hdr[0].next = NULL /\ hdr[0].prev = NULL
  BY DEF Init, Blocks
<1>2. hdr[0].size \in Nat /\ hdr[0].size % 8 = 0 /\ hdr[0].size >= 8
  BY <1>1, HeapAssumption
<1>3. HeadersOf(hdr)
  BY <1>2, HeapAssumption DEF Init, HeadersOf
<1>4. asked \in [Allocated(hdr) -> Requests]
  BY <1>1 DEF Init, Allocated, Blocks
<1>5. Tiled
  BY <1>1, <1>2, HeapAssumption DEF Tiled, TiledBy, End, Blocks
<1>6. Coalesced
  BY <1>1 DEF Coalesced, FreePair
<1>. QED  BY <1>3, <1>4, <1>5, <1>6 DEF IInv, TypeOK, Allocated, Blocks

\* What a successful kmalloc does: one free block b becomes allocated with at
\* least the size asked for, and no other allocated block changes.
LEMMA KmallocStep ==
  ASSUME IInv, NEW size \in Requests, kmalloc(size)
  PROVE  /\ WellFormed(hdr') /\ Coalesced'
         /\ \E b \in Blocks :
              /\ hdr[b].free /\ hdr'[b].size >= size
              /\ Allocated(hdr') = Allocated(hdr) \cup {b}
              /\ \A c \in Allocated(hdr) : hdr'[c].size = hdr[c].size
              /\ asked' = [c \in DOMAIN asked \cup {b} |-> IF c = b THEN size ELSE asked[c]]
<1>. DEFINE n == ALIGN8(size)
<1>1. size \in Nat /\ n \in Nat /\ n % 8 = 0 /\ n >= size /\ n >= 8
  BY AlignFacts, HeapAssumption, Zenon DEF kmalloc
<1>2. PICK b \in Blocks :
        /\ hdr[b].free /\ hdr[b].size >= n
        /\ hdr' = IF hdr[b].size >= n + HEADER_SIZE + 8
                    THEN Split(b, n) ELSE Mark(hdr, b, FALSE)
        /\ asked' = [c \in DOMAIN asked \cup {b} |-> IF c = b THEN size ELSE asked[c]]
  BY Zenon DEF kmalloc, FirstFit, Fits
<1>b. hdr[b].free /\ hdr[b].size >= n
  BY <1>2
<1>3. WellFormed(hdr) /\ Coalesced
  BY DEF IInv, TypeOK, Tiled, WellFormed
<1>4. \A c \in Blocks : hdr[c].next # NULL => hdr[c].next \in Blocks
  BY <1>3 DEF WellFormed, HeadersOf, Blocks
<1>. HIDE DEF n
<1>5. CASE hdr[b].size >= n + HEADER_SIZE + 8
  <2>. DEFINE s == b + HEADER_SIZE + n
  <2>1. hdr' = Split(b, n)
    BY <1>2, <1>5
  <2>2. WellFormed(hdr')
    BY <1>1, <1>3, <1>5, <2>1, SplitWellFormed
  <2>3. /\ s \notin Blocks /\ DOMAIN hdr' = Blocks \cup {s}
        /\ hdr'[s].free = TRUE /\ hdr'[s].next = hdr[b].next
        /\ hdr'[b].size = n
        /\ \A c \in Blocks : /\ c # b => hdr'[c].size = hdr[c].size
                             /\ hdr'[c].free = (c # b /\ hdr[c].free)
                             /\ c # b => hdr'[c].next = hdr[c].next
    <3>1. IsSplit(hdr, hdr', b, n, s)
      BY <1>1, <1>3, <1>5, <2>1, SplitFacts
    <3>. QED  BY <3>1 DEF IsSplit, Blocks
  <2>. HIDE DEF s
  <2>4. Coalesced'
    <3>1. ASSUME NEW c \in DOMAIN hdr' PROVE ~FreePair(hdr', c)
      <4>1. CASE c = s
        BY <1>2, <1>3, <1>4, <2>3, <4>1, Zenon DEF Coalesced, FreePair
      <4>2. CASE c = b
        BY <2>3, <4>2, Zenon DEF FreePair
      <4>3. CASE c # s /\ c # b
        BY <1>3, <1>4, <2>3, <4>3, Zenon DEF Coalesced, FreePair
      <4>. QED  BY <4>1, <4>2, <4>3
    <3>. QED  BY <3>1 DEF Coalesced, Blocks
  <2>5. Allocated(hdr') = Allocated(hdr) \cup {b}
    BY <2>3, Zenon DEF Allocated, Blocks
  <2>6. \A c \in Allocated(hdr) : hdr'[c].size = hdr[c].size
    BY <1>2, <2>3, Zenon DEF Allocated, Blocks
  <2>7. hdr'[b].size >= size
    BY <1>1, <2>3
  <2>. QED  BY <1>2, <2>2, <2>4, <2>5, <2>6, <2>7, Zenon
<1>6. CASE ~(hdr[b].size >= n + HEADER_SIZE + 8)
  <2>1. hdr' = Mark(hdr, b, FALSE)
    BY <1>2, <1>6
  <2>2. /\ WellFormed(hdr') /\ DOMAIN hdr' = Blocks
        /\ \A c \in Blocks : /\ hdr'[c].size = hdr[c].size
                             /\ hdr'[c].next = hdr[c].next
    <3>1. IsMark(hdr, hdr', b, FALSE)
      BY <1>3, <2>1, MarkFacts, Zenon DEF Blocks
    <3>. QED  BY <3>1, Zenon DEF IsMark, Blocks
  <2>f. \A c \in Blocks : hdr'[c].free <=> (c # b /\ hdr[c].free)
    <3>1. IsMark(hdr, hdr', b, FALSE)
      BY <1>3, <2>1, MarkFacts, Zenon DEF Blocks
    <3>. QED  BY <3>1, Zenon DEF IsMark, Blocks
  <2>3. Coalesced'
    <3>1. ASSUME NEW c \in Blocks PROVE ~FreePair(hdr', c)
      BY <1>3, <1>4, <2>2, <2>f DEF Coalesced, FreePair
    <3>. QED  BY <2>2, <3>1 DEF Coalesced, Blocks
  <2>4. Allocated(hdr') = Allocated(hdr) \cup {b}
    BY <2>2, <2>f DEF Allocated, Blocks
  <2>5. hdr[b].size \in Nat
    BY <1>3 DEF WellFormed, HeadersOf, Blocks
  <2>6. hdr'[b].size >= size
    BY <1>1, <1>b, <2>2, <2>5
  <2>7. \A c \in Allocated(hdr) : hdr'[c].size = hdr[c].size
    BY <2>2 DEF Allocated, Blocks
  <2>. QED  BY <1>2, <2>2, <2>3, <2>4, <2>6, <2>7, Zenon
<1>. QED  BY <1>5, <1>6, Zenon

\* What the links of a well-formed list give.
LEMMA LinkFacts ==
  ASSUME NEW h, WellFormed(h), NEW b \in DOMAIN h
  PROVE  /\ h[b].next # NULL => h[b].next \in DOMAIN h /\ h[h[b].next].prev = b
         /\ h[b].prev # NULL => h[b].prev \in DOMAIN h /\ h[h[b].prev].next = b
         /\ b # NULL
BY DEF WellFormed, HeadersOf, TiledBy, NULL

\* Merging forwards leaves b paired with no successor, and allocated blocks alone.
LEMMA MergeNextFacts ==
  ASSUME NEW h, WellFormed(h), NEW b \in DOMAIN h, h[b].free,
         \A c \in DOMAIN h : FreePair(h, c) => c = b \/ h[c].next = b,
         NEW g, g = MergeNext(h, b)
  PROVE  /\ WellFormed(g) /\ b \in DOMAIN g /\ g[b].free
         /\ \A c \in DOMAIN g : FreePair(g, c) => c # b /\ g[c].next = b
         /\ Allocated(g) = Allocated(h)
         /\ \A c \in Allocated(g) : g[c].size = h[c].size
<1>1. CASE ~(h[b].next # NULL /\ h[h[b].next].free)
  <2>1. g = h
    BY <1>1 DEF MergeNext
  <2>2. ~FreePair(h, b)
    BY <1>1 DEF FreePair
  <2>. QED  BY <2>1, <2>2
<1>2. CASE h[b].next # NULL /\ h[h[b].next].free
  <2>. DEFINE n == h[b].next
  <2>1. g = Absorb(h, b)
    BY <1>2 DEF MergeNext
  <2>2. IsAbsorb(h, g, b, n)
    BY <1>2, <2>1, AbsorbFacts
  <2>3. h[n].free
    BY <1>2
  <2>. HIDE DEF n
  <2>4. /\ WellFormed(g) /\ n \in DOMAIN h /\ n # b /\ h[n].next # b
        /\ DOMAIN g = DOMAIN h \ {n}
        /\ \A c \in DOMAIN g :
             /\ c # b => g[c].size = h[c].size /\ g[c].next = h[c].next
             /\ g[c].free = h[c].free
        /\ g[b].next = h[n].next
    BY <2>2 DEF IsAbsorb
  <2>5. ASSUME NEW c \in DOMAIN g, FreePair(g, c)
        PROVE  c # b /\ g[c].next = b
    <3>1. g[c].next \in DOMAIN g /\ g[c].next # NULL
      BY <2>4, <2>5, LinkFacts DEF FreePair
    <3>2. h[g[c].next].free /\ h[c].free
      BY <2>4, <2>5, <3>1 DEF FreePair
    <3>3. c # b
      <4>. SUFFICES ASSUME c = b PROVE FALSE
        OBVIOUS
      <4>1. g[c].next = h[n].next
        BY <2>4
      <4>2. FreePair(h, n)
        BY <2>3, <3>1, <3>2, <4>1 DEF FreePair
      <4>. QED  BY <2>4, <4>2
    <3>4. FreePair(h, c) /\ g[c].next = h[c].next
      BY <2>4, <3>1, <3>2, <3>3 DEF FreePair
    <3>. QED  BY <2>4, <3>3, <3>4
  <2>6. Allocated(g) = Allocated(h)
    BY <2>3, <2>4 DEF Allocated
  <2>7. \A c \in Allocated(g) : g[c].size = h[c].size
    BY <2>4 DEF Allocated
  <2>. QED  BY <2>4, <2>5, <2>6, <2>7
<1>. QED  BY <1>1, <1>2

\* Merging backwards then leaves no pair of free blocks at all.
LEMMA MergePrevFacts ==
  ASSUME NEW h, WellFormed(h), NEW b \in DOMAIN h, h[b].free,
         \A c \in DOMAIN h : FreePair(h, c) => c # b /\ h[c].next = b,
         NEW g, g = MergePrev(h, b)
  PROVE  /\ WellFormed(g)
         /\ \A c \in DOMAIN g : ~FreePair(g, c)
         /\ Allocated(g) = Allocated(h)
         /\ \A c \in Allocated(g) : g[c].size = h[c].size
<1>1. CASE ~(h[b].prev # NULL /\ h[h[b].prev].free)
  <2>1. g = h
    BY <1>1 DEF MergePrev
  <2>2. ASSUME NEW c \in DOMAIN h, FreePair(h, c) PROVE FALSE
    <3>1. h[c].next = b /\ h[c].free
      BY <2>2 DEF FreePair
    <3>2. h[b].prev = c /\ c # NULL
      BY <3>1, LinkFacts
    <3>. QED  BY <1>1, <3>1, <3>2
  <2>. QED  BY <2>1, <2>2
<1>2. CASE h[b].prev # NULL /\ h[h[b].prev].free
  <2>. DEFINE p == h[b].prev
  <2>1. g = Absorb(h, p)
    BY <1>2 DEF MergePrev
  <2>2. p \in DOMAIN h /\ h[p].next = b /\ b # NULL
    BY <1>2, LinkFacts
  <2>3. IsAbsorb(h, g, p, b)
    BY <2>1, <2>2, AbsorbFacts
  <2>4. h[p].free
    BY <1>2
  <2>. HIDE DEF p
  <2>5. /\ WellFormed(g) /\ b # p
        /\ DOMAIN g = DOMAIN h \ {b}
        /\ \A c \in DOMAIN g :
             /\ c # p => g[c].size = h[c].size /\ g[c].next = h[c].next
             /\ g[c].free = h[c].free
        /\ g[p].next = h[b].next
    BY <2>2, <2>3 DEF IsAbsorb
  <2>6. ASSUME NEW c \in DOMAIN g, FreePair(g, c)
        PROVE  FALSE
    <3>1. g[c].next \in DOMAIN g /\ g[c].next # NULL
      BY <2>5, <2>6, LinkFacts DEF FreePair
    <3>2. h[g[c].next].free /\ h[c].free
      BY <2>5, <2>6, <3>1 DEF FreePair
    <3>3. CASE c = p
      <4>1. FreePair(h, b)
        BY <2>5, <3>1, <3>2, <3>3 DEF FreePair
      <4>. QED  BY <4>1
    <3>4. CASE c # p
      <4>1. FreePair(h, c) /\ g[c].next = h[c].next
        BY <2>5, <3>1, <3>2, <3>4 DEF FreePair
      <4>. QED  BY <2>5, <3>1, <4>1
    <3>. QED  BY <3>3, <3>4
  <2>7. Allocated(g) = Allocated(h)
    BY <2>5 DEF Allocated
  <2>8. \A c \in Allocated(g) : g[c].size = h[c].size
    BY <2>2, <2>4, <2>5 DEF Allocated
  <2>. QED  BY <2>5, <2>6, <2>7, <2>8
<1>. QED  BY <1>1, <1>2

\* What kfree does: the block leaves the allocated ones, the others are untouched.
LEMMA KfreeStep ==
  ASSUME IInv, NEW b \in Blocks, kfree(b)
  PROVE  /\ WellFormed(hdr') /\ Coalesced'
         /\ b \in Allocated(hdr)
         /\ Allocated(hdr') = Allocated(hdr) \ {b}
         /\ \A c \in Allocated(hdr') : hdr'[c].size = hdr[c].size
         /\ asked' = [c \in DOMAIN asked \ {b} |-> asked[c]]
<1>. DEFINE h == Mark(hdr, b, TRUE)
            g == MergeNext(h, b)
<1>1. WellFormed(hdr) /\ Coalesced /\ ~hdr[b].free
  BY DEF IInv, TypeOK, Tiled, WellFormed, kfree
<1>2. hdr' = MergePrev(g, b)
  BY DEF kfree
<1>3. IsMark(hdr, h, b, TRUE)
  BY <1>1, MarkFacts, Zenon DEF Blocks
<1>. HIDE DEF h
<1>4. /\ WellFormed(h) /\ DOMAIN h = DOMAIN hdr
      /\ \A c \in DOMAIN hdr : h[c].size = hdr[c].size /\ h[c].next = hdr[c].next
  BY <1>3, Zenon DEF IsMark
<1>5. \A c \in DOMAIN hdr : h[c].free <=> (c = b \/ hdr[c].free)
  BY <1>3, Zenon DEF IsMark
<1>6. \A c \in DOMAIN h : FreePair(h, c) => c = b \/ h[c].next = b
  <2>1. ASSUME NEW c \in DOMAIN h, FreePair(h, c), c # b, h[c].next # b PROVE FALSE
    <3>1. h[c].next \in DOMAIN h /\ h[c].next # NULL
      BY <1>4, <2>1, LinkFacts DEF FreePair
    <3>2. FreePair(hdr, c)
      BY <1>4, <1>5, <2>1, <3>1 DEF FreePair
    <3>. QED  BY <1>1, <1>4, <3>2 DEF Coalesced, Blocks
  <2>. QED  BY <2>1
<1>7. h[b].free /\ b \in DOMAIN h
  BY <1>4, <1>5 DEF Blocks
<1>8. /\ WellFormed(g) /\ b \in DOMAIN g /\ g[b].free
      /\ \A c \in DOMAIN g : FreePair(g, c) => c # b /\ g[c].next = b
      /\ Allocated(g) = Allocated(h)
      /\ \A c \in Allocated(g) : g[c].size = h[c].size
  BY <1>4, <1>6, <1>7, MergeNextFacts
<1>. HIDE DEF g
<1>9. /\ WellFormed(hdr')
      /\ \A c \in DOMAIN hdr' : ~FreePair(hdr', c)
      /\ Allocated(hdr') = Allocated(g)
      /\ \A c \in Allocated(hdr') : hdr'[c].size = g[c].size
  BY <1>2, <1>8, MergePrevFacts
<1>10. Allocated(h) = Allocated(hdr) \ {b} /\ b \in Allocated(hdr)
  BY <1>1, <1>4, <1>5 DEF Allocated, Blocks
<1>11. \A c \in Allocated(h) : h[c].size = hdr[c].size
  BY <1>4 DEF Allocated
<1>12. asked' = [c \in DOMAIN asked \ {b} |-> asked[c]]
  BY DEF kfree
<1>13. Coalesced'
  BY <1>9 DEF Coalesced, Blocks
<1>. QED  BY <1>8, <1>9, <1>10, <1>11, <1>12, <1>13

-----------------------------------------------------------------------------
LEMMA KmallocIInv ==
  ASSUME IInv, NEW size \in Requests, kmalloc(size)
  PROVE  IInv'
<1>1. WellFormed(hdr') /\ Coalesced'
  BY KmallocStep
<1>2. PICK b \in Blocks :
        /\ Allocated(hdr') = Allocated(hdr) \cup {b}
        /\ asked' = [c \in DOMAIN asked \cup {b} |-> IF c = b THEN size ELSE asked[c]]
  BY KmallocStep
<1>3. asked \in [Allocated(hdr) -> Requests]
  BY DEF IInv, TypeOK, Allocated, Blocks
<1>4. asked' \in [Allocated(hdr') -> Requests]
  BY <1>2, <1>3
<1>. QED  BY <1>1, <1>4 DEF IInv, TypeOK, Tiled, WellFormed, Allocated, Blocks

LEMMA KfreeIInv ==
  ASSUME IInv, NEW b \in Blocks, kfree(b)
  PROVE  IInv'
<1>1. /\ WellFormed(hdr') /\ Coalesced'
      /\ Allocated(hdr') = Allocated(hdr) \ {b}
      /\ asked' = [c \in DOMAIN asked \ {b} |-> asked[c]]
  BY KfreeStep, Zenon
<1>2. asked \in [Allocated(hdr) -> Requests]
  BY DEF IInv, TypeOK, Allocated, Blocks
<1>3. asked' \in [Allocated(hdr') -> Requests]
  BY <1>1, <1>2
<1>. QED  BY <1>1, <1>3 DEF IInv, TypeOK, Tiled, WellFormed, Allocated, Blocks

LEMMA HeapInductive == Spec => []IInv
<1>1. IInv /\ [Next]_vars => IInv'
  <2>. SUFFICES ASSUME IInv, [Next]_vars PROVE IInv'
    OBVIOUS
  <2>1. ASSUME NEW n \in Requests, kmalloc(n) PROVE IInv'
    BY <2>1, KmallocIInv
  <2>2. ASSUME NEW b \in Blocks, kfree(b) PROVE IInv'
    BY <2>2, KfreeIInv
  <2>3. CASE UNCHANGED vars
    BY <2>3 DEF vars, IInv, TypeOK, Tiled, Coalesced, Blocks
  <2>. QED  BY <2>1, <2>2, <2>3 DEF Next
<1>. QED  BY <1>1, InitIInv, PTL DEF Spec

\* Types, for every heap size and every set of requests.
THEOREM HeapTypes == Spec => []TypeOK
BY HeapInductive, PTL DEF IInv

\* The headers tile the heap after any sequence of kmalloc and kfree.
THEOREM HeapTiled == Spec => []Tiled
BY HeapInductive, PTL DEF IInv

\* kfree's two merges suffice: free blocks are never adjacent.
THEOREM HeapCoalesced == Spec => []Coalesced
BY HeapInductive, PTL DEF IInv

\* Freeing everything, in any order, restores the heap that heap_init left.
THEOREM HeapFreedIsFresh == Spec => []FreedIsFresh
<1>1. IInv => FreedIsFresh
  <2>. SUFFICES ASSUME IInv, \A b \in Blocks : hdr[b].free PROVE Init
    BY DEF FreedIsFresh
  <2>1. WellFormed(hdr) /\ Coalesced
    BY DEF IInv, TypeOK, Tiled, WellFormed
  <2>2. 0 \in Blocks /\ Blocks \subseteq Nat
    BY <2>1 DEF WellFormed, HeadersOf, TiledBy, Blocks
  <2>3. hdr[0].next = NULL
    BY <2>1, <2>2, LinkFacts DEF Coalesced, FreePair, Blocks
  <2>4. End(hdr, 0) = HEAP_INITIAL_SIZE
    BY <2>1, <2>2, <2>3 DEF WellFormed, TiledBy, Blocks
  <2>5. ASSUME NEW c \in Blocks PROVE c = 0
    <3>1. c # 0 => End(hdr, 0) <= c
      BY <2>1, <2>2 DEF WellFormed, TiledBy, Blocks
    <3>2. End(hdr, c) <= HEAP_INITIAL_SIZE /\ hdr[c].size \in Nat /\ c \in Nat
      BY <2>1, <2>2 DEF WellFormed, HeadersOf, TiledBy, Blocks
    <3>. QED  BY <2>4, <3>1, <3>2, HeapAssumption DEF End
  <2>6. Blocks = {0}
    BY <2>2, <2>5, Zenon
  <2>7. hdr[0].size = HEAP_INITIAL_SIZE - HEADER_SIZE
    <3>1. hdr[0].size \in Nat
      BY <2>1, <2>2 DEF WellFormed, HeadersOf, Blocks
    <3>2. 0 + HEADER_SIZE + hdr[0].size = HEAP_INITIAL_SIZE
      BY <2>4, Zenon DEF End
    <3>3. HEADER_SIZE \in Nat /\ HEAP_INITIAL_SIZE \in Nat
      BY HeapAssumption
    <3>. QED  BY <3>1, <3>2, <3>3
  <2>8. hdr[0].prev = NULL /\ hdr[0].free = TRUE
    BY <2>1, <2>2 DEF WellFormed, HeadersOf, TiledBy, Blocks
  <2>9. hdr = [b \in {0} |-> hdr[b]] /\ hdr[0] \in [size : Nat, free : BOOLEAN,
                         next : {0, NULL}, prev : {0, NULL}]
    BY <2>1, <2>6 DEF WellFormed, HeadersOf, Blocks
  <2>10. hdr[0] = [size |-> HEAP_INITIAL_SIZE - HEADER_SIZE,
                   free |-> TRUE, next |-> NULL, prev |-> NULL]
    BY <2>3, <2>7, <2>8, <2>9
  <2>11. asked = [b \in {} |-> 0]
    <3>1. asked \in [{} -> Requests]
      <4>1. {b \in Blocks : ~hdr[b].free} = {}
        OBVIOUS
      <4>. QED  BY <4>1, Zenon DEF IInv, TypeOK
    <3>. QED  BY <3>1
  <2>. QED  BY <2>9, <2>10, <2>11 DEF Init
<1>. QED  BY <1>1, HeapInductive, PTL

-----------------------------------------------------------------------------
\* The abstract block of an allocated header.
Image(h, a, b) == [addr |-> b + HEADER_SIZE, len |-> h[b].size, asked |-> a[b]]

LEMMA GrantedImage == Granted = {Image(hdr, asked, b) : b \in Allocated(hdr)}
BY DEF Granted, Image, Allocated, Blocks

\* A well-formed list keeps the payloads of two blocks apart and inside the arena.
LEMMA PayloadFacts ==
  ASSUME NEW h, WellFormed(h), NEW b \in DOMAIN h
  PROVE  /\ b \in Nat /\ h[b].size \in Nat
         /\ (b + HEADER_SIZE) % 8 = 0
         /\ b + HEADER_SIZE + h[b].size <= HEAP_INITIAL_SIZE
         /\ \A c \in DOMAIN h : b # c =>
              \/ b + HEADER_SIZE + h[b].size <= c + HEADER_SIZE
              \/ c + HEADER_SIZE + h[c].size <= b + HEADER_SIZE
<1>1. /\ HEADER_SIZE \in Nat /\ HEADER_SIZE % 8 = 0
      /\ DOMAIN h \subseteq Nat /\ \A c \in DOMAIN h : h[c].size \in Nat
      /\ b % 8 = 0
      /\ b + HEADER_SIZE + h[b].size <= HEAP_INITIAL_SIZE
      /\ \A c, d \in DOMAIN h : c < d => c + HEADER_SIZE + h[c].size <= d
  <2>1. HEADER_SIZE \in Nat /\ HEADER_SIZE % 8 = 0
    BY HeapAssumption
  <2>2. DOMAIN h \subseteq Nat /\ \A c \in DOMAIN h : h[c].size \in Nat
    BY HeapAssumption DEF WellFormed, HeadersOf
  <2>3. b % 8 = 0 /\ b + HEADER_SIZE + h[b].size <= HEAP_INITIAL_SIZE
    BY DEF WellFormed, TiledBy, End
  <2>4. \A c, d \in DOMAIN h : c < d => c + HEADER_SIZE + h[c].size <= d
    BY DEF WellFormed, TiledBy, End
  <2>. QED  BY <2>1, <2>2, <2>3, <2>4
<1>2. (b + HEADER_SIZE) % 8 = 0
  BY <1>1
<1>3. ASSUME NEW c \in DOMAIN h, b # c
      PROVE  \/ b + HEADER_SIZE + h[b].size <= c + HEADER_SIZE
             \/ c + HEADER_SIZE + h[c].size <= b + HEADER_SIZE
  <2>1. b < c \/ c < b
    BY <1>1, <1>3
  <2>2. b \in Nat /\ c \in Nat /\ h[b].size \in Nat /\ h[c].size \in Nat
    BY <1>1
  <2>3. /\ b < c => b + HEADER_SIZE + h[b].size <= c
        /\ c < b => c + HEADER_SIZE + h[c].size <= b
    BY <1>1
  <2>. QED  BY <1>1, <2>1, <2>2, <2>3
<1>. QED  BY <1>1, <1>2, <1>3

\* A successful kmalloc is a Grant of the abstract allocator.
LEMMA KmallocGrants ==
  ASSUME IInv, NEW size \in Requests, kmalloc(size)
  PROVE  Abstract!Grant
<1>1. WellFormed(hdr') /\ IInv' /\ size # 0 /\ size \in Nat
  BY KmallocStep, KmallocIInv, HeapAssumption, Zenon DEF kmalloc
<1>2. PICK b \in Blocks :
        /\ hdr[b].free /\ hdr'[b].size >= size
        /\ Allocated(hdr') = Allocated(hdr) \cup {b}
        /\ \A c \in Allocated(hdr) : hdr'[c].size = hdr[c].size
        /\ asked' = [c \in DOMAIN asked \cup {b} |-> IF c = b THEN size ELSE asked[c]]
  BY KmallocStep
<1>3. asked \in [Allocated(hdr) -> Requests] /\ b \notin Allocated(hdr)
  BY <1>2 DEF IInv, TypeOK, Allocated, Blocks
<1>4. asked'[b] = size /\ \A c \in Allocated(hdr) : asked'[c] = asked[c]
  BY <1>2, <1>3
<1>5. \A c \in Allocated(hdr) : Image(hdr', asked', c) = Image(hdr, asked, c)
  BY <1>2, <1>4 DEF Image
<1>6. Granted' = {Image(hdr', asked', c) : c \in Allocated(hdr')}
  BY GrantedImage DEF Image, Granted, Allocated, Blocks
<1>. DEFINE x == Image(hdr', asked', b)
<1>7. Granted' = Granted \cup {x}
  <2>1. Granted = {Image(hdr', asked', c) : c \in Allocated(hdr)}
    BY <1>5, GrantedImage
  <2>2. Granted' = {Image(hdr', asked', c) : c \in Allocated(hdr) \cup {b}}
    BY <1>2, <1>6
  <2>. QED  BY <2>1, <2>2
<1>8. b \in DOMAIN hdr' /\ Allocated(hdr) \subseteq DOMAIN hdr'
  BY <1>2 DEF Allocated
<1>9. x.addr = b + HEADER_SIZE /\ x.len = hdr'[b].size /\ x.asked = size
  BY <1>4 DEF Image
<1>10. Abstract!Proper(x)
  <2>1. /\ b \in Nat /\ (b + HEADER_SIZE) % 8 = 0
        /\ b + HEADER_SIZE + hdr'[b].size <= HEAP_INITIAL_SIZE
    BY <1>1, <1>8, PayloadFacts
  <2>2. 0 <= b + HEADER_SIZE
    BY <2>1, HeapAssumption
  <2>. HIDE DEF x
  <2>. QED  BY <1>1, <1>2, <1>9, <2>1, <2>2 DEF Abstract!Proper
<1>11. ASSUME NEW y \in Granted PROVE Abstract!Apart(x, y)
  <2>1. PICK c \in Allocated(hdr) : y = Image(hdr', asked', c)
    BY <1>5, GrantedImage
  <2>2. y.addr = c + HEADER_SIZE /\ y.len = hdr'[c].size
    BY <2>1 DEF Image
  <2>3. c \in DOMAIN hdr' /\ c # b
    BY <1>3, <1>8
  <2>. HIDE DEF x
  <2>4. \/ b + HEADER_SIZE + hdr'[b].size <= c + HEADER_SIZE
        \/ c + HEADER_SIZE + hdr'[c].size <= b + HEADER_SIZE
    BY <1>1, <1>8, <2>3, PayloadFacts
  <2>. QED  BY <1>9, <2>2, <2>4 DEF Abstract!Apart
<1>12. x \in Granted'
  BY <1>7
<1>. HIDE DEF x
<1>. QED  BY <1>7, <1>10, <1>11, <1>12 DEF Abstract!Grant

\* kfree is a Release of the abstract allocator.
LEMMA KfreeReleases ==
  ASSUME IInv, NEW b \in Blocks, kfree(b)
  PROVE  Abstract!Release
<1>1. /\ b \in Allocated(hdr)
      /\ Allocated(hdr') = Allocated(hdr) \ {b}
      /\ \A c \in Allocated(hdr') : hdr'[c].size = hdr[c].size
      /\ asked' = [c \in DOMAIN asked \ {b} |-> asked[c]]
  BY KfreeStep, Zenon
<1>2. asked \in [Allocated(hdr) -> Requests]
  BY DEF IInv, TypeOK, Allocated, Blocks
<1>3. \A c \in Allocated(hdr') : asked'[c] = asked[c]
  BY <1>1, <1>2
<1>4. \A c \in Allocated(hdr') : Image(hdr', asked', c) = Image(hdr, asked, c)
  BY <1>1, <1>3 DEF Image
<1>5. Granted' = {Image(hdr', asked', c) : c \in Allocated(hdr')}
  BY GrantedImage DEF Image, Granted, Allocated, Blocks
<1>6. Granted' = {Image(hdr, asked, c) : c \in Allocated(hdr) \ {b}}
  BY <1>1, <1>4, <1>5
<1>. DEFINE x == Image(hdr, asked, b)
<1>7. x \in Granted
  BY <1>1, GrantedImage
<1>8. ASSUME NEW c \in Allocated(hdr), c # b PROVE Image(hdr, asked, c) # x
  <2>1. c \in Nat /\ b \in Nat
    BY <1>1 DEF IInv, TypeOK, HeadersOf, Allocated, Blocks
  <2>2. Image(hdr, asked, c).addr = c + HEADER_SIZE /\ x.addr = b + HEADER_SIZE
    BY DEF Image
  <2>3. c + HEADER_SIZE # b + HEADER_SIZE
    BY <1>8, <2>1, HeapAssumption
  <2>. QED  BY <2>2, <2>3
<1>9. Granted' = Granted \ {x}
  BY <1>6, <1>8, GrantedImage
<1>. QED  BY <1>7, <1>9 DEF Abstract!Release

\* Every behaviour of heap.c is a behaviour of the abstract allocator: blocks
\* are aligned, long enough, disjoint, and stay put until freed.
THEOREM HeapImplements == Spec => Implements
<1>1. Init => Abstract!Init
  <2>. SUFFICES ASSUME Init PROVE Granted = {}
    BY DEF Abstract!Init
  <2>1. Allocated(hdr) = {}
    BY DEF Init, Allocated
  <2>. QED  BY <2>1, GrantedImage
<1>2. IInv /\ [Next]_vars => [Abstract!Next]_Granted
  <2>. SUFFICES ASSUME IInv, [Next]_vars PROVE [Abstract!Next]_Granted
    OBVIOUS
  <2>1. ASSUME NEW n \in Requests, kmalloc(n) PROVE Abstract!Grant
    BY <2>1, KmallocGrants
  <2>2. ASSUME NEW b \in Blocks, kfree(b) PROVE Abstract!Release
    BY <2>2, KfreeReleases
  <2>3. CASE UNCHANGED vars
    BY <2>3 DEF vars, Granted, Blocks
  <2>. QED  BY <2>1, <2>2, <2>3 DEF Next, Abstract!Next
<1>. QED  BY <1>1, <1>2, HeapInductive, PTL DEF Spec, Implements, Abstract!Spec
=============================================================================
