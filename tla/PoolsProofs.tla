----------------------------- MODULE PoolsProofs -----------------------------
(***************************************************************************)
(* Proofs about Pools, for every size of the word, of the regions and of   *)
(* the requests, every capacity, every size of an element and every number *)
(* of generations.                                                         *)
(***************************************************************************)
EXTENDS Pools, ModArith, FiniteSetTheorems

-----------------------------------------------------------------------------
(***************************************************************************)
(* The arena                                                               *)
(***************************************************************************)

\* align_up_address returns an address that is a multiple of the alignment.
LEMMA AlignFacts ==
    ASSUME NEW addr \in Address, NEW alignment \in Nat \ {0},
           NEW r, r = align_up_address(addr, alignment)
    PROVE  r \in Address /\ r % alignment = 0
<1>1. Word \in Nat \ {0}
    BY WordAssumption
<1>2. PICK x \in Int : x = addr + alignment - 1
    BY <1>1 DEF Address
<1>3. PICK sum \in 0..(Word - 1) : sum = x % Word
    BY <1>1, ModDef
<1>4. sum \in Int /\ sum >= 0
    BY <1>1, <1>3
<1>5. PICK m \in 0..(alignment - 1) : m = sum % alignment
    BY <1>4, ModDef
<1>6. PICK q \in Int : sum = (alignment * q) + m
    BY <1>4, <1>5, ModDef
<1>7. r = sum - m
    BY <1>2, <1>3, <1>5 DEF align_up_address
<1>8. PICK y \in Int : y = alignment * q
    OBVIOUS
<1>9. r = y
    BY <1>4, <1>5, <1>6, <1>7, <1>8
<1>10. y >= 0
    <2>1. q < 0 => alignment * q <= -alignment
        OBVIOUS
    <2>. QED  BY <1>4, <1>5, <1>6, <1>8, <2>1
<1>11. r \in Address
    BY <1>1, <1>3, <1>4, <1>5, <1>7, <1>9, <1>10 DEF Address
<1>12. ((alignment * q) + 0) % alignment = 0
    BY ModUnique
<1>13. (alignment * q) + 0 = r
    BY <1>8, <1>9
<1>. QED  BY <1>11, <1>12, <1>13

\* The fields of arena_t once arena_init has checked them: the region does not
\* wrap around and offset_bytes stays in it.
Bounded(a) ==
    /\ a \in [base : Nat, capacity_bytes : Nat, offset_bytes : Nat,
              allocation_count : Nat, flags : SUBSET {"owns", "dynamic", "mmap"}]
    /\ a.base < Word /\ a.base + a.capacity_bytes <= Word
    /\ a.offset_bytes <= a.capacity_bytes

\* What arena_alloc returns: an aligned block that starts at or after the first
\* free byte and ends where the new offset says, or nothing and the same arena.
Allocated(a, size, alignment, got) ==
    /\ got.ok \in BOOLEAN
    /\ got.ok = FALSE => got.arena = a
    /\ Bounded(got.arena) /\ got.arena.base = a.base /\ got.arena.flags = a.flags
    /\ got.arena.capacity_bytes = a.capacity_bytes
    /\ got.ok = TRUE =>
           /\ a.base # NULL /\ got.ptr \in Nat /\ alignment # 0 /\ size # 0
           /\ got.ptr % alignment = 0
           /\ a.base + a.offset_bytes <= got.ptr
           /\ got.ptr + size = a.base + got.arena.offset_bytes

\* arena_alloc, for every arena, size and alignment.
LEMMA AllocFacts ==
    ASSUME NEW a, Bounded(a), NEW size \in Nat, NEW alignment \in Nat,
           NEW got, got = arena_alloc(a, size, alignment)
    PROVE  Allocated(a, size, alignment, got)
<1> DEFINE raw == (a.base + a.offset_bytes) % Word
           aligned == align_up_address(raw, alignment)
           offset == (aligned - a.base) % Word
<1>0. Word \in Nat \ {0}
    BY WordAssumption
<1>1. CASE got = failed(a)
    BY <1>1 DEF failed, Allocated
<1>2. CASE got # failed(a)
    <2>1. /\ a.base # NULL /\ size # 0 /\ alignment # 0
          /\ ~(raw < a.base) /\ ~(offset < a.offset_bytes)
          /\ ~(offset + size > a.capacity_bytes)
          /\ got = [ok |-> TRUE, ptr |-> aligned,
                    arena |-> [a EXCEPT !.offset_bytes = offset + size, !.allocation_count = @ + 1]]
        BY <1>2 DEF arena_alloc, arena_ptr_is_valid, PowerOfTwo, add_would_overflow
    <2>2. a.base \in Nat /\ a.offset_bytes \in Nat /\ a.capacity_bytes \in Nat
        BY DEF Bounded
    <2>0. PICK s \in Int : s = a.base + a.offset_bytes
        BY <2>2
    <2>3. PICK r \in 0..(Word - 1) : r = raw
        <3>1. s % Word \in 0..(Word - 1)
            BY <1>0, ModDef
        <3>. QED  BY <2>0, <3>1
    <2>4. PICK p : p = align_up_address(r, alignment)
        OBVIOUS
    <2>5. p \in Address /\ p % alignment = 0
        BY <2>1, <2>3, <2>4, AlignFacts DEF Address
    <2>6. p = aligned
        BY <2>3, <2>4
    <2>7. r = a.base + a.offset_bytes
        <3>1. s = a.base + a.offset_bytes /\ s >= 0
            BY <2>0, <2>2
        <3>2. s <= Word
            BY <3>1, <2>2, <1>0 DEF Bounded
        <3>3. CASE s = Word
            <4>1. ((Word * 1) + 0) % Word = 0
                BY <1>0, ModUnique
            <4>2. r = 0
                BY <1>0, <2>3, <3>1, <3>3, <4>1
            <4>. QED  BY <2>1, <2>2, <2>3, <4>2 DEF NULL
        <3>4. CASE s # Word
            <4>1. s \in 0..(Word - 1)
                BY <1>0, <3>1, <3>2, <3>4
            <4>2. ((Word * 0) + s) % Word = s
                BY <1>0, <4>1, ModUnique
            <4>. QED  BY <1>0, <2>3, <3>1, <4>2
        <3>. QED  BY <3>3, <3>4
    <2>8. a.base \in 0..(Word - 1) /\ p \in 0..(Word - 1)
        BY <1>0, <2>2, <2>5 DEF Bounded, Address
    <2>9. PICK o \in Int : o = offset
        <3>1. PICK d \in Int : d = p - a.base
            BY <1>0, <2>8
        <3>2. d % Word \in 0..(Word - 1)
            BY <1>0, ModDef
        <3>. QED  BY <1>0, <2>6, <3>1, <3>2
    <2>10. o = IF p >= a.base THEN p - a.base ELSE (p - a.base) + Word
        BY <1>0, <2>6, <2>8, <2>9, ModMinus
    <2>11. a.base + a.capacity_bytes <= Word /\ a.offset_bytes <= a.capacity_bytes
        BY DEF Bounded
    <2>12. p >= a.base /\ o = p - a.base
        BY <1>0, <2>1, <2>2, <2>8, <2>9, <2>10, <2>11
    <2>13. /\ got.ok = TRUE /\ got.ptr = p
           /\ got.arena = [a EXCEPT !.offset_bytes = o + size, !.allocation_count = @ + 1]
        BY <2>1, <2>6, <2>9
    <2>14. /\ got.arena.base = a.base /\ got.arena.flags = a.flags
           /\ got.arena.capacity_bytes = a.capacity_bytes /\ got.arena.offset_bytes = o + size
        BY <2>13 DEF Bounded
    <2>15. o + size \in Nat /\ o + size <= a.capacity_bytes /\ a.offset_bytes <= o
        BY <1>0, <2>1, <2>2, <2>9, <2>12, <2>8
    <2>16. Bounded(got.arena)
        <3>1. PICK k \in Nat : k = o + size
            BY <2>15
        <3>2. got.arena \in [base : Nat, capacity_bytes : Nat, offset_bytes : Nat,
                             allocation_count : Nat, flags : SUBSET {"owns", "dynamic", "mmap"}]
            <4>1. got.arena = [a EXCEPT !.offset_bytes = k, !.allocation_count = a.allocation_count + 1]
                BY <2>13, <3>1 DEF Bounded
            <4>2. PICK n \in Nat : n = a.allocation_count + 1
                BY DEF Bounded
            <4>3. got.arena = [a EXCEPT !.offset_bytes = k, !.allocation_count = n]
                BY <4>1, <4>2
            <4>. QED  BY <4>3 DEF Bounded
        <3>. QED  BY <2>14, <2>15, <3>2 DEF Bounded
    <2>17. got.ok \in BOOLEAN
        BY <2>1
    <2>18. a.base + a.offset_bytes <= p /\ p + size = a.base + (o + size) /\ p \in Nat
        BY <1>0, <2>2, <2>8, <2>9, <2>12, <2>15
    <2>. QED  BY <2>1, <2>5, <2>13, <2>14, <2>16, <2>17, <2>18 DEF Allocated
<1>. QED  BY <1>1, <1>2

\* A block an arena gave out lies between the base and the offset, aligned.
Within(a, b) ==
    /\ b.ptr \in Nat /\ b.bytes \in Nat
    /\ b.ptr % b.alignment = 0
    /\ a.base <= b.ptr /\ b.ptr + b.bytes <= a.base + a.offset_bytes

\* Two blocks, one after the other.
Apart(b, c) == b.ptr + b.bytes <= c.ptr \/ c.ptr + c.bytes <= b.ptr

\* An arena and the blocks it gave out.
GaveOut(a, bs) ==
    /\ Bounded(a)
    /\ \A b \in bs : Within(a, b)
    /\ \A b, c \in bs : b # c => Apart(b, c)

\* A block of arena_alloc joins those given out before.
LEMMA BlockJoins ==
    ASSUME NEW a, NEW bs, GaveOut(a, bs), NEW size \in Nat, NEW alignment \in Nat,
           NEW got, got = arena_alloc(a, size, alignment), got.ok = TRUE,
           NEW b, b.ptr = got.ptr, b.bytes = size, b.alignment = alignment
    PROVE  GaveOut(got.arena, bs \cup {b})
<1>0. Bounded(a)
    BY DEF GaveOut
<1>8. Allocated(a, size, alignment, got)
    BY <1>0, AllocFacts
<1>1. /\ Bounded(got.arena) /\ got.arena.base = a.base /\ got.ptr \in Nat
      /\ a.base + a.offset_bytes <= got.ptr
      /\ got.ptr + size = a.base + got.arena.offset_bytes
    BY <1>8 DEF Allocated
<1>7. got.ptr % alignment = 0
    BY <1>8 DEF Allocated
<1>2. /\ a.base \in Nat /\ a.offset_bytes \in Nat /\ got.arena.offset_bytes \in Nat
    BY <1>0, <1>1 DEF Bounded
<1>3. Within(got.arena, b)
    <2>1. b.ptr % b.alignment = 0
        BY <1>7
    <2>2. b.ptr \in Nat /\ b.bytes \in Nat /\ a.base <= b.ptr
          /\ b.ptr + b.bytes <= a.base + got.arena.offset_bytes
        BY <1>1, <1>2
    <2>. QED  BY <1>1, <2>1, <2>2 DEF Within
<1>4. ASSUME NEW c \in bs PROVE Within(got.arena, c) /\ Apart(b, c) /\ Apart(c, b)
    <2>1. /\ c.ptr \in Nat /\ c.bytes \in Nat /\ c.ptr % c.alignment = 0
          /\ a.base <= c.ptr /\ c.ptr + c.bytes <= a.base + a.offset_bytes
        BY DEF GaveOut, Within
    <2>2. PICK e \in Nat : e = c.ptr + c.bytes
        BY <2>1
    <2>3. e <= got.ptr /\ e <= a.base + got.arena.offset_bytes
        BY <1>1, <1>2, <2>1, <2>2
    <2>4. Within(got.arena, c)
        <3>1. c.ptr + c.bytes <= got.arena.base + got.arena.offset_bytes
            BY <1>1, <2>2, <2>3
        <3>. QED  BY <1>1, <2>1, <3>1 DEF Within
    <2>5. Apart(b, c) /\ Apart(c, b)
        BY <2>2, <2>3 DEF Apart
    <2>. QED  BY <2>4, <2>5
<1>5. \A c \in bs \cup {b} : Within(got.arena, c)
    BY <1>3, <1>4
<1>6. \A c, d \in bs \cup {b} : c # d => Apart(c, d)
    BY <1>4 DEF GaveOut
<1>. QED  BY <1>1, <1>5, <1>6 DEF GaveOut

\* How far init_from_arena has come: what it got so far, in an arena that is the
\* one before it but for the offset and the count.
Progress(a, d) ==
    /\ d = [ok |-> d.ok, arena |-> d.arena, first |-> d.first, blocks |-> d.blocks]
    /\ d.ok \in BOOLEAN /\ d.first \in Nat
    /\ GaveOut(d.arena, d.blocks)
    /\ d.arena.base = a.base /\ d.arena.flags = a.flags

\* One more allocation of init_from_arena.
LEMMA NextBlockFacts ==
    ASSUME NEW a, a.base # NULL, NEW d, Progress(a, d),
           NEW w, w.bytes \in Nat, w.alignment \in Nat,
           NEW e, e = next_block(d, w)
    PROVE  Progress(a, e) /\ (e.ok = TRUE => e.first # NULL)
<1>1. PICK got : got = arena_alloc(d.arena, w.bytes, w.alignment)
    OBVIOUS
<1>2. Bounded(d.arena)
    BY DEF Progress, GaveOut
<1>0. PICK da : da = d.arena
    OBVIOUS
<1>3. PICK size \in Nat, alignment \in Nat :
          da = d.arena /\ size = w.bytes /\ alignment = w.alignment
    BY <1>0
<1>4. Allocated(da, size, alignment, got)
    BY <1>1, <1>2, <1>3, AllocFacts
<1>5. CASE d.ok = FALSE \/ got.ok = FALSE
    <2>1. e = [d EXCEPT !.ok = FALSE]
        BY <1>1, <1>5 DEF next_block
    <2>2. e = [ok |-> FALSE, arena |-> d.arena, first |-> d.first, blocks |-> d.blocks]
        BY <2>1 DEF Progress
    <2>. QED  BY <2>2 DEF Progress
<1>6. CASE d.ok = TRUE /\ got.ok = TRUE
    <2>1. PICK b : b = [ptr |-> got.ptr, bytes |-> w.bytes,
                        alignment |-> w.alignment, owner |-> "pool"]
        OBVIOUS
    <2>2. PICK bs : bs = d.blocks
        OBVIOUS
    <2>3. e = [ok |-> TRUE, arena |-> got.arena,
               first |-> IF d.first = NULL THEN got.ptr ELSE d.first,
               blocks |-> bs \cup {b}]
        BY <1>1, <1>6, <2>1, <2>2 DEF next_block
    <2>4. b.ptr = got.ptr /\ b.bytes = size /\ b.alignment = alignment
        BY <1>3, <2>1
    <2>5. GaveOut(da, bs)
        BY <1>3, <2>2 DEF Progress
    <2>6. GaveOut(got.arena, bs \cup {b})
        <3>1. got = arena_alloc(da, size, alignment)
            BY <1>1, <1>3
        <3>. QED  BY <1>6, <2>4, <2>5, <3>1, BlockJoins
    <2>7. /\ got.ptr \in Nat /\ da.base + da.offset_bytes <= got.ptr
          /\ got.arena.base = da.base /\ got.arena.flags = da.flags
        BY <1>4, <1>6 DEF Allocated
    <2>8. got.ptr # NULL
        BY <1>2, <1>3, <2>7 DEF Bounded, NULL, Progress
    <2>9. PICK f \in Nat : f = IF d.first = NULL THEN got.ptr ELSE d.first
        BY <2>7 DEF Progress
    <2>10. f # NULL
        BY <2>8, <2>9
    <2>11. e = [ok |-> TRUE, arena |-> got.arena, first |-> f, blocks |-> bs \cup {b}]
        BY <2>3, <2>9
    <2>12. got.arena.base = a.base /\ got.arena.flags = a.flags
        BY <1>3, <2>7 DEF Progress
    <2>. QED  BY <2>6, <2>10, <2>11, <2>12 DEF Progress
<1>7. d.ok \in BOOLEAN /\ got.ok \in BOOLEAN
    BY <1>4 DEF Progress, Allocated
<1>. QED  BY <1>5, <1>6, <1>7

\* The arena, the blocks it gave out, and the memory it owns.
ArenaInv ==
    /\ GaveOut(arena, blocks)
    /\ arena.base = NULL => memory = {} /\ blocks = {}
    /\ arena.base # NULL =>
           memory \ {<<"object", "malloc">>} = arena_release_backing(arena)
    /\ "wrong" \notin history

\* The blocks wanted by init_from_arena.
wanted_blocks == IF kind = "objpool" THEN objpool_blocks ELSE handle_blocks

\* init_from_arena keeps what it allocated, all of it in the arena; when every block
\* was there, the storage is not null.
LEMMA TakenFacts ==
    ASSUME ArenaInv, arena.base # NULL, NEW done, done = taken(wanted_blocks)
    PROVE  Progress(arena, done) /\ (done.ok = TRUE => done.first # NULL)
<1>1. PICK w1, w2, w3 :
          w1 = wanted_blocks[1] /\ w2 = wanted_blocks[2] /\ w3 = wanted_blocks[3]
    OBVIOUS
<1>2. /\ w1.bytes \in Nat /\ w1.alignment \in Nat /\ w2.bytes \in Nat /\ w2.alignment \in Nat
      /\ w3.bytes \in Nat /\ w3.alignment \in Nat
    <2>1. /\ ElemBytes * Capacity \in Nat /\ StackBytes * Capacity \in Nat
          /\ GenBytes * Capacity \in Nat /\ (Capacity + 7) \div 8 \in Nat
          /\ ElemBytes \in Nat /\ StackBytes \in Nat /\ GenBytes \in Nat
        BY PoolsAssumption
    <2>2. PICK e \in Nat, s \in Nat, g \in Nat, u \in Nat :
              /\ e = ElemBytes * Capacity /\ s = StackBytes * Capacity
              /\ g = GenBytes * Capacity /\ u = (Capacity + 7) \div 8
        BY <2>1
    <2>3. objpool_blocks = <<[bytes |-> e, alignment |-> ElemBytes],
                             [bytes |-> s, alignment |-> StackBytes],
                             [bytes |-> u, alignment |-> 1]>>
        BY <2>2 DEF objpool_blocks
    <2>4. handle_blocks = <<[bytes |-> e, alignment |-> ElemBytes],
                            [bytes |-> g, alignment |-> GenBytes],
                            [bytes |-> s, alignment |-> StackBytes]>>
        BY <2>2 DEF handle_blocks
    <2>5. CASE kind = "objpool"
        BY <1>1, <2>1, <2>3, <2>5 DEF wanted_blocks
    <2>6. CASE kind # "objpool"
        BY <1>1, <2>1, <2>4, <2>6 DEF wanted_blocks
    <2>. QED  BY <2>5, <2>6
<1>3. PICK d0 : d0 = [ok |-> TRUE, arena |-> arena, first |-> NULL, blocks |-> blocks]
    OBVIOUS
<1>4. PICK d1 : d1 = next_block(d0, w1)
    OBVIOUS
<1>5. PICK d2 : d2 = next_block(d1, w2)
    OBVIOUS
<1>6. done = next_block(d2, w3)
    BY <1>1, <1>3, <1>4, <1>5 DEF taken
<1>7. PICK a : a = arena
    OBVIOUS
<1>8. a.base # NULL
    BY <1>7
<1>9. Progress(a, d0)
    BY <1>3, <1>7 DEF ArenaInv, Progress, NULL
<1>10. Progress(a, d1)
    BY <1>2, <1>4, <1>8, <1>9, NextBlockFacts
<1>11. Progress(a, d2)
    BY <1>2, <1>5, <1>8, <1>10, NextBlockFacts
<1>12. Progress(a, done) /\ (done.ok = TRUE => done.first # NULL)
    BY <1>2, <1>6, <1>8, <1>11, NextBlockFacts
<1>. QED  BY <1>7, <1>12

-----------------------------------------------------------------------------
(***************************************************************************)
(* The arena is sound: one step per action                                 *)
(***************************************************************************)

\* A region that an arena can get makes a bounded arena with nothing in use.
LEMMA RegionFacts ==
    ASSUME NEW r \in Regions, NEW from \in {"buffer", "malloc", "mmap"},
           NEW a, a = arena_init(r, backing_flags(from))
    PROVE  /\ GaveOut(a, {}) /\ a.base # NULL
           /\ arena_release_backing(a) = {<<"backing", from>>} \ {<<"backing", "buffer">>}
<1>1. PICK f \in SUBSET {"owns", "dynamic", "mmap"} : f = backing_flags(from)
    BY DEF backing_flags
<1>2. /\ r.base \in Nat /\ r.base < Word /\ r.base # NULL /\ r.bytes \in Nat
      /\ r.base + r.bytes <= Word
    BY PoolsAssumption, WordAssumption DEF Address
<1>3. a = [base |-> r.base, capacity_bytes |-> r.bytes, offset_bytes |-> 0,
           allocation_count |-> 0, flags |-> f]
    BY <1>1 DEF arena_init, zeroed
<1>4. Bounded(a)
    BY <1>2, <1>3 DEF Bounded
<1>5. arena_release_backing(a) = {<<"backing", from>>} \ {<<"backing", "buffer">>}
    <2>1. CASE from = "buffer"
        BY <1>1, <1>3, <2>1 DEF arena_release_backing, backing_flags
    <2>2. CASE from = "malloc"
        BY <1>1, <1>3, <2>2 DEF arena_release_backing, backing_flags
    <2>3. CASE from = "mmap"
        BY <1>1, <1>3, <2>3 DEF arena_release_backing, backing_flags
    <2>. QED  BY <2>1, <2>2, <2>3
<1>. QED  BY <1>2, <1>3, <1>4, <1>5 DEF GaveOut

\* Initially there is no arena.
LEMMA ArenaInitially == Init => ArenaInv
<1>1. zeroed \in [base : Nat, capacity_bytes : Nat, offset_bytes : Nat,
                  allocation_count : Nat, flags : SUBSET {"owns", "dynamic", "mmap"}]
    BY DEF zeroed, NULL
<1>2. Bounded(zeroed)
    BY <1>1, WordAssumption DEF Bounded, zeroed, NULL
<1>. QED  BY <1>2 DEF Init, ArenaInv, GaveOut, zeroed

\* Every step keeps the arena, its blocks and its memory in order.
LEMMA ArenaStep == ASSUME ArenaInv, [Next]_vars PROVE ArenaInv'
<1>0. "wrong" \notin history
    BY DEF ArenaInv
<1>1. CASE ArenaInit
    <2>1. PICK r \in Regions, from \in {"buffer", "malloc", "mmap"} :
              /\ arena' = arena_init(r, backing_flags(from))
              /\ memory' = {<<"backing", from>>} \ {<<"backing", "buffer">>}
        BY <1>1 DEF ArenaInit
    <2>2. PICK a : a = arena_init(r, backing_flags(from))
        OBVIOUS
    <2>3. /\ GaveOut(a, {}) /\ a.base # NULL
          /\ arena_release_backing(a) = {<<"backing", from>>} \ {<<"backing", "buffer">>}
        BY <2>2, RegionFacts
    <2>4. blocks' = {} /\ history' = history /\ arena' = a
        BY <1>1, <2>1, <2>2 DEF ArenaInit, ArenaInv
    <2>5. GaveOut(arena, blocks)'
        BY <2>3, <2>4
    <2>6. (memory \ {<<"object", "malloc">>})' = arena_release_backing(arena')
        BY <2>1, <2>3, <2>4
    <2>. QED  BY <1>0, <2>3, <2>4, <2>5, <2>6 DEF ArenaInv
<1>2. CASE ArenaCreate
    <2>1. blocks' = {} /\ "wrong" \notin history' /\ blocks = {}
        BY <1>0, <1>2 DEF ArenaCreate, ArenaInv
    <2>2. CASE UNCHANGED <<arena, memory>>
        BY <2>1, <2>2 DEF ArenaInv
    <2>3. CASE \E r \in Regions, from \in {"malloc", "mmap"} :
                  /\ arena' = arena_init(r, backing_flags(from))
                  /\ memory' = {<<"backing", from>>, <<"object", "malloc">>}
        <3>1. PICK r \in Regions, from \in {"malloc", "mmap"} :
                  /\ arena' = arena_init(r, backing_flags(from))
                  /\ memory' = {<<"backing", from>>, <<"object", "malloc">>}
            BY <2>3
        <3>2. PICK a : a = arena_init(r, backing_flags(from))
            OBVIOUS
        <3>3. /\ GaveOut(a, {}) /\ a.base # NULL
              /\ arena_release_backing(a) = {<<"backing", from>>} \ {<<"backing", "buffer">>}
            BY <3>2, RegionFacts
        <3>4. memory' \ {<<"object", "malloc">>} = arena_release_backing(a)
            BY <3>1, <3>3
        <3>. QED  BY <2>1, <3>1, <3>2, <3>3, <3>4 DEF ArenaInv
    <2>. QED  BY <1>2, <2>2, <2>3 DEF ArenaCreate
<1>3. CASE ArenaEnd
    <2>1. arena_release_backing(arena) \cup (memory \cap {<<"object", "malloc">>}) = memory
        BY <1>3 DEF ArenaEnd, ArenaInv
    <2>2. memory' = {} /\ history' = history /\ arena' = zeroed /\ blocks' = {}
        BY <1>3, <2>1 DEF ArenaEnd
    <2>3. GaveOut(zeroed, {}) /\ zeroed.base = NULL
        <3>1. zeroed \in [base : Nat, capacity_bytes : Nat, offset_bytes : Nat,
                  allocation_count : Nat, flags : SUBSET {"owns", "dynamic", "mmap"}]
            BY DEF zeroed, NULL
        <3>. QED  BY <3>1, WordAssumption DEF Bounded, zeroed, NULL, GaveOut
    <2>. QED  BY <1>0, <2>2, <2>3 DEF ArenaInv
<1>4. CASE ArenaReset
    <2>1. arena' = [arena EXCEPT !.offset_bytes = 0, !.allocation_count = 0] /\ blocks' = {}
          /\ history' = history /\ memory' = memory
        BY <1>4 DEF ArenaReset, arena_reset
    <2>2. arena \in [base : Nat, capacity_bytes : Nat, offset_bytes : Nat,
                  allocation_count : Nat, flags : SUBSET {"owns", "dynamic", "mmap"}]
        BY DEF ArenaInv, GaveOut, Bounded
    <2>3. /\ arena' \in [base : Nat, capacity_bytes : Nat, offset_bytes : Nat,
                  allocation_count : Nat, flags : SUBSET {"owns", "dynamic", "mmap"}]
          /\ arena'.base = arena.base /\ arena'.capacity_bytes = arena.capacity_bytes
          /\ arena'.offset_bytes = 0 /\ arena'.flags = arena.flags
        BY <2>1, <2>2
    <2>4. Bounded(arena')
        BY <2>3 DEF ArenaInv, GaveOut, Bounded
    <2>5. arena_release_backing(arena') = arena_release_backing(arena)
        BY <2>3 DEF arena_release_backing
    <2>. QED  BY <1>0, <2>1, <2>3, <2>4, <2>5 DEF ArenaInv, GaveOut
<1>5. ASSUME NEW q \in Requests, ArenaAlloc(q) PROVE ArenaInv'
    <2>1. /\ arena.base # NULL /\ memory' = memory /\ history' = history
          /\ q.count \in Nat /\ q.size \in Nat /\ q.alignment \in Nat
        BY <1>5, PoolsAssumption DEF ArenaAlloc, Address
    <2>2. PICK size \in Nat, alignment \in Nat :
              size = q.count * q.size /\ alignment = q.alignment
        BY <2>1
    <2>3. PICK got : got = arena_calloc(arena, q.count, q.size, q.alignment)
        OBVIOUS
    <2>4. CASE got = failed(arena)
        <3>1. UNCHANGED <<arena, blocks>>
            BY <1>5, <2>3, <2>4 DEF ArenaAlloc, failed
        <3>. QED  BY <2>1, <3>1 DEF ArenaInv
    <2>5. CASE got = arena_alloc(arena, size, alignment)
        <3>1. PICK a, bs : a = arena /\ bs = blocks
            OBVIOUS
        <3>2. GaveOut(a, bs) /\ Bounded(a)
            BY <3>1 DEF ArenaInv, GaveOut
        <3>3. got = arena_alloc(a, size, alignment)
            BY <2>5, <3>1
        <3>4. Allocated(a, size, alignment, got)
            BY <3>2, <3>3, AllocFacts
        <3>5. got.arena.base = arena.base /\ got.arena.flags = arena.flags /\ got.ok \in BOOLEAN
            BY <3>1, <3>4 DEF Allocated
        <3>6. arena_release_backing(got.arena) = arena_release_backing(arena)
            BY <3>5 DEF arena_release_backing
        <3>7. PICK b : b = [ptr |-> got.ptr, bytes |-> q.count * q.size,
                            alignment |-> q.alignment, owner |-> "other"]
            OBVIOUS
        <3>8. /\ arena' = got.arena
              /\ blocks' = IF got.ok = FALSE THEN blocks ELSE blocks \cup {b}
            BY <1>5, <2>3, <3>5, <3>7 DEF ArenaAlloc
        <3>9. GaveOut(got.arena, blocks')
            <4>1. CASE got.ok = TRUE
                <5>1. b.ptr = got.ptr /\ b.bytes = size /\ b.alignment = alignment
                    BY <2>2, <3>7
                <5>2. GaveOut(got.arena, bs \cup {b})
                    BY <3>2, <3>3, <4>1, <5>1, BlockJoins
                <5>. QED  BY <3>1, <3>8, <4>1, <5>2
            <4>2. CASE got.ok = FALSE
                BY <3>1, <3>2, <3>4, <3>8, <4>2 DEF Allocated
            <4>. QED  BY <3>5, <4>1, <4>2
        <3>. QED  BY <2>1, <3>5, <3>6, <3>8, <3>9 DEF ArenaInv
    <2>. QED  BY <2>2, <2>3, <2>4, <2>5 DEF arena_calloc
<1>6. CASE InitFromArena
    <2>1. PICK done : done = taken(wanted_blocks)
        OBVIOUS
    <2>2. /\ arena.base # NULL /\ arena' = done.arena /\ blocks' = done.blocks
          /\ memory' = memory /\ history' = history
        BY <1>6, <2>1 DEF InitFromArena, wanted_blocks
    <2>3. Progress(arena, done)
        BY <2>1, <2>2, TakenFacts
    <2>4. /\ GaveOut(done.arena, done.blocks)
          /\ done.arena.base = arena.base /\ done.arena.flags = arena.flags
        BY <2>3 DEF Progress
    <2>5. arena_release_backing(done.arena) = arena_release_backing(arena)
        BY <2>4 DEF arena_release_backing
    <2>. QED  BY <2>2, <2>4, <2>5 DEF ArenaInv
<1>7. CASE UNCHANGED arenaVars /\ "wrong" \notin history'
    BY <1>7 DEF arenaVars, ArenaInv
<1>8. CASE Construct \/ Clear \/ Close \/ Alloc \/ AllocCopy \/ AllocCopyFails \/ Acquire
           \/ (\E addr \in Address : Free(addr)) \/ (\E h \in Known : Release(h))
    <2>1. UNCHANGED arenaVars
        BY <1>8 DEF Construct, Clear, Close, Alloc, AllocCopy, AllocCopyFails, Acquire, Free, Release
    <2>2. history' \subseteq history \cup {"stray", "copy_failed", "leaked"}
        BY <1>8 DEF Construct, Clear, Close, Alloc, AllocCopy, AllocCopyFails, Acquire, Free,
                    Release, Destroyed
    <2>. QED  BY <1>0, <1>7, <2>1, <2>2
<1>9. CASE UNCHANGED vars
    BY <1>0, <1>7, <1>9 DEF vars
<1>10. CASE \E q \in Requests : ArenaAlloc(q)
    BY <1>5, <1>10
<1>. QED  BY <1>1, <1>2, <1>3, <1>4, <1>6, <1>8, <1>9, <1>10, Zenon DEF Next

\* Blocks that do not overlap have no byte in common.
LEMMA ArenaInvSound == ArenaInv => ArenaSound
<1>. SUFFICES ASSUME ArenaInv PROVE ArenaSound
    OBVIOUS
<1>1. ASSUME NEW b \in blocks
      PROVE  /\ b.ptr % b.alignment = 0
             /\ b.ptr >= arena.base /\ b.ptr + b.bytes <= arena.base + arena.capacity_bytes
    <2>1. Within(arena, b) /\ Bounded(arena)
        BY DEF ArenaInv, GaveOut
    <2>2. b.ptr % b.alignment = 0
        BY <2>1 DEF Within
    <2>3. b.ptr >= arena.base /\ b.ptr + b.bytes <= arena.base + arena.capacity_bytes
        BY <2>1 DEF Within, Bounded
    <2>. QED  BY <2>2, <2>3
<1>2. ASSUME NEW b \in blocks, NEW c \in blocks \ {b} PROVE Bytes(b) \cap Bytes(c) = {}
    <2>1. /\ b.ptr \in Nat /\ b.bytes \in Nat /\ c.ptr \in Nat /\ c.bytes \in Nat
        BY DEF ArenaInv, GaveOut, Within
    <2>2. b.ptr + b.bytes <= c.ptr \/ c.ptr + c.bytes <= b.ptr
        BY DEF ArenaInv, GaveOut, Apart
    <2>. QED  BY <2>1, <2>2 DEF Bytes
<1>. QED  BY <1>1, <1>2 DEF ArenaInv, ArenaSound

\* The arena of src/arena.cpp, whatever is allocated from it: the blocks that
\* arena_alloc, arena_calloc and the pools' init_from_arena got since the last
\* arena_reset are aligned, in the region and apart, although addresses and sizes
\* wrap; and arena_deinit and arena_destroy give back exactly what was obtained.
THEOREM PoolsArenaSound == Spec => []ArenaSound
<1>1. ArenaInv /\ [Next]_vars => ArenaInv'
    BY ArenaStep
<1>. QED  BY <1>1, ArenaInitially, ArenaInvSound, PTL DEF Spec

-----------------------------------------------------------------------------
(***************************************************************************)
(* The free stack, the elements and the generations                        *)
(***************************************************************************)

\* No slot is on the stack twice, and which slots are on it.
Distinct(s) == \A j, k \in 1..Len(s) : s[j] = s[k] => j = k
On(s, i) == \E k \in 1..Len(s) : s[k] = i

\* The stack t is s without its top.
Popped(s, t, top) ==
    /\ t \in Seq(Index) /\ Len(t) = Len(s) - 1 /\ Distinct(t)
    /\ top \in Index /\ On(s, top)
    /\ \A i : On(t, i) <=> On(s, i) /\ i # top

\* Taking the slot on top: it was on the stack once, so it no longer is.
LEMMA PopFacts ==
    ASSUME NEW s \in Seq(Index), Distinct(s), s # <<>>,
           NEW t, t = SubSeq(s, 1, Len(s) - 1), NEW top, top = s[Len(s)]
    PROVE  Popped(s, t, top)
<1>1. Len(s) \in Nat /\ Len(s) >= 1
    OBVIOUS
<1>2. t \in Seq(Index) /\ Len(t) = Len(s) - 1 /\ \A k \in 1..Len(t) : t[k] = s[k]
    <2>1. PICK m \in Nat : m = Len(s) - 1
        BY <1>1
    <2>2. \A k \in 1..m : s[k] \in Index
        BY <1>1, <2>1
    <2>3. SubSeq(s, 1, m) \in Seq(Index) /\ Len(SubSeq(s, 1, m)) = m
        BY <2>1, <2>2
    <2>4. \A k \in 1..m : SubSeq(s, 1, m)[k] = s[k]
        BY <2>1
    <2>. QED  BY <2>1, <2>3, <2>4
<1>3. Distinct(t)
    BY <1>1, <1>2 DEF Distinct
<1>4. top \in Index /\ On(s, top)
    BY <1>1 DEF On
<1>5. ASSUME NEW i PROVE On(t, i) <=> On(s, i) /\ i # top
    <2>1. ASSUME NEW k \in 1..Len(t), t[k] = i PROVE On(s, i) /\ i # top
        <3>1. k \in 1..Len(s) /\ s[k] = i /\ k # Len(s) /\ Len(s) \in 1..Len(s)
            BY <1>1, <1>2, <2>1
        <3>. QED  BY <3>1 DEF On, Distinct
    <2>2. ASSUME NEW k \in 1..Len(s), s[k] = i, i # top PROVE On(t, i)
        <3>1. k \in 1..Len(t) /\ t[k] = i
            BY <1>1, <1>2, <2>2
        <3>. QED  BY <3>1 DEF On
    <2>. QED  BY <2>1, <2>2 DEF On
<1>. QED  BY <1>2, <1>3, <1>4, <1>5 DEF Popped

\* Giving a slot back that is not on the stack.
LEMMA PushFacts ==
    ASSUME NEW s \in Seq(Index), Distinct(s), NEW x \in Index, ~On(s, x),
           NEW t, t = Append(s, x)
    PROVE  /\ t \in Seq(Index) /\ Len(t) = Len(s) + 1 /\ Distinct(t)
           /\ \A i : On(t, i) <=> On(s, i) \/ i = x
<1>1. Len(s) \in Nat
    OBVIOUS
<1>2. /\ t \in Seq(Index) /\ Len(t) = Len(s) + 1 /\ t[Len(s) + 1] = x
      /\ \A k \in 1..Len(s) : t[k] = s[k]
    BY <1>1
<1>3. \A k \in 1..Len(t) : k \in 1..Len(s) \/ k = Len(s) + 1
    BY <1>1, <1>2
<1>4. \A k \in 1..Len(s) : k \in 1..Len(t) /\ s[k] # x
    BY <1>1, <1>2 DEF On
<1>5. Len(s) + 1 \in 1..Len(t)
    BY <1>1, <1>2
<1>6. Distinct(t)
    <2>. SUFFICES ASSUME NEW j \in 1..Len(t), NEW k \in 1..Len(t), t[j] = t[k] PROVE j = k
        BY DEF Distinct
    <2>1. CASE j \in 1..Len(s) /\ k \in 1..Len(s)
        BY <1>2, <2>1 DEF Distinct
    <2>2. CASE j = Len(s) + 1 \/ k = Len(s) + 1
        BY <1>2, <1>3, <1>4, <2>2
    <2>. QED  BY <1>3, <2>1, <2>2
<1>7. ASSUME NEW i PROVE On(t, i) <=> On(s, i) \/ i = x
    BY <1>2, <1>3, <1>4, <1>5 DEF On
<1>. QED  BY <1>2, <1>6, <1>7

\* reset_free_list puts every slot on the stack.
LEMMA ResetFacts ==
    ASSUME NEW s, s = reset_free_list
    PROVE  /\ s \in Seq(Index) /\ Len(s) = Capacity /\ Distinct(s)
           /\ \A i \in Index : On(s, i)
<1>0. Capacity \in Nat \ {0}
    BY PoolsAssumption
<1>1. \A k \in 1..Capacity : Capacity - k \in Index
    BY <1>0 DEF Index
<1>2. s = [k \in 1..Capacity |-> Capacity - k]
    BY DEF reset_free_list
<1>3. s \in [1..Capacity -> Index]
    BY <1>1, <1>2
<1>4. s \in Seq(Index) /\ Len(s) = Capacity
    BY <1>0, <1>3
<1>5. Distinct(s)
    BY <1>0, <1>2, <1>4 DEF Distinct
<1>6. ASSUME NEW i \in Index PROVE On(s, i)
    <2>1. i \in Int /\ Capacity - i \in 1..Capacity /\ Capacity - (Capacity - i) = i
        BY <1>0 DEF Index
    <2>2. s[Capacity - i] = i
        BY <1>2, <2>1
    <2>. QED  BY <1>4, <2>1, <2>2 DEF On
<1>. QED  BY <1>4, <1>5, <1>6

\* Two slots have different addresses.
LEMMA ElemInjective ==
    ASSUME storage \in Nat, NEW i \in Index, NEW j \in Index, elem_at(i) = elem_at(j)
    PROVE  i = j
<1>1. ElemBytes \in Nat \ {0} /\ i \in Int /\ j \in Int
    BY PoolsAssumption DEF Index
<1>2. PICK x \in Int, y \in Int : x = i * ElemBytes /\ y = j * ElemBytes
    BY <1>1
<1>3. x = y
    <2>1. storage + x = storage + y
        BY <1>2, Zenon DEF elem_at
    <2>. QED  BY <2>1
<1>4. (i - j) * ElemBytes = 0
    <2>1. (i - j) * ElemBytes = (i * ElemBytes) - (j * ElemBytes)
        BY <1>1
    <2>. QED  BY <1>2, <1>3, <2>1
<1>5. i - j > 0 => (i - j) * ElemBytes > 0
    BY <1>1
<1>6. i - j < 0 => (i - j) * ElemBytes < 0
    BY <1>1
<1>. QED  BY <1>1, <1>4, <1>5, <1>6

\* index finds the slot of an address only when the address is its start.
LEMMA IndexFacts ==
    ASSUME storage \in Nat, NEW addr \in Address, NEW i \in index(addr)
    PROVE  i \in Index /\ addr = elem_at(i)
<1>1. ElemBytes \in Nat \ {0} /\ addr \in Int
    BY PoolsAssumption, WordAssumption DEF Address
<1>2. PICK offset \in Int : offset = addr - storage
    BY <1>1
<1>3. offset % ElemBytes = 0 /\ i = offset \div ElemBytes /\ i \in Index
    BY <1>2 DEF index
<1>4. offset = (ElemBytes * (offset \div ElemBytes)) + (offset % ElemBytes)
    BY <1>1
<1>5. i \in Int
    BY <1>3 DEF Index
<1>6. offset = i * ElemBytes
    BY <1>1, <1>3, <1>4, <1>5
<1>7. PICK x \in Int : x = i * ElemBytes
    BY <1>1, <1>5
<1>. QED  BY <1>1, <1>2, <1>3, <1>6, <1>7 DEF elem_at

\* The generation of a slot that was released u times.
Gen(u) == (u % MaxGen) + 1

\* Generations are not 0, bump_generation goes to the next, and MaxGen in a row are
\* different.
LEMMA GenFacts ==
    ASSUME NEW u \in Nat
    PROVE  /\ Gen(u) \in Nat /\ Gen(u) # 0
           /\ Gen(u + 1) = IF Gen(u) = MaxGen THEN 1 ELSE Gen(u) + 1
           /\ \A v \in Nat : u < v /\ v - u < MaxGen => Gen(u) # Gen(v)
<1>0. MaxGen \in Nat \ {0} /\ u \in Int
    BY PoolsAssumption
<1>1. PICK m \in 0..(MaxGen - 1) : m = u % MaxGen
    BY <1>0, ModDef
<1>2. Gen(u) \in Nat /\ Gen(u) # 0
    BY <1>0, <1>1 DEF Gen
<1>3. Gen(u + 1) = IF Gen(u) = MaxGen THEN 1 ELSE Gen(u) + 1
    <2>1. ((u % MaxGen) + 1) % MaxGen = (u + 1) % MaxGen
        <3>1. PICK c \in Int : c = 1
            OBVIOUS
        <3>2. ((u % MaxGen) + c) % MaxGen = (u + c) % MaxGen
            BY <1>0, ModAddMod
        <3>. QED  BY <3>1, <3>2
    <2>2. (m + 1) % MaxGen = IF m = MaxGen - 1 THEN 0 ELSE m + 1
        BY <1>0, <1>1, ModSucc
    <2>3. (u + 1) % MaxGen = IF m = MaxGen - 1 THEN 0 ELSE m + 1
        BY <1>1, <2>1, <2>2
    <2>4. PICK n : n = (u + 1) % MaxGen
        OBVIOUS
    <2>5. Gen(u + 1) = n + 1 /\ Gen(u) = m + 1
        BY <1>1, <2>4 DEF Gen
    <2>6. n = IF m = MaxGen - 1 THEN 0 ELSE m + 1
        BY <2>3, <2>4
    <2>. QED  BY <1>0, <1>1, <2>5, <2>6
<1>4. ASSUME NEW v \in Nat, u < v, v - u < MaxGen PROVE Gen(u) # Gen(v)
    <2>1. u % MaxGen # v % MaxGen
        <3>1. v \in Int
            OBVIOUS
        <3>. QED  BY <1>0, <1>4, <3>1, ModNear
    <2>2. PICK n \in 0..(MaxGen - 1) : n = v % MaxGen
        BY <1>0, ModDef
    <2>3. Gen(u) = m + 1 /\ Gen(v) = n + 1 /\ m # n
        BY <1>1, <2>1, <2>2 DEF Gen
    <2>. QED  BY <1>0, <1>1, <2>2, <2>3
<1>. QED  BY <1>2, <1>3, <1>4

-----------------------------------------------------------------------------
(***************************************************************************)
(* The inductive invariant of the pools                                    *)
(***************************************************************************)

Handle == [index : Index, generation : Nat]

Typed ==
    /\ kind \in {"objpool", "handle"} /\ storage \in Nat
    /\ free_stack \in Seq(Index) /\ used_bits \in SUBSET Index
    /\ generations \in [Index -> Nat] /\ uses \in [Index -> Nat]
    /\ live_count \in Nat /\ objects \in SUBSET Index

\* A pool that is not open has nothing.
Shut ==
    ~Open => /\ used_bits = {} /\ live_count = 0 /\ held = {} /\ stale = {}
             /\ objects = {} /\ uses = [i \in Index |-> 0]

\* free_stack_ and the count, and every object is in a slot that is not free.
Stack ==
    /\ IsFiniteSet(held) /\ Cardinality(held) = live_count
    /\ Open => /\ Distinct(free_stack) /\ Len(free_stack) + live_count = Capacity
               /\ \A i \in objects : ~On(free_stack, i)

\* ObjPool: the bits that are set are the slots that clients have.
Bits ==
    kind = "objpool" =>
        /\ stale = {} /\ Cardinality(used_bits) = live_count
        /\ held = {elem_at(i) : i \in used_bits}
        /\ Open => \A i \in Index : i \in used_bits <=> ~On(free_stack, i)

\* HandlePool: the generation of a slot counts its releases, a handle that is out
\* has the present one, and a stale one has that of an earlier release.
Generations ==
    kind = "handle" =>
        /\ used_bits = {}
        /\ \A i \in Index : generations[i] = Gen(uses[i]) \/ (generations[i] = 0 /\ uses[i] = 0)
        /\ \A h \in held : /\ h \in Handle /\ h.generation = generations[h.index]
                           /\ h.generation = Gen(uses[h.index])
        /\ \A s \in stale :
               /\ s \in [handle : Handle, at : Nat] /\ s.handle.generation = Gen(s.at)
               /\ s.at < uses[s.handle.index]
        /\ Open => \A i \in Index : (\E h \in held : h.index = i) <=> ~On(free_stack, i)

\* What happened so far.
Accounts ==
    /\ "stray" \in history <=> "copy_failed" \in history
    /\ "leaked" \in history => kind = "handle"

PoolInv == Typed /\ Shut /\ Stack /\ Bits /\ Generations /\ Accounts

\* A pool that was never opened.
LEMMA PoolInitially == Init => PoolInv
<1>. SUFFICES ASSUME Init PROVE PoolInv
    OBVIOUS
<1>1. kind \in {"objpool", "handle"} /\ 0 \in Nat /\ NULL \in Nat
    BY PoolsAssumption DEF Init, NULL
<1>2. Typed
    BY <1>1 DEF Init, Typed
<1>3. IsFiniteSet({}) /\ Cardinality({}) = 0
    BY FS_EmptySet
<1>4. Shut /\ Stack /\ Bits /\ Accounts
    BY <1>3 DEF Init, Shut, Stack, Bits, Accounts, Open
<1>5. Generations
    BY DEF Init, Generations, Open
<1>. QED  BY <1>2, <1>4, <1>5 DEF PoolInv

\* Only MaxGen releases later does a slot have the generation of a stale handle.
LEMMA StaleGeneration ==
    ASSUME PoolInv, kind = "handle", NEW s \in stale, valid(s.handle)
    PROVE  reuse(s) >= MaxGen
<1>1. PICK i \in Index : i = s.handle.index
    BY DEF PoolInv, Generations, Handle
<1>2. PICK at \in Nat, u \in Nat : at = s.at /\ u = uses[i]
    BY <1>1 DEF PoolInv, Generations, Typed
<1>3. at < u
    BY <1>1, <1>2 DEF PoolInv, Generations
<1>4. generations[i] = Gen(at)
    BY <1>1, <1>2 DEF PoolInv, Generations, valid
<1>5. generations[i] = Gen(u)
    BY <1>2, <1>4, GenFacts DEF PoolInv, Generations
<1>6. ~(u - at < MaxGen)
    BY <1>3, <1>4, <1>5, GenFacts
<1>7. reuse(s) = u - at
    BY <1>1, <1>2 DEF reuse
<1>. QED  BY <1>2, <1>6, <1>7, PoolsAssumption

\* So a release that is not refused is of a handle that is out.
LEMMA ReleasedIsHeld ==
    ASSUME PoolInv, kind = "handle", NEW h \in Known, valid(h)
    PROVE  h \in held
<1>1. SUFFICES ASSUME NEW s \in stale, reuse(s) < MaxGen, h = s.handle PROVE FALSE
    BY DEF Known
<1>2. reuse(s) >= MaxGen
    BY <1>1, StaleGeneration
<1>3. reuse(s) \in Int
    <2>1. s.at \in Nat /\ uses[s.handle.index] \in Nat
        BY DEF PoolInv, Generations, Typed, Handle
    <2>. QED  BY <2>1 DEF reuse
<1>. QED  BY <1>1, <1>2, <1>3, PoolsAssumption

-----------------------------------------------------------------------------
(***************************************************************************)
(* One lemma per operation                                                 *)
(***************************************************************************)

\* init_from_arena opens a pool with every slot free, or leaves it as it was.
LEMMA InitFromArenaKeeps == ASSUME ArenaInv, PoolInv, InitFromArena PROVE PoolInv'
<1>1. PICK done : done = taken(wanted_blocks)
    OBVIOUS
<1>2. /\ Progress(arena, done)
      /\ done.ok = TRUE => done.first # NULL
    BY <1>1, TakenFacts DEF InitFromArena
<1>3. done.ok \in BOOLEAN /\ done.first \in Nat
    BY <1>2 DEF Progress
<1>4. CASE done.ok = FALSE
    <2>1. UNCHANGED <<poolVars, history>>
        BY <1>1, <1>4 DEF InitFromArena, wanted_blocks, poolVars
    <2>. QED  BY <2>1 DEF poolVars, PoolInv, Typed, Shut, Stack, Bits, Generations, Accounts,
                          Open, elem_at
<1>5. CASE done.ok = TRUE
    <2>1. /\ storage' = done.first /\ free_stack' = reset_free_list /\ used_bits' = {}
          /\ generations' = [i \in Index |-> 0] /\ live_count' = 0
          /\ UNCHANGED <<kind, held, stale, uses, objects, history>>
        BY <1>1, <1>5 DEF InitFromArena, wanted_blocks
    <2>2. held = {} /\ stale = {} /\ objects = {} /\ uses = [i \in Index |-> 0]
        BY DEF InitFromArena, PoolInv, Shut
    <2>3. /\ free_stack' \in Seq(Index) /\ Len(free_stack') = Capacity
          /\ Distinct(free_stack') /\ \A i \in Index : On(free_stack', i)
        BY <2>1, ResetFacts
    <2>4. IsFiniteSet({}) /\ Cardinality({}) = 0
        BY FS_EmptySet
    <2>5. Typed'
        BY <1>3, <2>1, <2>2, <2>3 DEF PoolInv, Typed
    <2>6. Shut'
        BY <1>2, <1>5, <2>1 DEF Shut, Open
    <2>7. Stack'
        BY <2>1, <2>2, <2>3, <2>4, PoolsAssumption DEF Stack
    <2>8. Bits'
        BY <2>1, <2>2, <2>3, <2>4 DEF Bits
    <2>9. Generations'
        BY <2>1, <2>2, <2>3 DEF Generations
    <2>10. Accounts'
        BY <2>1 DEF PoolInv, Accounts
    <2>. QED  BY <2>5, <2>6, <2>7, <2>8, <2>9, <2>10 DEF PoolInv
<1>. QED  BY <1>3, <1>4, <1>5

\* A client constructs an object only in a slot that it has.
LEMMA ConstructKeeps == ASSUME PoolInv, Construct PROVE PoolInv'
<1>1. PICK i \in Index :
          /\ \E h \in held : IF kind = "objpool" THEN h = elem_at(i) ELSE h.index = i
          /\ objects' = objects \cup {i}
    BY DEF Construct
<1>2. UNCHANGED <<kind, storage, free_stack, used_bits, generations, live_count, held, stale,
                  uses, history>>
    BY DEF Construct
<1>3. Open
    BY <1>1 DEF PoolInv, Shut
<1>4. ~On(free_stack, i)
    <2>1. CASE kind = "objpool"
        <3>1. PICK j \in used_bits : elem_at(j) = elem_at(i)
            BY <1>1, <2>1 DEF PoolInv, Bits
        <3>2. j = i
            BY <3>1, ElemInjective DEF PoolInv, Typed
        <3>. QED  BY <1>3, <2>1, <3>2 DEF PoolInv, Bits
    <2>2. CASE kind = "handle"
        BY <1>1, <1>3, <2>2 DEF PoolInv, Generations
    <2>. QED  BY <2>1, <2>2 DEF PoolInv, Typed
<1>5. Typed'
    BY <1>1, <1>2 DEF PoolInv, Typed
<1>6. Shut' /\ Stack'
    BY <1>1, <1>2, <1>3, <1>4 DEF PoolInv, Shut, Stack, Open
<1>7. Bits'
    BY <1>2 DEF PoolInv, Bits, Open, elem_at
<1>8. Generations' /\ Accounts'
    BY <1>2 DEF PoolInv, Generations, Accounts, Open
<1>. QED  BY <1>5, <1>6, <1>7, <1>8 DEF PoolInv

\* When clients constructed an object in every slot they have, the objects are the
\* slots whose bit is set.
LEMMA BitsAreObjects ==
    ASSUME PoolInv, Open, kind = "objpool", AllConstructed
    PROVE  objects = used_bits
<1>1. objects \in SUBSET used_bits
    BY DEF PoolInv, Typed, Stack, Bits
<1>2. IsFiniteSet(used_bits)
    <2>1. Capacity - 1 \in Int /\ 0 \in Int
        BY PoolsAssumption
    <2>2. IsFiniteSet(Index)
        BY <2>1, FS_Interval DEF Index
    <2>. QED  BY <2>2, FS_Subset DEF PoolInv, Typed
<1>3. Cardinality(used_bits) = Cardinality(objects)
    BY DEF PoolInv, Stack, Bits, AllConstructed
<1>. QED  BY <1>1, <1>2, <1>3, FS_Subset

\* clear destroys each object once and frees every slot.
LEMMA ClearKeeps == ASSUME PoolInv, Clear PROVE PoolInv'
<1>1. /\ Open /\ kind = "objpool" /\ Destroyed(used_bits)
      /\ used_bits' = {} /\ live_count' = 0 /\ held' = {}
      /\ free_stack' = IF live_count = 0 THEN free_stack ELSE reset_free_list
      /\ UNCHANGED <<kind, storage, generations, stale, uses>>
    BY DEF Clear
<1>2. objects = used_bits
    BY <1>1, BitsAreObjects DEF Clear
<1>3. objects' = {} /\ history' = history
    BY <1>1, <1>2 DEF Destroyed
<1>4. IsFiniteSet({}) /\ Cardinality({}) = 0
    BY FS_EmptySet
<1>5. /\ free_stack' \in Seq(Index) /\ Len(free_stack') = Capacity
      /\ Distinct(free_stack') /\ \A i \in Index : On(free_stack', i)
    <2>1. CASE live_count = 0
        <3>1. used_bits = {}
            <4>1. IsFiniteSet(held) /\ Cardinality(held) = 0
                BY <2>1 DEF PoolInv, Stack
            <4>2. held = {}
                BY <4>1, FS_EmptySet
            <4>. QED  BY <1>1, <4>2 DEF PoolInv, Bits
        <3>2. \A i \in Index : On(free_stack, i)
            BY <1>1, <3>1 DEF PoolInv, Bits
        <3>3. Distinct(free_stack) /\ Len(free_stack) = Capacity /\ free_stack \in Seq(Index)
            BY <1>1, <2>1, PoolsAssumption DEF PoolInv, Stack, Typed
        <3>. QED  BY <1>1, <2>1, <3>2, <3>3
    <2>2. CASE live_count # 0
        BY <1>1, <2>2, ResetFacts
    <2>. QED  BY <2>1, <2>2
<1>6. Typed'
    BY <1>1, <1>3, <1>5 DEF PoolInv, Typed
<1>7. Shut' /\ Accounts' /\ Generations'
    BY <1>1, <1>3 DEF PoolInv, Shut, Accounts, Generations, Open
<1>8. Stack' /\ Bits'
    BY <1>1, <1>3, <1>4, <1>5, PoolsAssumption DEF PoolInv, Stack, Bits
<1>. QED  BY <1>6, <1>7, <1>8 DEF PoolInv

\* ~ObjPool destroys each object, ~HandlePool none.
LEMMA CloseKeeps == ASSUME PoolInv, Close PROVE PoolInv'
<1>1. kind = "objpool" => used_bits \subseteq objects
    BY BitsAreObjects DEF Close
<1>2. Accounts'
    BY <1>1 DEF Close, PoolInv, Accounts
<1>3. IsFiniteSet({}) /\ Cardinality({}) = 0 /\ NULL \in Nat
    BY FS_EmptySet DEF NULL
<1>4. Typed'
    BY <1>3 DEF Close, PoolInv, Typed
<1>5. Shut' /\ Stack' /\ Bits' /\ Generations'
    BY <1>3 DEF Close, Shut, Stack, Bits, Generations, Open
<1>. QED  BY <1>2, <1>4, <1>5 DEF PoolInv

\* alloc and alloc_copy take a slot that no client has.
LEMMA AllocKeeps ==
    ASSUME PoolInv, Open, kind = "objpool", Taken,
           used_bits' = used_bits \cup {taken_slot}, held' = held \cup {elem_at(taken_slot)},
           objects' = objects \/ objects' = objects \cup {taken_slot},
           UNCHANGED <<kind, storage, generations, stale, uses, history>>
    PROVE  PoolInv'
<1>1. PICK s \in Seq(Index) : s = free_stack
    BY DEF PoolInv, Typed
<1>2. PICK top, t : top = taken_slot /\ t = SubSeq(s, 1, Len(s) - 1)
    OBVIOUS
<1>3. Distinct(s) /\ s # <<>> /\ top = s[Len(s)]
    BY <1>1, <1>2 DEF PoolInv, Stack, Taken, taken_slot
<1>4. /\ t \in Seq(Index) /\ Len(t) = Len(s) - 1 /\ Distinct(t)
      /\ top \in Index /\ On(s, top)
      /\ \A i : On(t, i) <=> On(s, i) /\ i # top
    <2>1. Popped(s, t, top)
        BY <1>2, <1>3, PopFacts
    <2>. QED  BY <2>1 DEF Popped
<1>5. free_stack' = t /\ live_count' = live_count + 1
    BY <1>1, <1>2 DEF Taken
<1>6. top \notin used_bits
    BY <1>1, <1>4 DEF PoolInv, Bits
<1>7. elem_at(top) \notin held
    <2>1. SUFFICES ASSUME NEW j \in used_bits, elem_at(top) = elem_at(j) PROVE FALSE
        BY DEF PoolInv, Bits
    <2>2. j \in Index /\ storage \in Nat
        BY DEF PoolInv, Typed
    <2>3. top = j
        BY <1>4, <2>1, <2>2, ElemInjective
    <2>. QED  BY <1>6, <2>3
<1>8. IsFiniteSet(held') /\ Cardinality(held') = live_count'
    BY <1>2, <1>5, <1>7, FS_AddElement DEF PoolInv, Stack
<1>9. Cardinality(used_bits') = live_count'
    <2>1. Capacity - 1 \in Int /\ 0 \in Int
        BY PoolsAssumption
    <2>2. IsFiniteSet(Index)
        BY <2>1, FS_Interval DEF Index
    <2>3. IsFiniteSet(used_bits)
        BY <2>2, FS_Subset DEF PoolInv, Typed
    <2>. QED  BY <1>2, <1>5, <1>6, <2>3, FS_AddElement DEF PoolInv, Bits
<1>10. Typed'
    <2>1. live_count' \in Nat
        BY <1>5 DEF PoolInv, Typed
    <2>2. used_bits' \in SUBSET Index /\ objects' \in SUBSET Index
        BY <1>2, <1>4 DEF PoolInv, Typed
    <2>. QED  BY <1>4, <1>5, <2>1, <2>2 DEF PoolInv, Typed
<1>11. Shut' /\ Accounts' /\ Generations'
    BY DEF PoolInv, Shut, Accounts, Generations, Open
<1>12. Stack'
    <2>1. Len(free_stack') + live_count' = Capacity
        <3>1. Len(s) + live_count = Capacity /\ live_count \in Nat /\ Len(s) \in Nat
            BY <1>1 DEF PoolInv, Stack, Typed
        <3>. QED  BY <1>4, <1>5, <3>1
    <2>2. \A i \in objects' : ~On(free_stack', i)
        BY <1>1, <1>2, <1>4, <1>5 DEF PoolInv, Stack
    <2>. QED  BY <1>4, <1>5, <1>8, <2>1, <2>2 DEF Stack
<1>13. Bits'
    <2>1. held' = {elem_at(i) : i \in used_bits'}
        BY DEF PoolInv, Bits
    <2>2. \A i : elem_at(i)' = elem_at(i)
        BY DEF elem_at
    <2>3. \A i \in Index : i \in used_bits' <=> ~On(free_stack', i)
        BY <1>1, <1>2, <1>4, <1>5 DEF PoolInv, Bits
    <2>4. stale' = {}
        BY DEF PoolInv, Bits
    <2>. QED  BY <1>9, <2>1, <2>2, <2>3, <2>4 DEF Bits, elem_at
<1>. QED  BY <1>10, <1>11, <1>12, <1>13 DEF PoolInv

\* free gives back a slot whose bit is set: one that is not on the stack.
LEMMA FreeKeeps ==
    ASSUME PoolInv, NEW addr \in Address, Free(addr)
    PROVE  PoolInv'
<1>1. /\ Open /\ kind = "objpool" /\ live_count' = live_count - 1 /\ held' = held \ {addr}
      /\ UNCHANGED <<kind, storage, generations, stale, uses>>
    BY DEF Free
<1>2. PICK i \in index(addr) \cap used_bits :
          /\ i \in objects /\ objects' = objects \ {i} /\ history' = history
          /\ used_bits' = used_bits \ {i} /\ free_stack' = Append(free_stack, i)
    BY DEF Free, Destroyed
<1>3. i \in Index /\ addr = elem_at(i) /\ storage \in Nat
    BY <1>2, IndexFacts DEF PoolInv, Typed
<1>0. PICK s \in Seq(Index) : s = free_stack
    BY DEF PoolInv, Typed
<1>4. PICK t : s = free_stack /\ t = Append(s, i)
    BY <1>0
<1>5. Distinct(s) /\ ~On(s, i)
    BY <1>1, <1>2, <1>3, <1>4 DEF PoolInv, Stack, Bits
<1>6. /\ t \in Seq(Index) /\ Len(t) = Len(s) + 1 /\ Distinct(t)
      /\ \A j : On(t, j) <=> On(s, j) \/ j = i
    BY <1>3, <1>4, <1>5, PushFacts
<1>7. free_stack' = t
    BY <1>2, <1>4
<1>8. IsFiniteSet(held') /\ Cardinality(held') = live_count'
    <2>1. addr \in held
        BY <1>1, <1>2, <1>3 DEF PoolInv, Bits
    <2>. QED  BY <1>1, <2>1, FS_RemoveElement DEF PoolInv, Stack
<1>9. live_count' \in Nat
    BY <1>8, FS_CardinalityType
<1>10. Cardinality(used_bits') = live_count'
    <2>1. Capacity - 1 \in Int /\ 0 \in Int
        BY PoolsAssumption
    <2>2. IsFiniteSet(Index)
        BY <2>1, FS_Interval DEF Index
    <2>3. IsFiniteSet(used_bits)
        BY <2>2, FS_Subset DEF PoolInv, Typed
    <2>. QED  BY <1>1, <1>2, <2>3, FS_RemoveElement DEF PoolInv, Bits
<1>11. Typed'
    BY <1>1, <1>2, <1>6, <1>7, <1>9 DEF PoolInv, Typed
<1>12. Shut' /\ Accounts' /\ Generations'
    BY <1>1, <1>2 DEF PoolInv, Shut, Accounts, Generations, Open
<1>13. Stack'
    <2>1. Len(free_stack') + live_count' = Capacity
        <3>1. Len(s) + live_count = Capacity /\ live_count \in Nat /\ Len(s) \in Nat
            BY <1>1, <1>4 DEF PoolInv, Stack, Typed
        <3>. QED  BY <1>1, <1>6, <1>7, <3>1
    <2>2. \A j \in objects' : ~On(free_stack', j)
        BY <1>1, <1>2, <1>4, <1>6, <1>7 DEF PoolInv, Stack
    <2>. QED  BY <1>6, <1>7, <1>8, <2>1, <2>2 DEF Stack
<1>14. Bits'
    <2>1. held' = {elem_at(j) : j \in used_bits'}
        <3>1. \A j \in used_bits : j # i => elem_at(j) # elem_at(i)
            BY <1>3, ElemInjective DEF PoolInv, Typed
        <3>2. held = {elem_at(j) : j \in used_bits}
            BY <1>1 DEF PoolInv, Bits
        <3>. QED  BY <1>1, <1>2, <1>3, <3>1, <3>2
    <2>2. \A j : elem_at(j)' = elem_at(j)
        BY <1>1 DEF elem_at
    <2>3. \A j \in Index : j \in used_bits' <=> ~On(free_stack', j)
        BY <1>1, <1>2, <1>4, <1>6, <1>7 DEF PoolInv, Bits
    <2>4. stale' = {}
        BY <1>1 DEF PoolInv, Bits
    <2>. QED  BY <1>10, <2>1, <2>2, <2>3, <2>4 DEF Bits, elem_at
<1>. QED  BY <1>11, <1>12, <1>13, <1>14 DEF PoolInv

\* acquire takes a slot that no handle is out for.
LEMMA AcquireKeeps == ASSUME PoolInv, Acquire PROVE PoolInv'
<1>1. PICK s \in Seq(Index) : s = free_stack
    BY DEF PoolInv, Typed
<1>2. PICK top, t : top = taken_slot /\ t = SubSeq(s, 1, Len(s) - 1)
    OBVIOUS
<1>3. PICK g : g = IF generations[top] = 0 THEN 1 ELSE generations[top]
    OBVIOUS
<1>4. PICK h : h = make_handle(top, g)
    OBVIOUS
<1>5. /\ Open /\ kind = "handle" /\ s # <<>> /\ free_stack' = t
      /\ live_count' = live_count + 1
      /\ generations' = [generations EXCEPT ![top] = g] /\ held' = held \cup {h}
      /\ UNCHANGED <<kind, storage, used_bits, stale, uses, objects, history>>
    BY <1>1, <1>2, <1>3, <1>4 DEF Acquire, Taken
<1>6. Distinct(s) /\ top = s[Len(s)]
    BY <1>1, <1>2, <1>5 DEF PoolInv, Stack, taken_slot
<1>7. /\ t \in Seq(Index) /\ Len(t) = Len(s) - 1 /\ Distinct(t)
      /\ top \in Index /\ On(s, top)
      /\ \A i : On(t, i) <=> On(s, i) /\ i # top
    <2>1. Popped(s, t, top)
        BY <1>2, <1>5, <1>6, PopFacts
    <2>. QED  BY <2>1 DEF Popped
<1>8. g = Gen(uses[top]) /\ g \in Nat
    <2>1. PICK u \in Nat : u = uses[top]
        BY <1>7 DEF PoolInv, Typed
    <2>2. Gen(u) \in Nat /\ Gen(u) # 0
        BY <2>1, GenFacts
    <2>3. generations[top] = Gen(u) \/ (generations[top] = 0 /\ u = 0)
        BY <1>5, <1>7, <2>1 DEF PoolInv, Generations
    <2>4. Gen(0) = 1
        <3>1. MaxGen \in Nat \ {0}
            BY PoolsAssumption
        <3>2. 0 \in 0..(MaxGen - 1)
            BY <3>1
        <3>3. ((MaxGen * 0) + 0) % MaxGen = 0
            BY <3>1, <3>2, ModUnique
        <3>4. 0 % MaxGen = 0
            BY <3>1, <3>3
        <3>. QED  BY <3>4 DEF Gen
    <2>. QED  BY <1>3, <2>1, <2>2, <2>3, <2>4
<1>9. \A k \in held : k.index # top
    BY <1>1, <1>5, <1>7 DEF PoolInv, Generations
<1>10. h \in Handle /\ h.index = top /\ h.generation = g /\ h \notin held
    BY <1>4, <1>7, <1>8, <1>9 DEF make_handle, Handle
<1>11. IsFiniteSet(held') /\ Cardinality(held') = live_count'
    BY <1>5, <1>10, FS_AddElement DEF PoolInv, Stack
<1>12. Typed'
    <2>1. live_count' \in Nat
        BY <1>5 DEF PoolInv, Typed
    <2>2. generations' \in [Index -> Nat]
        BY <1>5, <1>8 DEF PoolInv, Typed
    <2>. QED  BY <1>5, <1>7, <2>1, <2>2 DEF PoolInv, Typed
<1>13. Shut' /\ Accounts' /\ Bits'
    BY <1>5 DEF PoolInv, Shut, Accounts, Bits, Open
<1>14. Stack'
    <2>1. Len(free_stack') + live_count' = Capacity
        <3>1. Len(s) + live_count = Capacity /\ live_count \in Nat /\ Len(s) \in Nat
            BY <1>1, <1>5 DEF PoolInv, Stack, Typed
        <3>. QED  BY <1>5, <1>7, <3>1
    <2>2. \A i \in objects' : ~On(free_stack', i)
        BY <1>1, <1>5, <1>7 DEF PoolInv, Stack
    <2>. QED  BY <1>5, <1>7, <1>11, <2>1, <2>2 DEF Stack
<1>15. Generations'
    <2>1. \A i \in Index : /\ i # top => generations'[i] = generations[i]
                           /\ i = top => generations'[i] = g
        BY <1>5 DEF PoolInv, Typed
    <2>2. \A i \in Index : generations'[i] = Gen(uses[i]) \/ (generations'[i] = 0 /\ uses[i] = 0)
        BY <1>5, <1>8, <2>1 DEF PoolInv, Generations
    <2>3. ASSUME NEW k \in held'
          PROVE  /\ k \in Handle /\ k.generation = generations'[k.index]
                 /\ k.generation = Gen(uses[k.index])
        <3>1. CASE k = h
            BY <1>7, <1>8, <1>10, <2>1, <3>1
        <3>2. CASE k \in held
            <4>1. k \in Handle /\ k.generation = generations[k.index] /\ k.index # top
                  /\ k.generation = Gen(uses[k.index])
                BY <1>5, <1>9, <3>2 DEF PoolInv, Generations
            <4>2. k.index \in Index
                BY <4>1 DEF Handle
            <4>. QED  BY <2>1, <4>1, <4>2
        <3>. QED  BY <1>5, <3>1, <3>2
    <2>4. \A i \in Index : (\E k \in held' : k.index = i) <=> ~On(free_stack', i)
        BY <1>1, <1>5, <1>7, <1>10 DEF PoolInv, Generations
    <2>5. used_bits' = {}
        BY <1>5 DEF PoolInv, Generations
    <2>6. \A x \in stale : /\ x \in [handle : Handle, at : Nat]
                           /\ x.handle.generation = Gen(x.at)
                           /\ x.at < uses[x.handle.index]
        BY <1>5 DEF PoolInv, Generations
    <2>. QED  BY <1>5, <2>2, <2>3, <2>4, <2>5, <2>6 DEF Generations
<1>. QED  BY <1>12, <1>13, <1>14, <1>15 DEF PoolInv

\* release gives back the slot of a handle that is out.
LEMMA ReleaseKeeps ==
    ASSUME PoolInv, NEW h \in Known, Release(h)
    PROVE  PoolInv'
<1>1. /\ Open /\ kind = "handle" /\ valid(h) /\ h \in held /\ h.index \in objects
      /\ live_count' = live_count - 1 /\ held' = held \ {h}
      /\ stale' = stale \cup {[handle |-> h, at |-> uses[h.index]]}
      /\ uses' = [uses EXCEPT ![h.index] = @ + 1]
      /\ generations' = bump_generation(h.index)
      /\ free_stack' = Append(free_stack, h.index)
      /\ UNCHANGED <<kind, storage, used_bits>>
    BY ReleasedIsHeld DEF Release
<1>2. PICK i \in Index, u \in Nat : i = h.index /\ u = uses[i]
    BY <1>1 DEF PoolInv, Typed
<1>3. objects' = objects \ {i} /\ history' = history
    BY <1>1, <1>2 DEF Release, Destroyed
<1>4. h \in Handle /\ h.generation = generations[i] /\ generations[i] = Gen(u)
    BY <1>1, <1>2 DEF PoolInv, Generations
<1>5. uses' = [uses EXCEPT ![i] = u + 1] /\ generations' = [generations EXCEPT ![i] = Gen(u + 1)]
    <2>1. uses' = [uses EXCEPT ![i] = u + 1]
        BY <1>1, <1>2
    <2>2. generations' = [generations EXCEPT ![i] =
                              IF generations[i] = MaxGen THEN 1 ELSE generations[i] + 1]
        BY <1>1, <1>2 DEF bump_generation
    <2>3. Gen(u + 1) = IF Gen(u) = MaxGen THEN 1 ELSE Gen(u) + 1
        BY GenFacts
    <2>. QED  BY <1>4, <2>1, <2>2, <2>3
<1>0. PICK s \in Seq(Index) : s = free_stack
    BY DEF PoolInv, Typed
<1>6. PICK t : s = free_stack /\ t = Append(s, i)
    BY <1>0
<1>7. Distinct(s) /\ ~On(s, i)
    BY <1>1, <1>2, <1>6 DEF PoolInv, Stack
<1>8. /\ t \in Seq(Index) /\ Len(t) = Len(s) + 1 /\ Distinct(t)
      /\ \A j : On(t, j) <=> On(s, j) \/ j = i
    BY <1>6, <1>7, PushFacts
<1>9. free_stack' = t
    BY <1>1, <1>2, <1>6
<1>10. IsFiniteSet(held') /\ Cardinality(held') = live_count'
    BY <1>1, FS_RemoveElement DEF PoolInv, Stack
<1>11. live_count' \in Nat
    BY <1>10, FS_CardinalityType
<1>12. PICK n \in Nat, g \in Nat : n = u + 1 /\ g = Gen(n)
    <2>1. u + 1 \in Nat
        OBVIOUS
    <2>. QED  BY <2>1, GenFacts
<1>13. /\ uses' = [uses EXCEPT ![i] = n] /\ generations' = [generations EXCEPT ![i] = g]
       /\ uses \in [Index -> Nat] /\ generations \in [Index -> Nat]
    BY <1>5, <1>12 DEF PoolInv, Typed
<1>14. Typed'
    <2>1. uses' \in [Index -> Nat] /\ generations' \in [Index -> Nat]
        BY <1>13
    <2>. QED  BY <1>1, <1>3, <1>8, <1>9, <1>11, <2>1 DEF PoolInv, Typed
<1>15. Shut' /\ Accounts' /\ Bits'
    BY <1>1, <1>3 DEF PoolInv, Shut, Accounts, Bits, Open
<1>16. Stack'
    <2>1. Len(free_stack') + live_count' = Capacity
        <3>1. Len(s) + live_count = Capacity /\ live_count \in Nat /\ Len(s) \in Nat
            BY <1>1, <1>6 DEF PoolInv, Stack, Typed
        <3>. QED  BY <1>1, <1>8, <1>9, <3>1
    <2>2. \A j \in objects' : ~On(free_stack', j)
        BY <1>1, <1>3, <1>6, <1>8, <1>9 DEF PoolInv, Stack
    <2>. QED  BY <1>8, <1>9, <1>10, <2>1, <2>2 DEF Stack
<1>17. Generations'
    <2>1. \A j \in Index : /\ j # i => generations'[j] = generations[j] /\ uses'[j] = uses[j]
                           /\ j = i => generations'[j] = g /\ uses'[j] = n
        BY <1>13
    <2>2. \A j \in Index : generations'[j] = Gen(uses'[j])
                           \/ (generations'[j] = 0 /\ uses'[j] = 0)
        BY <1>1, <1>12, <2>1 DEF PoolInv, Generations
    <2>3. \A k \in held' : k \in held /\ k \in Handle /\ k.index \in Index /\ k.index # i
        <3>1. ASSUME NEW k \in held'
              PROVE  k \in held /\ k \in Handle /\ k.index \in Index /\ k.index # i
            <4>1. k \in held /\ k # h
                BY <1>1
            <4>2. k \in Handle /\ k.generation = generations[k.index]
                BY <1>1, <4>1 DEF PoolInv, Generations
            <4>3. k.index = h.index /\ k.generation = h.generation => k = h
                BY <1>4, <4>2 DEF Handle
            <4>. QED  BY <1>2, <1>4, <4>1, <4>2, <4>3 DEF Handle
        <3>. QED  BY <3>1
    <2>4. ASSUME NEW k \in held'
          PROVE  /\ k \in Handle /\ k.generation = generations'[k.index]
                 /\ k.generation = Gen(uses'[k.index])
        BY <1>1, <2>1, <2>3 DEF PoolInv, Generations
    <2>5. ASSUME NEW x \in stale'
          PROVE  /\ x \in [handle : Handle, at : Nat] /\ x.handle.generation = Gen(x.at)
                 /\ x.at < uses'[x.handle.index]
        <3>1. CASE x \in stale
            <4>1. /\ x \in [handle : Handle, at : Nat] /\ x.handle.generation = Gen(x.at)
                  /\ x.at < uses[x.handle.index]
                BY <1>1, <3>1 DEF PoolInv, Generations
            <4>2. x.handle.index \in Index /\ x.at \in Nat
                BY <4>1 DEF Handle
            <4>. QED  BY <1>2, <1>12, <2>1, <4>1, <4>2
        <3>2. CASE x = [handle |-> h, at |-> u]
            BY <1>2, <1>4, <1>12, <2>1, <3>2
        <3>. QED  BY <1>1, <1>2, <3>1, <3>2
    <2>6. \A j \in Index : (\E k \in held' : k.index = j) <=> ~On(free_stack', j)
        <3>1. ASSUME NEW j \in Index, NEW k \in held', k.index = j PROVE ~On(free_stack', j)
            BY <1>1, <1>6, <1>8, <1>9, <2>3, <3>1 DEF PoolInv, Generations
        <3>2. ASSUME NEW j \in Index, ~On(free_stack', j) PROVE \E k \in held' : k.index = j
            <4>1. ~On(s, j) /\ j # i
                BY <1>8, <1>9, <3>2
            <4>2. PICK k \in held : k.index = j
                BY <1>1, <1>6, <4>1 DEF PoolInv, Generations
            <4>. QED  BY <1>1, <1>2, <4>1, <4>2
        <3>. QED  BY <3>1, <3>2
    <2>7. used_bits' = {}
        BY <1>1 DEF PoolInv, Generations
    <2>. QED  BY <2>2, <2>4, <2>5, <2>6, <2>7 DEF Generations
<1>. QED  BY <1>14, <1>15, <1>16, <1>17 DEF PoolInv
-----------------------------------------------------------------------------
(***************************************************************************)
(* The theorems                                                            *)
(***************************************************************************)

\* Every step keeps the pool in order.
LEMMA PoolStep == ASSUME ArenaInv, PoolInv, [Next]_vars PROVE PoolInv'
<1>1. CASE UNCHANGED <<poolVars, history>> \/ UNCHANGED vars
    BY <1>1 DEF vars, poolVars, PoolInv, Typed, Shut, Stack, Bits, Generations, Accounts,
                Open, elem_at
<1>2. CASE ArenaInit \/ ArenaReset \/ \E q \in Requests : ArenaAlloc(q)
    <2>1. UNCHANGED <<poolVars, history>>
        BY <1>2 DEF ArenaInit, ArenaReset, ArenaAlloc
    <2>. QED  BY <1>1, <2>1
<1>3. CASE ArenaCreate \/ ArenaEnd
    <2>1. UNCHANGED poolVars
        BY <1>3 DEF ArenaCreate, ArenaEnd
    <2>2. history \subseteq history' /\ history' \subseteq history \cup {"oom", "wrong"}
        BY <1>3 DEF ArenaCreate, ArenaEnd
    <2>3. Accounts'
        BY <2>1, <2>2 DEF poolVars, PoolInv, Accounts
    <2>. QED  BY <2>1, <2>3 DEF poolVars, PoolInv, Typed, Shut, Stack, Bits, Generations,
                                Open, elem_at
<1>4. CASE InitFromArena \/ Construct \/ Clear \/ Close
    BY <1>4, InitFromArenaKeeps, ConstructKeeps, ClearKeeps, CloseKeeps
<1>5. CASE Alloc
    BY <1>5, AllocKeeps DEF Alloc
<1>6. CASE AllocCopy
    BY <1>6, AllocKeeps DEF AllocCopy
<1>7. CASE AllocCopyFails
    <2>1. UNCHANGED poolVars /\ history' = history \cup {"copy_failed", "stray"}
        BY <1>7 DEF AllocCopyFails
    <2>2. Accounts'
        BY <2>1 DEF poolVars, PoolInv, Accounts
    <2>. QED  BY <2>1, <2>2 DEF poolVars, PoolInv, Typed, Shut, Stack, Bits, Generations,
                                Open, elem_at
<1>8. CASE \E addr \in Address : Free(addr)
    BY <1>8, FreeKeeps
<1>9. CASE Acquire
    BY <1>9, AcquireKeeps
<1>10. CASE kind = "handle" /\ \E h \in Known : Release(h)
    BY <1>10, ReleaseKeeps
<1>. QED  BY <1>1, <1>2, <1>3, <1>4, <1>5, <1>6, <1>7, <1>8, <1>9, <1>10, Zenon DEF Next

\* The arena and the pool stay in order.
LEMMA PoolsInvariant == Spec => [](ArenaInv /\ PoolInv)
<1>1. ArenaInv /\ PoolInv /\ [Next]_vars => ArenaInv' /\ PoolInv'
    BY ArenaStep, PoolStep
<1>. QED  BY <1>1, ArenaInitially, PoolInitially, PTL DEF Spec

\* Which slots clients have: those that are not on the stack.
LEMMA HoldsFacts ==
    ASSUME PoolInv, Open, NEW i \in Index
    PROVE  /\ Holds(i) <=> ~On(free_stack, i)
           /\ kind = "objpool" => (Holds(i) <=> i \in used_bits)
<1>1. CASE kind = "objpool"
    <2>1. Holds(i) <=> i \in used_bits
        <3>1. ASSUME NEW j \in used_bits, elem_at(i) = elem_at(j) PROVE i = j
            BY <3>1, ElemInjective DEF PoolInv, Typed
        <3>. QED  BY <1>1, <3>1 DEF PoolInv, Bits, Holds
    <2>. QED  BY <1>1, <2>1 DEF PoolInv, Bits
<1>2. CASE kind = "handle"
    BY <1>2 DEF PoolInv, Generations, Holds
<1>. QED  BY <1>1, <1>2 DEF PoolInv, Typed

\* free_stack_, used_count_, the bits and the generations agree with what clients
\* have, whatever addresses are freed and whatever handles, stale ones too, are
\* released: no slot is handed out twice and free_stack_ never overflows.
THEOREM PoolsFreeStackSound == Spec => []FreeStackSound
<1>1. PoolInv => FreeStackSound
    <2>. SUFFICES ASSUME PoolInv, Open PROVE FreeStackSound
        BY DEF FreeStackSound
    <2>1. /\ \A j, k \in 1..Len(free_stack) : free_stack[j] = free_stack[k] => j = k
          /\ Cardinality(held) = live_count /\ Len(free_stack) + live_count = Capacity
        BY DEF PoolInv, Stack, Distinct
    <2>2. \A i \in Index : Holds(i) <=> \A k \in 1..Len(free_stack) : free_stack[k] # i
        BY HoldsFacts DEF On
    <2>3. kind = "objpool" => used_bits = {i \in Index : Holds(i)}
        BY HoldsFacts DEF PoolInv, Typed
    <2>4. kind = "handle" => \A h \in held : valid(h)
        BY DEF PoolInv, Generations, valid
    <2>. QED  BY <2>1, <2>2, <2>3, <2>4 DEF FreeStackSound
<1>. QED  BY <1>1, PoolsInvariant, PTL

\* get, valid and release of handle_pool_core refuse a released handle until the
\* generation of its slot has gone round: bump_generation skips only 0.
THEOREM PoolsStaleRefused == Spec => []StaleRefused
<1>1. PoolInv => StaleRefused
    BY StaleGeneration DEF StaleRefused
<1>. QED  BY <1>1, PoolsInvariant, PTL

\* Objects are only in slots that are out, destructors run on objects except after a
\* failed copy in alloc_copy, and only a HandlePool leaves objects behind.
THEOREM PoolsObjectsAccounted == Spec => []ObjectsAccounted
<1>1. PoolInv => ObjectsAccounted
    <2>. SUFFICES ASSUME PoolInv PROVE ObjectsAccounted
        OBVIOUS
    <2>1. ASSUME NEW i \in objects PROVE Holds(i)
        <3>1. Open /\ i \in Index /\ ~On(free_stack, i)
            BY DEF PoolInv, Shut, Stack, Typed
        <3>. QED  BY <3>1, HoldsFacts
    <2>. QED  BY <2>1 DEF PoolInv, Accounts, ObjectsAccounted
<1>. QED  BY <1>1, PoolsInvariant, PTL
=============================================================================
