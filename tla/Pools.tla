-------------------------------- MODULE Pools --------------------------------
(***************************************************************************)
(* The two pools of fixed slots in an arena: memkit::ObjPool and objpool_t *)
(* (include/memkit/detail/objpool_core.hpp), which hand out pointers, and  *)
(* memkit::HandlePool and handle_pool_t                                    *)
(* (include/memkit/detail/handle_pool_core.hpp), which hand out handles    *)
(* with a generation.  A pool takes its three blocks from the arena, in    *)
(* which others allocate too, and keeps its free slots on a stack.         *)
(*                                                                         *)
(* Clients may free any address and release any handle they remember.      *)
(* They construct an object in each slot they get before they give it back *)
(* and reset or end the arena only when no pool lives in it.  How the      *)
(* pools of the C API take their blocks from elsewhere is in Ownership.    *)
(***************************************************************************)
EXTENDS Arena, Sequences

CONSTANTS Kinds,      \* the pools of the run, of {"objpool", "handle"}
          Regions,    \* the memory an arena can get: records of base and bytes
          Requests,   \* the other allocations: records of count, size and alignment
          MaxOther,   \* bound: other allocations between two resets
          Capacity,   \* capacity_
          ElemBytes, StackBytes, GenBytes,  \* sizeof(T), sizeof(uint32_t), sizeof(uint16_t)
          MaxGen,     \* the largest generation, 0xFFFF in the code
          MaxUses     \* bound: releases of one slot while the pool is open

ASSUME PoolsAssumption ==
    /\ Kinds \subseteq {"objpool", "handle"} /\ Capacity \in Nat \ {0}
    /\ MaxGen \in Nat \ {0} /\ MaxUses \in Nat /\ MaxOther \in Nat
    /\ ElemBytes \in Nat \ {0} /\ StackBytes \in Nat \ {0} /\ GenBytes \in Nat \ {0}
    /\ \A r \in Regions : r.base \in Address \ {NULL} /\ r.bytes \in Address
                          /\ r.base + r.bytes <= Word
    /\ \A q \in Requests : q.count \in Address /\ q.size \in Address /\ q.alignment \in Address

VARIABLES arena,        \* arena_t
          memory,       \* what malloc and mmap returned to the arena, not given back
          blocks,       \* blocks the arena gave out since it was last reset
          kind,         \* which pool
          storage,      \* storage_, NULL while the pool is not open
          free_stack,   \* free_stack_[0 .. free_count_ - 1], the top last
          used_bits,    \* the slots whose bit is set (ObjPool)
          generations,  \* generations_ (HandlePool)
          live_count,   \* used_count_, live_count_
          held,         \* the pointers, or handles, that clients have
          stale,        \* handles released, with uses of their slot at that time
          uses,         \* releases of each slot since the pool was opened
          objects,      \* slots with a constructed object
          history       \* what happened: a copy failed, a destructor ran on no object,
                        \* an object was never destroyed, a wrong release

arenaVars == <<arena, memory, blocks>>
poolVars == <<kind, storage, free_stack, used_bits, generations, live_count,
              held, stale, uses, objects>>
vars == <<arenaVars, poolVars, history>>

Index == 0..(Capacity - 1)
Generation == 0..MaxGen
Open == storage # NULL
-----------------------------------------------------------------------------
(***************************************************************************)
(* The arena                                                               *)
(***************************************************************************)

\* Where the backing of an arena comes from: a buffer of the caller, or malloc or
\* mmap, called by arena_create_with_backing or by the caller, who hands it over.
backing_flags(from) ==
    CASE from = "buffer" -> {} [] from = "malloc" -> {"owns", "dynamic"} [] from = "mmap" -> {"owns", "mmap"}

\* arena_init with the flags that describe the backing.
ArenaInit ==
    /\ arena.base = NULL /\ memory = {}
    /\ \E r \in Regions, from \in {"buffer", "malloc", "mmap"} :
           /\ arena' = arena_init(r, backing_flags(from))
           /\ memory' = {<<"backing", from>>} \ {<<"backing", "buffer">>}
    /\ UNCHANGED <<blocks, poolVars, history>>

\* arena_create_impl: the object, then arena_acquire_backing; either may fail, and
\* then nothing is kept.
ArenaCreate ==
    /\ arena.base = NULL /\ memory = {}
    /\ \/ \E r \in Regions, from \in {"malloc", "mmap"} :
              /\ arena' = arena_init(r, backing_flags(from))
              /\ memory' = {<<"backing", from>>, <<"object", "malloc">>}
              /\ UNCHANGED history
       \/ history' = history \cup {"oom"} /\ UNCHANGED <<arena, memory>>
    /\ UNCHANGED <<blocks, poolVars>>

\* arena_release_backing: munmap, free or nothing, by the flags.
arena_release_backing(a) ==
    IF "owns" \notin a.flags THEN {}
    ELSE IF "mmap" \in a.flags THEN {<<"backing", "mmap">>}
    ELSE IF "dynamic" \in a.flags THEN {<<"backing", "malloc">>} ELSE {}

\* arena_deinit, or arena_destroy for an arena that arena_create returned.
ArenaEnd ==
    LET given_back == arena_release_backing(arena)
                      \cup (memory \cap {<<"object", "malloc">>}) IN
    /\ arena.base # NULL /\ ~Open
    /\ memory' = memory \ given_back
    /\ history' = history \cup (IF given_back \subseteq memory THEN {} ELSE {"wrong"})
    /\ arena' = zeroed /\ blocks' = {}
    /\ UNCHANGED poolVars

\* A client allocates, with arena_alloc (count 1) or arena_calloc.
ArenaAlloc(q) ==
    LET got == arena_calloc(arena, q.count, q.size, q.alignment) IN
    /\ arena.base # NULL
    /\ Cardinality({b \in blocks : b.owner = "other"}) < MaxOther
    /\ arena' = got.arena
    /\ blocks' = IF ~got.ok THEN blocks ELSE
           blocks \cup {[ptr |-> got.ptr, bytes |-> q.count * q.size,
                         alignment |-> q.alignment, owner |-> "other"]}
    /\ UNCHANGED <<memory, poolVars, history>>

ArenaReset ==
    /\ arena.base # NULL /\ ~Open
    /\ arena' = arena_reset(arena) /\ blocks' = {}
    /\ UNCHANGED <<memory, poolVars, history>>
-----------------------------------------------------------------------------
(***************************************************************************)
(* Opening and closing a pool                                              *)
(***************************************************************************)

\* storage_bytes, free_stack_bytes, used_bits_bytes and generations_bytes, in the
\* order in which the pools allocate them.
objpool_blocks ==
    <<[bytes |-> ElemBytes * Capacity, alignment |-> ElemBytes],
      [bytes |-> StackBytes * Capacity, alignment |-> StackBytes],
      [bytes |-> (Capacity + 7) \div 8, alignment |-> 1]>>

handle_blocks ==
    <<[bytes |-> ElemBytes * Capacity, alignment |-> ElemBytes],
      [bytes |-> GenBytes * Capacity, alignment |-> GenBytes],
      [bytes |-> StackBytes * Capacity, alignment |-> StackBytes]>>

\* One arena.allocate of init_from_arena, after those that made before.
next_block(before, wanted) ==
    LET got == arena_alloc(before.arena, wanted.bytes, wanted.alignment) IN
    IF ~before.ok \/ ~got.ok THEN [before EXCEPT !.ok = FALSE]
    ELSE [ok |-> TRUE, arena |-> got.arena,
          first |-> IF before.first = NULL THEN got.ptr ELSE before.first,
          blocks |-> before.blocks \cup
              {[ptr |-> got.ptr, bytes |-> wanted.bytes,
                alignment |-> wanted.alignment, owner |-> "pool"]}]

\* The three blocks of a pool, allocated one after the other.
taken(wanted) ==
    LET start == [ok |-> TRUE, arena |-> arena, first |-> NULL, blocks |-> blocks] IN
    next_block(next_block(next_block(start, wanted[1]), wanted[2]), wanted[3])

\* reset_free_list: slot 0 on top of the stack.
reset_free_list == [k \in 1..Capacity |-> Capacity - k]

\* init_from_arena.  A block that cannot be allocated ends it; the arena keeps
\* those before it.
InitFromArena ==
    LET done == taken(IF kind = "objpool" THEN objpool_blocks ELSE handle_blocks) IN
    /\ arena.base # NULL /\ ~Open
    /\ arena' = done.arena /\ blocks' = done.blocks
    /\ IF done.ok
       THEN /\ storage' = done.first
            /\ free_stack' = reset_free_list /\ used_bits' = {}
            /\ generations' = [i \in Index |-> 0]
            /\ live_count' = 0
       ELSE UNCHANGED <<storage, free_stack, used_bits, generations, live_count>>
    /\ UNCHANGED <<memory, kind, held, stale, uses, objects, history>>

\* elem_at and slot_ptr.
elem_at(i) == storage + i * ElemBytes

\* Clients construct an object in the slot they got.
Construct ==
    /\ \E i \in Index \ objects :
           /\ \E h \in held : IF kind = "objpool" THEN h = elem_at(i) ELSE h.index = i
           /\ objects' = objects \cup {i}
    /\ UNCHANGED <<arenaVars, kind, storage, free_stack, used_bits, generations,
                   live_count, held, stale, uses, history>>

\* A destructor or destroy_fn runs on the slots.
Destroyed(slots) ==
    /\ objects' = objects \ slots
    /\ history' = history \cup (IF slots \subseteq objects THEN {} ELSE {"stray"})

AllConstructed == Cardinality(objects) = Cardinality(held)

\* Mutant: clear resets the free list and destroys nothing.
Clear_NoDestroy ==
    /\ Open /\ kind = "objpool" /\ AllConstructed
    /\ used_bits' = {} /\ live_count' = 0 /\ held' = {}
    /\ free_stack' = IF live_count = 0 THEN free_stack ELSE reset_free_list
    /\ UNCHANGED <<arenaVars, kind, storage, generations, stale, uses, objects, history>>

\* clear of objpool_core, used_count_ = 0 included.
Clear ==
    /\ Open /\ kind = "objpool" /\ AllConstructed
    /\ Destroyed(used_bits)
    /\ used_bits' = {} /\ live_count' = 0 /\ held' = {}
    /\ free_stack' = IF live_count = 0 THEN free_stack ELSE reset_free_list
    /\ UNCHANGED <<arenaVars, kind, storage, generations, stale, uses>>

\* ~ObjPool clears the pool.  ~HandlePool only resets the core, so the objects
\* that are still there are never destroyed.
Close ==
    /\ Open /\ AllConstructed
    /\ storage' = NULL /\ free_stack' = <<>> /\ used_bits' = {} /\ live_count' = 0
    /\ generations' = [i \in Index |-> 0] /\ uses' = [i \in Index |-> 0]
    /\ held' = {} /\ stale' = {} /\ objects' = {}
    /\ history' = history
           \cup (IF kind = "handle" /\ objects # {} THEN {"leaked"} ELSE {})
           \cup (IF kind = "objpool" /\ ~(used_bits \subseteq objects) THEN {"stray"} ELSE {})
    /\ UNCHANGED <<arenaVars, kind>>
-----------------------------------------------------------------------------
(***************************************************************************)
(* ObjPool                                                                 *)
(***************************************************************************)

\* alloc: the slot on top of the stack.
taken_slot == free_stack[Len(free_stack)]

Taken ==
    /\ free_stack # <<>>
    /\ free_stack' = SubSeq(free_stack, 1, Len(free_stack) - 1)
    /\ live_count' = live_count + 1

Alloc ==
    /\ Open /\ kind = "objpool" /\ Taken
    /\ used_bits' = used_bits \cup {taken_slot} /\ held' = held \cup {elem_at(taken_slot)}
    /\ UNCHANGED <<arenaVars, kind, storage, generations, stale, uses, objects, history>>

AllocCopy ==
    /\ Open /\ kind = "objpool" /\ Taken
    /\ used_bits' = used_bits \cup {taken_slot} /\ held' = held \cup {elem_at(taken_slot)}
    /\ objects' = objects \cup {taken_slot}
    /\ UNCHANGED <<arenaVars, kind, storage, generations, stale, uses, history>>

\* alloc_copy whose copy_fn fails: free gives the slot back, and calls destroy_fn on
\* memory in which nothing was constructed.
AllocCopyFails ==
    /\ Open /\ kind = "objpool" /\ free_stack # <<>>
    /\ history' = history \cup {"copy_failed", "stray"}
    /\ UNCHANGED <<arenaVars, poolVars>>

\* Mutant: the address is not checked to be the start of an element.
index_Interior(addr) ==
    LET offset == addr - storage IN
    IF addr < storage THEN {} ELSE {offset \div ElemBytes} \cap Index

\* index: the slot of an element address, none for any other address.
index(addr) ==
    LET offset == addr - storage IN
    IF addr < storage \/ offset % ElemBytes # 0 THEN {} ELSE {offset \div ElemBytes} \cap Index

\* free, of an address that is a used slot; any other is refused.
Free(addr) ==
    /\ Open /\ kind = "objpool" /\ addr # NULL
    /\ \E i \in index(addr) \cap used_bits :
           /\ i \in objects
           /\ Destroyed({i})
           /\ used_bits' = used_bits \ {i}
           /\ free_stack' = Append(free_stack, i)
    /\ live_count' = live_count - 1
    /\ held' = held \ {addr}
    /\ UNCHANGED <<arenaVars, kind, storage, generations, stale, uses>>
-----------------------------------------------------------------------------
(***************************************************************************)
(* HandlePool                                                              *)
(***************************************************************************)

\* make_handle, handle_index and handle_generation: the pair of index and generation.
make_handle(i, g) == [index |-> i, generation |-> g]

\* valid, and the test of get and release.
valid(h) == generations[h.index] = h.generation

\* Mutant: the wrap skips generation 1, so a slot has one generation less.
bump_generation_ToTwo(i) ==
    [generations EXCEPT ![i] = IF @ = MaxGen THEN 2 ELSE @ + 1]

bump_generation(i) ==
    [generations EXCEPT ![i] = IF @ = MaxGen THEN 1 ELSE @ + 1]

\* acquire: the slot on top of the stack; a fresh slot gets generation 1.
Acquire ==
    /\ Open /\ kind = "handle" /\ Taken
    /\ LET g == IF generations[taken_slot] = 0 THEN 1 ELSE generations[taken_slot] IN
       /\ generations' = [generations EXCEPT ![taken_slot] = g]
       /\ held' = held \cup {make_handle(taken_slot, g)}
    /\ UNCHANGED <<arenaVars, kind, storage, used_bits, stale, uses, objects, history>>

\* release of a handle that compares equal: run the destructor, bump the generation,
\* push the slot.  Any other handle is refused.
Release(h) ==
    /\ Open /\ kind = "handle" /\ uses[h.index] < MaxUses
    /\ valid(h) /\ (h \in held => h.index \in objects)
    /\ Destroyed({h.index})
    /\ generations' = bump_generation(h.index)
    /\ free_stack' = Append(free_stack, h.index)
    /\ live_count' = live_count - 1
    /\ held' = held \ {h}
    /\ stale' = stale \cup {[handle |-> h, at |-> uses[h.index]]}
    /\ uses' = [uses EXCEPT ![h.index] = @ + 1]
    /\ UNCHANGED <<arenaVars, kind, storage, used_bits>>

\* The handles clients still use.  The generations of a slot repeat after MaxGen
\* releases, so a client must have dropped a released handle by then.
reuse(s) == uses[s.handle.index] - s.at
Known == held \cup {s.handle : s \in {t \in stale : reuse(t) < MaxGen}}
-----------------------------------------------------------------------------
Init ==
    /\ arena = zeroed /\ memory = {} /\ blocks = {}
    /\ kind \in Kinds /\ storage = NULL
    /\ free_stack = <<>> /\ used_bits = {} /\ generations = [i \in Index |-> 0]
    /\ live_count = 0
    /\ held = {} /\ stale = {} /\ uses = [i \in Index |-> 0]
    /\ objects = {} /\ history = {}

Next ==
    \/ ArenaInit \/ ArenaCreate \/ ArenaEnd \/ ArenaReset
    \/ \E q \in Requests : ArenaAlloc(q)
    \/ InitFromArena \/ Construct \/ Clear \/ Close
    \/ Alloc \/ AllocCopy \/ AllocCopyFails
    \/ \E addr \in Address : Free(addr)
    \/ Acquire
    \/ kind = "handle" /\ \E h \in Known : Release(h)

Spec == Init /\ [][Next]_vars
-----------------------------------------------------------------------------
(***************************************************************************)
(* Properties                                                              *)
(***************************************************************************)

Bytes(b) == b.ptr..(b.ptr + b.bytes - 1)

\* The blocks an arena gave out since its last reset are aligned, lie in its region
\* and do not overlap, also next to the end of the address space and for sizes whose
\* sum overflows; and an arena that ended, or that was never made because memory ran
\* out, gave back its object and its backing, each in the way it was obtained.
ArenaSound ==
    /\ \A b \in blocks :
           /\ b.ptr % b.alignment = 0
           /\ b.ptr >= arena.base /\ b.ptr + b.bytes <= arena.base + arena.capacity_bytes
           /\ \A c \in blocks \ {b} : Bytes(b) \cap Bytes(c) = {}
    /\ arena.base = NULL => memory = {}
    /\ "wrong" \notin history

Holds(i) == IF kind = "objpool" THEN elem_at(i) \in held ELSE \E h \in held : h.index = i

\* The free stack holds every slot that no client has exactly once, and no other,
\* and the count and the bits or generations agree with it: no slot is handed out
\* twice and free_stack_ never overflows, whatever is freed or released, also
\* addresses inside or outside the storage, twice, and handles of earlier uses.
FreeStackSound ==
    Open =>
        /\ \A j, k \in 1..Len(free_stack) : free_stack[j] = free_stack[k] => j = k
        /\ \A i \in Index : Holds(i) <=> \A k \in 1..Len(free_stack) : free_stack[k] # i
        /\ Cardinality(held) = live_count /\ Len(free_stack) + live_count = Capacity
        /\ kind = "objpool" => used_bits = {i \in Index : Holds(i)}
        /\ kind = "handle" => \A h \in held : valid(h)

\* A released handle is refused until its slot has been released MaxGen - 1
\* times more: a stale handle never reaches the object that reuses the slot.
StaleRefused ==
    kind = "handle" => \A s \in stale : valid(s.handle) => reuse(s) >= MaxGen

\* No object is left in a slot that is free, where the next client would construct
\* over it; a destructor runs on a slot without an object only after a failed copy
\* in alloc_copy (objpool_core.hpp:140); and an object is abandoned only by a
\* HandlePool that ends with handles out (handle_pool.hpp:180).
ObjectsAccounted ==
    /\ \A i \in objects : Holds(i)
    /\ "stray" \in history <=> "copy_failed" \in history
    /\ "leaked" \in history => kind = "handle"
=============================================================================
