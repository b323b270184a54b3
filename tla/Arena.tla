-------------------------------- MODULE Arena --------------------------------
(***************************************************************************)
(* arena_t of src/arena.cpp, and memory::arena of                          *)
(* include/memkit/memory/arena.hpp, which has the same allocate: a bump    *)
(* allocator over one region of memory.  Addresses are numbers and         *)
(* arithmetic on them wraps at Word, as on uintptr_t and size_t.           *)
(*                                                                         *)
(* The operators here take and return the fields of arena_t; the module    *)
(* Pools has the arena, and the pools that live in it, as state.           *)
(***************************************************************************)
EXTENDS Integers, FiniteSets

CONSTANTS Word   \* 2^w for the w bits of size_t and uintptr_t

ASSUME WordAssumption == Word \in Nat \ {0}

NULL == 0
Address == 0..(Word - 1)

\* arena_t; a base of NULL is an arena that is not initialized.
ArenaT == [base : Address, capacity_bytes : Address, offset_bytes : Address,
           allocation_count : Nat, flags : SUBSET {"owns", "dynamic", "mmap"}]

zeroed == [base |-> NULL, capacity_bytes |-> 0, offset_bytes |-> 0,
           allocation_count |-> 0, flags |-> {}]

\* arena_init, for a configuration that arena_validate_config accepts.
arena_init(region, flags) ==
    [zeroed EXCEPT !.base = region.base, !.capacity_bytes = region.bytes, !.flags = flags]

arena_ptr_is_valid(a) == a.base # NULL /\ a.capacity_bytes > 0

arena_reset(a) == [a EXCEPT !.offset_bytes = 0, !.allocation_count = 0]

PowerOfTwo(n) == n # 0 /\ \E k \in 0..n : n = 2^k

\* The next multiple of a power of two; the sum may wrap to 0.
align_up_address(addr, alignment) ==
    LET sum == (addr + alignment - 1) % Word IN sum - (sum % alignment)

\* add_would_overflow and mul_would_overflow of size_t.
add_would_overflow(a, b) == a + b >= Word
mul_would_overflow(a, b) == a * b >= Word

failed(a) == [ok |-> FALSE, ptr |-> NULL, arena |-> a]

\* Mutant: the end of the block is computed without the check for overflow.
arena_alloc_Overflows(a, size, alignment) ==
    LET raw_addr == (a.base + a.offset_bytes) % Word
        aligned_addr == align_up_address(raw_addr, alignment)
        aligned_offset == (aligned_addr - a.base) % Word
        new_offset == (aligned_offset + size) % Word IN
    IF \/ ~arena_ptr_is_valid(a)
       \/ size = 0 \/ ~PowerOfTwo(alignment)
       \/ raw_addr < a.base
       \/ aligned_offset < a.offset_bytes
       \/ new_offset > a.capacity_bytes
    THEN failed(a)
    ELSE [ok |-> TRUE, ptr |-> aligned_addr,
          arena |-> [a EXCEPT !.offset_bytes = new_offset, !.allocation_count = @ + 1]]

\* arena_alloc: align the next free address, then check the end of the block.
arena_alloc(a, size, alignment) ==
    LET raw_addr == (a.base + a.offset_bytes) % Word
        aligned_addr == align_up_address(raw_addr, alignment)
        aligned_offset == (aligned_addr - a.base) % Word
        new_offset == aligned_offset + size IN
    IF \/ ~arena_ptr_is_valid(a)
       \/ size = 0 \/ ~PowerOfTwo(alignment)
       \/ a.offset_bytes > a.capacity_bytes \/ raw_addr < a.base
       \/ aligned_offset < a.offset_bytes
       \/ add_would_overflow(aligned_offset, size)
       \/ new_offset > a.capacity_bytes
    THEN failed(a)
    ELSE [ok |-> TRUE, ptr |-> aligned_addr,
          arena |-> [a EXCEPT !.offset_bytes = new_offset, !.allocation_count = @ + 1]]

\* arena_calloc; the block is filled with zeros.
arena_calloc(a, count, size, alignment) ==
    IF mul_would_overflow(count, size) THEN failed(a)
    ELSE arena_alloc(a, count * size, alignment)
=============================================================================
