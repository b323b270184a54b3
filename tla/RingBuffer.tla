------------------------------ MODULE RingBuffer ------------------------------
(***************************************************************************)
(* ring_buffer_core of include/memkit/detail/ring_buffer_core.hpp, the     *)
(* core of Ring, Queue, Deque, ByteRing and RingLog and of the ring_t,     *)
(* queue_t and deque_t of the C API.  One context calls it, so every call  *)
(* is one step; what may fail inside a call (an allocation, the caller's   *)
(* copy_fn) is a choice of that step.                                      *)
(*                                                                         *)
(* The core is modelled at its own interface: every combination of flags   *)
(* init accepts, with the element policy of the client that instantiates   *)
(* it.  A slot holds the live object constructed in it, or Empty; a        *)
(* copy_fn that fails leaves its destination as it was.                    *)
(***************************************************************************)
EXTENDS Integers, Sequences

CONSTANTS Value,        \* the elements
          Empty,        \* a slot without a live object
          InitCapacity, \* capacity of the storage given to init
          MaxCapacity   \* bound: the largest allocation that succeeds

ASSUME RingAssumption ==
    /\ InitCapacity \in Nat \ {0} /\ MaxCapacity \in Nat /\ InitCapacity <= MaxCapacity
    /\ Empty \notin Value

VARIABLES ring,   \* capacity_, head_, tail_, count_, the slots of storage_, storage_kind_;
                  \* owner is who really owns the storage, heap how many malloc
                  \* blocks were allocated and not freed
          client, \* who instantiates the core: "Deque" (and Queue), "Ring" (and
                  \* ByteRing, RingLog) or "c_api" (ring_t, queue_t and deque_t)
          flags,  \* buffer_flags_
          grow,   \* what growth allocates from: the bound grow_alloc_ or malloc
          alive,  \* FALSE once the destructor or *_deinit has run
          res,    \* status of the last call
          out     \* the element delivered last

vars == <<ring, client, flags, grow, alive, res, out>>

Item == Value \cup {Empty}
Slot == 0..(MaxCapacity - 1)   \* the storage has the first ring.capacity of them
growable == "growable" \in flags
overwrite_on_full == "overwrite" \in flags

\* runtime_element_policy: the copy of an element is a callback that may fail.
copy_may_fail == client = "c_api"
\* Queue and Deque pop with move_out; Ring::pop_front copies and so does the C API.
move_out == client = "Deque"

advance(r, index, delta) == (index + delta) % r.capacity
retreat(r, index) == ((index + r.capacity) - 1) % r.capacity
logical_index(r, i) == advance(r, r.tail, i)

\* The elements, index 1 the logical front.
Elements(r) == [i \in 1..r.count |-> r.slots[logical_index(r, i - 1)]]
Live(r) == {logical_index(r, i) : i \in 0..(r.count - 1)}

\* The ring with other elements in the same storage.
moved(r, slots, head, tail, count) ==
    [capacity |-> r.capacity, head |-> head, tail |-> tail, count |-> count, slots |-> slots,
     kind |-> r.kind, owner |-> r.owner, heap |-> r.heap]

\* destroy, on a set of slots.
Destroyed(r, S) == [s \in Slot |-> IF s \in S THEN Empty ELSE r.slots[s]]

\* The values of the fields of the core, and of the variables.
RingType(r) ==
    /\ r \in [capacity : 1..MaxCapacity, head : Nat, tail : Nat, count : Nat,
              slots : [Slot -> Item], kind : {"external", "arena", "heap"},
              owner : {"caller", "arena", "heap"}, heap : Int]
    /\ r.head < r.capacity /\ r.tail < r.capacity /\ r.count <= r.capacity

TypeOK ==
    /\ RingType(ring)
    /\ client \in {"Deque", "Ring", "c_api"} /\ flags \subseteq {"growable", "overwrite"}
    /\ grow \in {"grow_alloc", "malloc"} /\ alive \in BOOLEAN
    /\ res \in {"ok", "full", "empty", "invalid", "failed"} /\ out \in Item

\* init on the caller's storage, on arena storage (growth is then bound to the
\* arena) or, in the C API, on a malloc block.
Init ==
    /\ client \in {"Deque", "Ring", "c_api"}
    /\ \E kind \in {"external", "arena"} \cup (IF client = "c_api" THEN {"heap"} ELSE {}) :
           /\ ring = [capacity |-> InitCapacity, head |-> 0, tail |-> 0, count |-> 0,
                      slots |-> [s \in Slot |-> Empty], kind |-> kind,
                      owner |-> IF kind = "external" THEN "caller" ELSE kind,
                      heap |-> IF kind = "heap" THEN 1 ELSE 0]
           /\ \/ grow = "malloc" /\ kind # "arena"
              \/ grow = "grow_alloc" /\ (kind = "arena" \/ (client = "c_api" /\ kind = "external"))
    /\ flags \in SUBSET {"growable", "overwrite"}
    /\ alive = TRUE /\ res = "ok" /\ out = Empty

\* A call that returns a status and changes nothing else.
Return(status) == res' = status /\ UNCHANGED <<ring, out>>
-----------------------------------------------------------------------------
(***************************************************************************)
(* Making room                                                             *)
(***************************************************************************)

\* grow_capacity: double until it is enough.
grow_capacity(current, required) ==
    LET sizes == {current * 2^i : i \in 0..required} IN
    CHOOSE c \in sizes : c >= required /\ \A d \in sizes : d >= required => c <= d

\* Mutant: growth with malloc leaves storage_kind_ alone.
relinearize_KeepsKind(r, new) ==
    LET malloc == r.kind = "heap" \/ grow = "malloc" IN
    [capacity |-> new, head |-> r.count, tail |-> 0, count |-> r.count,
     slots |-> [s \in Slot |-> IF s < r.count THEN Elements(r)[s + 1] ELSE Empty],
     kind  |-> r.kind,
     owner |-> IF malloc THEN "heap" ELSE "arena",
     heap  |-> (r.heap + (IF malloc THEN 1 ELSE 0)) - (IF r.kind = "heap" THEN 1 ELSE 0)]

\* Mutant: the elements keep their physical slots.
relinearize_InPlace(r, new) ==
    [r EXCEPT !.capacity = new, !.head = r.count, !.tail = 0]

\* relinearize: allocate new slots, move the elements to the front of them in
\* logical order, free the old storage if it was a malloc block.
relinearize(r, new) ==
    LET malloc == r.kind = "heap" \/ grow = "malloc" IN
    [capacity |-> new, head |-> r.count, tail |-> 0, count |-> r.count,
     slots |-> [s \in Slot |-> IF s < r.count THEN Elements(r)[s + 1] ELSE Empty],
     kind  |-> IF malloc THEN "heap" ELSE r.kind,
     owner |-> IF malloc THEN "heap" ELSE "arena",
     heap  |-> (r.heap + (IF malloc THEN 1 ELSE 0)) - (IF r.kind = "heap" THEN 1 ELSE 0)]

\* What growth to at least required slots may leave behind: nothing when the
\* allocation cannot succeed or the new capacity is no larger.
Grown(required) ==
    {relinearize(ring, n) : n \in {grow_capacity(ring.capacity, required)} \cap required..MaxCapacity}

\* The element an overwriting push drops: the oldest for push_back, the newest
\* for push_front.
drop_oldest(r) ==
    moved(r, Destroyed(r, {r.tail}), r.head, advance(r, r.tail, 1), r.count - 1)
drop_newest(r) ==
    moved(r, Destroyed(r, {retreat(r, r.head)}), retreat(r, r.head), r.tail, r.count - 1)

\* The rings a push may go on with when it has made room.
Room(dropped, lossy) ==
    IF ring.count < ring.capacity THEN {ring}
    ELSE IF growable THEN Grown(ring.count + 1)
    ELSE IF lossy THEN {dropped} ELSE {}

put_back(r, v) ==
    moved(r, [r.slots EXCEPT ![r.head] = v], advance(r, r.head, 1), r.tail, r.count + 1)
put_front(r, v) ==
    moved(r, [r.slots EXCEPT ![retreat(r, r.tail)] = v], r.head, retreat(r, r.tail), r.count + 1)
-----------------------------------------------------------------------------
(***************************************************************************)
(* The operations                                                          *)
(***************************************************************************)

\* Mutant: the oldest element is given up although the ring may grow.
PushBack_OverwriteFirst(v, allow_overwrite) ==
    LET lossy == allow_overwrite \/ overwrite_on_full
        rooms == IF ring.count = ring.capacity /\ lossy THEN {drop_oldest(ring)}
                 ELSE Room(ring, FALSE) IN
    /\ alive
    /\ \/ ring.count = ring.capacity /\ ~growable /\ ~lossy /\ Return("full")
       \/ ring.count = ring.capacity /\ growable /\ Return("failed")
       \/ /\ \E r \in rooms : \/ ring' = put_back(r, v) /\ res' = "ok"
                              \/ copy_may_fail /\ ring' = r /\ res' = "failed"
          /\ UNCHANGED out
    /\ UNCHANGED <<client, flags, grow, alive>>

\* push_back.  A full ring that may grow grows, and else gives up its oldest
\* element if it may; a copy that fails leaves the room that was made.
PushBack(v, allow_overwrite) ==
    LET lossy == allow_overwrite \/ overwrite_on_full IN
    /\ alive
    /\ \/ ring.count = ring.capacity /\ ~growable /\ ~lossy /\ Return("full")
       \/ ring.count = ring.capacity /\ growable /\ Return("failed")
       \/ /\ \E r \in Room(drop_oldest(ring), lossy) :
                 \/ ring' = put_back(r, v) /\ res' = "ok"
                 \/ copy_may_fail /\ ring' = r /\ res' = "failed"
          /\ UNCHANGED out
    /\ UNCHANGED <<client, flags, grow, alive>>

\* push_front.  tail_ retreats before the copy and is put back when it fails.
PushFront(v) ==
    /\ alive
    /\ \/ ring.count = ring.capacity /\ ~growable /\ ~overwrite_on_full /\ Return("full")
       \/ ring.count = ring.capacity /\ growable /\ Return("failed")
       \/ /\ \E r \in Room(drop_newest(ring), overwrite_on_full) :
                 \/ ring' = put_front(r, v) /\ res' = "ok"
                 \/ /\ copy_may_fail /\ res' = "failed"
                    /\ ring' = moved(r, r.slots, r.head, advance(r, retreat(r, r.tail), 1), r.count)
          /\ UNCHANGED out
    /\ UNCHANGED <<client, flags, grow, alive>>

\* extract_slot: what happens to the slot of a popped element.  A null out
\* pointer destroys the object; a copy leaves it in the slot.
extract_slot(slot, wanted) ==
    IF wanted /\ ~move_out THEN ring.slots ELSE Destroyed(ring, {slot})

\* Mutant: the slot of a popped element is not destroyed.
PopFront_Leaks(wanted) ==
    /\ alive /\ ring.count > 0 /\ res' = "ok"
    /\ ring' = moved(ring, ring.slots, ring.head, advance(ring, ring.tail, 1), ring.count - 1)
    /\ out' = IF wanted THEN ring.slots[ring.tail] ELSE out
    /\ UNCHANGED <<client, flags, grow, alive>>

PopFront(wanted) ==
    /\ alive
    /\ \/ ring.count = 0 /\ Return("empty")
       \/ ring.count > 0 /\ wanted /\ copy_may_fail /\ Return("failed")
       \/ /\ ring.count > 0 /\ res' = "ok"
          /\ ring' = moved(ring, extract_slot(ring.tail, wanted), ring.head,
                           advance(ring, ring.tail, 1), ring.count - 1)
          /\ out' = IF wanted THEN ring.slots[ring.tail] ELSE out
    /\ UNCHANGED <<client, flags, grow, alive>>

\* pop_back retreats head_ before the copy and puts it back when it fails.
PopBack(wanted) ==
    LET back == retreat(ring, ring.head) IN
    /\ alive
    /\ \/ ring.count = 0 /\ Return("empty")
       \/ /\ ring.count > 0 /\ wanted /\ copy_may_fail /\ res' = "failed"
          /\ ring' = moved(ring, ring.slots, advance(ring, back, 1), ring.tail, ring.count)
          /\ UNCHANGED out
       \/ /\ ring.count > 0 /\ res' = "ok"
          /\ ring' = moved(ring, extract_slot(back, wanted), back, ring.tail, ring.count - 1)
          /\ out' = IF wanted THEN ring.slots[back] ELSE out
    /\ UNCHANGED <<client, flags, grow, alive>>

SetAt(index, v) ==
    /\ alive
    /\ \/ index >= ring.count /\ Return("invalid")
       \/ index < ring.count /\ copy_may_fail /\ Return("failed")
       \/ /\ index < ring.count /\ res' = "ok" /\ UNCHANGED out
          /\ ring' = moved(ring, [ring.slots EXCEPT ![logical_index(ring, index)] = v],
                           ring.head, ring.tail, ring.count)
    /\ UNCHANGED <<client, flags, grow, alive>>

cleared(r) ==
    IF r.count = 0 THEN r
    ELSE moved(r, Destroyed(r, Live(r)), 0, 0, 0)

Clear ==
    /\ alive /\ ring' = cleared(ring) /\ res' = "ok"
    /\ UNCHANGED <<client, flags, grow, alive, out>>

Reserve(min_capacity) ==
    /\ alive
    /\ \/ min_capacity <= ring.capacity /\ Return("ok")
       \/ min_capacity > ring.capacity /\ ~growable /\ Return("full")
       \/ min_capacity > ring.capacity /\ growable /\ Return("failed")
       \/ /\ min_capacity > ring.capacity /\ growable /\ res' = "ok"
          /\ ring' \in Grown(min_capacity) /\ UNCHANGED out
    /\ UNCHANGED <<client, flags, grow, alive>>

\* Mutant: equal indices are taken for an empty window.
readable_contiguous_Equal(r) == IF r.tail <= r.head THEN r.head - r.tail ELSE r.count

\* The number of elements, and of free slots, the contiguous windows report.
\* The second may be negative: head_ - tail_ of a size_t.
readable_contiguous(r) == IF r.tail < r.head THEN r.head - r.tail ELSE r.count
writable_contiguous(r) ==
    IF r.head >= r.tail THEN r.capacity - r.count ELSE r.head - r.tail

\* writable_contiguous makes room first when the ring is full.
WritableContiguous ==
    /\ alive /\ ring.count >= ring.capacity
    /\ \/ ~growable /\ Return("full")
       \/ growable /\ Return("failed")
       \/ growable /\ ring' \in Grown(ring.count + 1) /\ res' = "ok" /\ UNCHANGED out
    /\ UNCHANGED <<client, flags, grow, alive>>

\* commit_read destroys what was read in place and lets go of it.
CommitRead(elem_count) ==
    LET n == IF elem_count > ring.count THEN ring.count ELSE elem_count IN
    /\ alive /\ ring.count > 0 /\ res' = "ok"
    /\ ring' = moved(ring, Destroyed(ring, {logical_index(ring, i) : i \in 0..(n - 1)}),
                     ring.head, advance(ring, ring.tail, n), ring.count - n)
    /\ UNCHANGED <<client, flags, grow, alive, out>>

\* commit_write after the caller filled slots from head_ on, which it can do only
\* up to the end of the storage.
CommitWrite(elem_count) ==
    LET free == ring.capacity - ring.count
        n == IF elem_count > free THEN free ELSE elem_count IN
    /\ alive /\ n <= ring.capacity - ring.head /\ res' = "ok"
    /\ \E f \in [ring.head..((ring.head + n) - 1) -> Value] :
           ring' = moved(ring, [s \in Slot |-> IF s \in DOMAIN f THEN f[s] ELSE ring.slots[s]],
                         advance(ring, ring.head, n), ring.tail, ring.count + n)
    /\ UNCHANGED <<client, flags, grow, alive, out>>

\* The end of the container: *_deinit clears it and frees storage that
\* storage_kind_ calls heap storage; the C++ destructors clear it.
Deinit ==
    /\ alive /\ alive' = FALSE /\ res' = "ok"
    /\ ring' = [cleared(ring) EXCEPT !.heap =
                   ring.heap - (IF client = "c_api" /\ ring.kind = "heap" THEN 1 ELSE 0)]
    /\ UNCHANGED <<client, flags, grow, out>>

\* What Ring, Queue, ring_t and queue_t offer.
QueueNext ==
    \/ \E v \in Value, allow_overwrite \in BOOLEAN : PushBack(v, allow_overwrite)
    \/ \E wanted \in BOOLEAN : PopFront(wanted)
    \/ \E n \in 1..MaxCapacity : CommitRead(n) \/ CommitWrite(n)
    \/ Clear \/ WritableContiguous \/ Deinit

\* Deque and deque_t add the other ends, set_at and reserve.
Next ==
    \/ QueueNext
    \/ \E v \in Value : PushFront(v) \/ \E index \in 0..(MaxCapacity - 1) : SetAt(index, v)
    \/ \E wanted \in BOOLEAN : PopBack(wanted)
    \/ \E n \in 1..MaxCapacity : Reserve(n)

Spec == Init /\ [][Next]_vars
-----------------------------------------------------------------------------
(***************************************************************************)
(* Properties                                                              *)
(***************************************************************************)

\* head_ is redundant: it always is count_ slots after tail_, through every
\* wrap-around, growth, failed copy that is undone and in-place commit.
IndexConsistent == ring.head = (ring.tail + ring.count) % ring.capacity

\* Queue and Deque: every element slot holds a live object and no other slot
\* does, so nothing is destroyed twice, leaked by a pop or forgotten by a growth.
\* (Ring::pop_front and the C API copy a popped element and leave the object.)
ElementLifetime ==
    client = "Deque" => \A s \in Slot : ring.slots[s] # Empty <=> s \in Live(ring)

\* storage_kind_ tells a malloc block from storage that must not be freed,
\* whatever the ring started on and however it grew, and a growth frees the
\* block it leaves.
StorageOwned ==
    alive => /\ ring.kind = "heap" <=> ring.owner = "heap"
             /\ ring.heap = (IF ring.owner = "heap" THEN 1 ELSE 0)

\* *_deinit of the C API frees what init and every growth allocated.
StorageReleased == ~alive /\ client = "c_api" => ring.heap = 0

\* A call that fails leaves the elements as they were; only a push that had
\* already given up an element of a full lossy ring when its copy failed has
\* lost that one.
FailureKeeps ==
    res' # "ok" =>
        \/ Elements(ring') = Elements(ring)
        \/ /\ ring.count = ring.capacity /\ ~growable /\ res' = "failed"
           /\ \/ Elements(ring') = SubSeq(Elements(ring), 2, ring.count)
              \/ Elements(ring') = SubSeq(Elements(ring), 1, ring.count - 1)

\* A ring that may grow never drops an element to make room, even if it may
\* also overwrite: a call that does not take elements out keeps them all, in
\* order, except the one that set_at replaces.
GrowthKeeps ==
    growable /\ ring'.count >= ring.count =>
        LET old == Elements(ring)
            new == Elements(ring') IN
        \/ \E k \in 0..(ring'.count - ring.count) :
               \A i \in 1..ring.count : new[k + i] = old[i]
        \/ \E i \in 1..ring.count : new = [old EXCEPT ![i] = new[i]]

\* No call drops an element that it was not asked to take out, whether it fails or
\* makes the ring grow, but for the one a lossy ring gave up.
KeepsElements == [][FailureKeeps /\ GrowthKeeps]_vars

\* The ring implements the abstract deque.
D == INSTANCE Deque WITH deque <- Elements(ring), NoItem <- Empty
ImplementsDeque == D!DequeSpec

\* The windows of zero-copy access.  docs/C_API_REFERENCE.md:115-116 promise
\* contiguous elements from tail_ on and contiguous empty slots from head_ on.  The
\* code keeps that exactly while the ring has not wrapped: readable_contiguous
\* (line 403) reaches past the end of the storage when the elements wrap, and
\* writable_contiguous (line 429) whenever tail_ is not 0.
WindowsExact ==
    /\ ring.count > 0 =>
           (readable_contiguous(ring) <= ring.capacity - ring.tail
                <=> ring.tail + ring.count <= ring.capacity)
    /\ ring.count < ring.capacity =>
           (writable_contiguous(ring) \in 0..(ring.capacity - ring.head) <=> ring.tail = 0)
=============================================================================
