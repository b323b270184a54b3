# TLA+ verification of memkit

memkit is a header-only C++ library of embedded containers with a C API on top.
This directory holds TLA+ models of its cores, the TLC configurations that check
them on small instances, and proofs, checked by TLAPS, of what matters most for
instances of every size. `PROJECT.json` lists the components, the runs, the
mutants, the source lines behind every definition, the hazards and the theorems.

    tlc -config Spsc.cfg SpscQueue        # a run: module and configuration
    tlapm SpscQueueProofs.tla             # a proof module

## 1. The system

Every container is built in layers: a *core* (`include/memkit/detail/*_core.hpp`)
with the algorithm over raw slots, parameterised by an *element policy* (typed
construction and destruction, or the callbacks of the C API, whose `copy_fn` may
fail); a typed C++ *container* (`include/memkit/containers`); and for fourteen of
them a *box* (`include/memkit/c_api`) that validates a configuration, takes its
blocks from the caller, an arena or `malloc`, and is called through `extern "C"`
*bindings* (`src/c_api/bindings`). Containers do not call each other; they share
the arena, the growth helpers of `growable_storage.hpp` and the intrusive hooks.
Three containers are meant for more than one context.

| component | state | operations | what is hard | what makes it correct |
|---|---|---|---|---|
| SPSC queue | atomic `head_`, `tail_`, slots | push, pop, peek, full, empty, clear | two contexts, acquire/release, stale loads, wrapping counters, overwrite | no race, object lifetimes, FIFO, stable answers |
| MPSC queue | `enqueue_pos_`, `dequeue_pos_`, sequenced cells | push, pop, clear | claims before room is known, bounded spins | exclusive cells, claim order, truthful full and empty, delivery |
| Double buffer | `readable_`, two slots | write_span, publish, read_span | spans used outside any call | whole blocks unless overrun |
| Ring core (Ring, Queue, Deque, ByteRing, RingLog) | indices, count, slots, `storage_kind_` | push/pop at both ends, set_at, reserve, clear, contiguous windows, commits | growth while wrapped, failing copies, storage of three origins | a deque; nothing lost, leaked or freed twice |
| Vector, Stack, growable storage | block, size, `storage_kind_` | push_back, pop_back, set_at, reserve, clear | reallocation with failing copies, elements of the vector itself, ownership | a sequence; blocks freed once by their owner |
| Priority queue | heap array | push, pop, reserve, clear | swaps with failing copies, growth | pops a least element, keeps the others |
| Hash map | chains, or a probe table with tombstones | put, get, remove, clear, rehash | tombstones, full tables, copies that fail in the middle | a map; growth keeps entries and room |
| LRU cache | entries on hash chains and a recency list | put, get, touch, remove, clear | eviction before a copy that may fail, two lists through one entry | recency order; every entry in its place |
| B-tree map (a binary tree), flat map, sparse set | nodes with two links; sorted array; dense and sparse arrays | insert, remove, clear | removal of a node with two children, copies over live elements, moves of entries, arrays that are never initialized | a map in key order, a set; no node lost, no object but those a tree copies over |
| List, dlist | node pool or malloc, links | insert, remove and pop by position, clear | pool and links together, both ends | a sequence; every node in one place |
| Object pool, handle pool | free stack, used bits or generations | alloc, alloc_copy, free, acquire, release, clear | foreign addresses, double frees, stale handles, generation wrap | a slot has one holder; objects are destroyed once |
| Arena and backing memory | base, capacity, offset, flags | init, create, alloc, calloc, reset, deinit, destroy | alignment and overflow at the end of the address space | disjoint aligned blocks; backing given back |
| Timer wheel | buckets of intrusive lists, tick counter | schedule, cancel, tick | callbacks that re-enter, wrapping deadlines | sound lists, timers run in their tick, tick returns |
| C API life cycle | the blocks and flags of a box, the object itself | init, create, deinit, destroy | blocks of mixed origin, failures half way | nothing lost, nothing foreign freed |
| Bitset, token bucket, statistics, bit streams, small buffers, variant | words, counters | set; refill, consume; push; read, write | index and rounding arithmetic | bounds |

`PROJECT.json` lists each with its status. Timing in the library is the caller's:
there are no threads, no timers and no persistence of its own, so crash recovery
and message loss do not arise. What does arise is interleaving of contexts (an
interrupt and a task), callbacks in the middle of an operation, allocations and
copies that fail half way, wrapping counters, and ownership of storage.

## 2. The modules

| module | models | remarks |
|---|---|---|
| `Fifo` | abstract specification | a bounded queue, lossy or not |
| `SpscQueue` | `spsc_queue_core.hpp` | one step per atomic access and element operation; implements `Fifo` |
| `SpscQueueProofs` | | theorems about `SpscQueue` |
| `MpscQueue` | `mpsc_queue_core.hpp` | one step per atomic access and element operation |
| `DoubleBuffer` | `double_buffer_core.hpp` | one step per call and per element the users touch |
| `MpscQueueProofs` | | theorems about `MpscQueue` and `DoubleBuffer` |
| `Deque` | abstract specification | a deque with the ways its elements may leave |
| `RingBuffer` | `ring_buffer_core.hpp`, with the growth of `growable_storage.hpp`, its clients' policies and the boxes' deinit | one step per call; implements `Deque` |
| `RingBufferProofs` | | theorems about `RingBuffer` |
| `ModArith` | | modular arithmetic; induction over a set of numbers, functions defined step by step |
| `Pointers` | chains of links | `Follow` and `Reach`, shared by the linked structures |
| `Lists` | `list_core.hpp`, `dlist_core.hpp` | one step per call, link by link |
| `ListsProofs` | | theorems about `Lists` and `LruCache` |
| `HashMap` | `hashmap_map_core.hpp`, with its release by `HashMap` and `hashmap_box` | one step per call |
| `LruCache` | `lrucache_map_core.hpp` | one step per call, link by link |
| `Arrays` | `vector_core.hpp`, `pqueue_core.hpp`, their growth in C++ and in the boxes | one step per call, copy by copy |
| `KeyedMap` | abstract specification | a map |
| `SparseSet` | the operators of `sparse_set_core.hpp` | arrays with any contents at init |
| `MapsAndSets` | `btree_map_core.hpp`, `flat_map_core.hpp`, the calls of `SparseSet` | one step per call; implements `KeyedMap` |
| `Arena` | the operators of `arena.cpp` and `memory/arena.hpp` | addresses wrap |
| `Pools`, `MCPools` | `objpool_core.hpp`, `handle_pool_core.hpp` in an arena with other clients; regions and requests of the run | composes the arena and a pool |
| `PoolsProofs` | | theorems about `Arena` and `Pools` |
| `TimerWheel` | `timer_wheel_core.hpp`, `intrusive_hook.hpp` | one step per call, per node dispatched and per callback |
| `TimerWheelProofs` | | theorems about `TimerWheel` and its intrusive lists |
| `Ownership` | the boxes' `validate_config`, `init`, `deinit`, and `create` and `destroy` | one step per call |
| `ContainerProofs` | | theorems about `Ownership`, `HashMap` and `Arrays` |

Definitions named `X_Something` next to `X` are plausible mistakes in `X`; putting one in place of `X` makes TLC refute the property it is paired
with in `PROJECT.json`. They are no part of the specifications.

**SpscQueue.** `head`, `tail` and `slots` are `head_`, `tail_` and `storage_`; the
counters live in `0..Word-1` and are compared by `Diff`, as `size_t` is. Each
context has a program counter. A load with acquire order of the other side's
counter returns any value the counter has had since the last load of this context
(`Visible`), which is what release/acquire allows; a load of one's own counter is
exact. Slot accesses are single steps, justified by `NoDataRace`: no conflicting
access is ever pending at the same time. `clear` touches both counters and is
modelled when neither side is in a call. `overwrite` is the policy
`overwrite_on_full`, fixed at init; with it push stores `head_`, the consumer's
counter, so such a queue is used serially (`SerialCalls`).

**MpscQueue.** A push is `Claim` (`fetch_add`), then spins (`SpinHit`, `SpinMiss`,
`GiveUp`), `Construct`, `Publish`; a pop is `PopBegin`, its spins, `PopMove`,
`PopDestroy`, `PopRelease`, `PopAdvance`; `clear` is a loop of pops. An element is
named by the position it was claimed at, so order and identity are one check.
The atomics are taken as one total order: a spinning thread that reads a sequence
late only has one more failed spin.

**DoubleBuffer.** Elements carry the number of their block, so a torn block is one
with two numbers. The users fill and read their spans one element at a time, in
any interleaving with the calls of the other side.

**RingBuffer.** One context uses the core, so a call is one step and what can fail
inside it is a choice. `client` picks the element policy and the way pops take the
object: Queue and Deque move it out, Ring and the C API copy it. `ring.owner` and
`ring.heap` are auxiliary: who really owns the storage, and the malloc blocks not
freed; `ring.kind` is `storage_kind_`, what the code believes.

**Lists, LruCache, MapsAndSets.** `core` (`cache`, `m`) is the record of the core's
fields, with links as functions over node addresses; helper operators return the
set of outcomes of a helper, one per failure that can happen inside. The actions
choose an outcome, and the properties quantify over all outcomes of all calls in
every reachable state, so a wrong answer is seen in the state before the call. In
`MapsAndSets` the array of FlatMap distinguishes raw slots (`NoItem`) from slots
that were constructed over or destroyed twice (`Damaged`), and the tree counts the
objects that were constructed in its nodes and not destroyed (`objects`, auxiliary):
its `copy_fn` constructs over a live object when the key is known and when a node with
two children takes its successor's element. `Rewritten` bounds the
keys that are put with more than one value. A sparse set is a map with one value;
its `sparse_` starts with any contents, and `MaxId` stands for every position that
is too large.

**HashMap.** A chain is a sequence of entries; an open slot has its state byte, key
and value, and a destroyed key leaves its bytes. `history` remembers what the
properties except: a removal, a tombstone made empty (`scar`), a growth. `kind` is
`storage_kind_` and `heap` counts the tables malloc returned.

**Arrays.** A call gets a number of copies that succeed; the next one fails. `block`
says where the block came from and `storage_kind_` what the container believes; a
call that hands foreign memory to `free` or `realloc` ends in `foreign`, after
which the model stops.

**Arena, Pools.** Addresses are numbers below `Word`, 32 in the run, and the
regions end at the last address or near it. A pool takes its three blocks from the
arena; clients allocate there too. Clients remember every handle they ever had and
free any address. They construct an object in their slot before they give it
back; `objects`, `stale`, `uses` and `history` are auxiliary.

**TimerWheel.** The lists are functions `next` and `prev` over nodes and sentinels,
and `insert_after` and `erase` are their pointer assignments. `left` counts the
ticks of a node without wrapping and `wrapped` marks a node scheduled a round or
more ahead across the wrap of the counter; both are auxiliary. `schedule` and
`cancel` happen between ticks and inside callbacks.

**Ownership.** `config` is any configuration: the blocks the caller gives, the flags
he sets, an arena or none, the allocation that fails. `core` and `c_flags` are what
the box remembers, `heap` and `misfreed` what really happened. A vector stands for
the boxes that use `element_storage.hpp`, a list for `dlist`.

## 3. The runs

| run | checks | bounds, and why they are enough |
|---|---|---|
| `spsc` | `NoDataRace`, `ElementLifetime`, `RoomIsStable`, `ImplementsFifo`, `EveryElementLeaves` | capacity 2, counters modulo 4, two values, both policies: full and empty at every phase of the wrap; about 64 000 states |
| `mpsc` | `CellExclusive`, `DeliversInClaimOrder`, `NoLeak`, `AnswersTruthful`, `DeliveredUnlessAbandoned` | three producers on two cells, so one always has to wait a round; one spin; four claims, so each cell is reused |
| `double_buffer` | `WholeUnlessOverrun` | blocks of three elements, four blocks: each slot is reused |
| `ring` | `ElementLifetime`, `StorageOwned`, `WindowsExact`, `KeepsElements`, `ImplementsDeque` | capacity 2 grows to 4: growth at every wrap position, and a further growth that fails |
| `lists` | `NodesAccounted`, `LinksAgree`, `CallsByPosition` | four pool nodes or five from malloc: both ends, two middles, full and empty; two values, so `remove_first` has a choice |
| `hashmap` | `ActsAsMap`, `RehashKeepsEntries`, `GrowthKeepsRoom`, `TablesReleased` | three keys of which two collide, 2 or 3 buckets growing to 6: full tables, tombstones on probe paths, wrapped probes |
| `lru` | `EntriesAccounted`, `ActsAsLru` | four keys in three entries and two chains, so every put of a fourth evicts, from the same chain or another |
| `arrays` | `BlocksOwned`, `ActsAsSequence`, `ActsAsPriorityQueue` | capacity 1 or 3 growing to 6: a heap of three levels, every number of successful copies up to 11, more than any call makes |
| `maps_and_sets` | `MemoryAccounted`, `SearchFindsAll`, `ImplementsMap` | five keys, capacity 4: every shape of a tree of four nodes, successors next to the target and deeper, `full`; three ids in the sparse set, so a removal moves the first, a middle or the last place, and two ids it refuses, on all 64 initial arrays; one object lost by a tree (`MaxLost`): no call looks at what earlier calls lost, and the property is about what each outcome adds |
| `pools` | `ArenaSound`, `FreeStackSound`, `StaleRefused`, `ObjectsAccounted` | addresses modulo 32, three regions, two slots, generations up to 3, five releases of a slot: the generations wrap |
| `timer_wheel` | `ListsSound`, `FiresOnTime`, `TickEnds` | three nodes, two slots, counter modulo 8, delays 1 to 5: delays of more than two rounds, deadlines across the wrap |
| `ownership` | `NothingLost`, `FreesOnlyItsOwn` | all configurations of all kinds of objects |

Deadlock is checked except in `hashmap`, `ring` and `ownership`, where a container
that was given back does nothing more.

Fairness. SPSC: both contexts finish the calls they start (weak fairness of their
steps), and the consumer keeps polling with `pop`. `PopFound` has strong fairness
because each load may be stale: hardware makes a store visible in finite time, so
a consumer that polls for ever sees it. MPSC: every context keeps running and the
consumer keeps calling `pop`; nothing is assumed of when pushes start. Timer
wheel: a running `tick()` takes its steps and callbacks return; nothing is assumed
of when the program ticks.

### What the exact properties say

Several properties hold with an exception that the code makes necessary. The
exception is part of the property, as narrow as TLC accepts, and often an
equivalence, so that it says when the exception happens and when not.

* `DeliveredUnlessAbandoned`: a push that runs out of spins keeps the position it
  claimed, and the consumer waits there for ever. `docs/CONCURRENCY.md:35` says
  "System-wide progress is guaranteed".
* `WindowsExact`: the contiguous windows reach past the end of the storage exactly
  when the elements wrap (readable) and exactly when `tail_` is not 0 (writable);
  `docs/C_API_REFERENCE.md:115-116` promise contiguous elements and slots.
* `FiresOnTime`, `TickEnds`: a deadline that wraps, a round or more ahead, is taken
  for due at the first visit of its bucket, and a callback that reschedules itself
  by a multiple of `NumSlots` can then keep one `tick()` from returning.
* `ActsAsMap`: open addressing is a map while the table has an empty slot and no
  value copy failed into a tombstone; without an empty slot a probe ends at a
  tombstone or a foreign key and takes it for the one it looked for. `put` of a
  known key says ok when `copy_fn` refused the value.
* `GrowthKeepsRoom`: the growth rule keeps an empty slot as long as nothing is
  removed; tombstones are not counted.
* `TablesReleased`: a map of the C API on the caller's storage that grew with
  malloc does not free that table.
* `EntriesAccounted`, `ActsAsLru`: an entry evicted for a put whose copy failed is
  lost for good; only then is "full" ever said.
* `BlocksOwned`: a growable vector without an arena that grows out of the caller's
  block frees that block, and a growable `PQueue` calls `realloc` on an arena's or
  the caller's block.
* `ActsAsSequence`, `ActsAsPriorityQueue`: pushing an element of a vector onto
  itself reads freed memory if the vector grows; a copy that fails inside a sift
  duplicates or loses an element.
* `MemoryAccounted`: a tree loses exactly one object when `insert` replaces the element
  of a known key (`btree_map_core.hpp:443-449`) and when `remove` copies the
  successor's element into a node with two children (`:485-497`): the copy of BTree
  constructs over the live object (`btree.hpp:222-226`), which is never destroyed. On
  every other path, failed copies and `clear` included, it loses none. For elements
  without a destructor the loss means nothing, and a `copy_fn` of the C API may
  release what it overwrites.
* `ObjectsAccounted`: a failed copy in `alloc_copy` runs the destructor on an
  element that was never constructed; `~HandlePool` leaves live objects behind.
* `NothingLost`, `FreesOnlyItsOwn`: the four circumstances in which the boxes lose a
  malloc block (a failed init of an object with several blocks, the object of
  `list_create` and `btree_create`, a block handed over whose flag is dropped,
  malloc without the dynamic flag), and the one in which they free the caller's.

## 4. The proofs

The theorems hold for every value of the constants under the named assumptions of
the modules, which say no more than the code does: `SpscAssumption` (capacity at
least 2, the word a larger multiple of it, which a power-of-two capacity gives),
`MpscAssumption` (capacity at least 2), `RingAssumption` (a positive initial
capacity, no larger than the largest allocation), `DoubleBufferAssumption` (a block
has an element), `ListConstants`, `MapConstants` and `ArraysConstants` (a positive
number of nodes or buckets, capacities no larger than the largest allocation, the
markers of an empty place are no values, and a hash is a number), `WordAssumption` and `PoolsAssumption` (sizes are positive, a region
does not wrap around), `TimerWheelAssumption` (finitely many nodes, none of them a
sentinel, the number of slots divides the word, which `NumSlots` being a power of
two gives, and delays are smaller than the word). The bounds of the models
(`MaxBlocks`, `MaxUses`, `MaxOther`, ...) are constants too, so a theorem does not
depend on them.

No safety property here is inductive. Each proof module states the inductive
invariant it needs as a conjunction of named parts, shows that every action keeps
it, and derives the properties from it.

**SpscQueueProofs**, for queues without `overwrite_on_full` (each theorem assumes
`Policies = {FALSE}`; `NeverOverwrites` and `QueueStep` reduce `Next` to the steps of
such a queue). The safety properties are not inductive. `Inv` adds what each context
knows: the value of `head_` the producer saw lies at most a capacity behind `tail_`
and not past `head_`, the value of `tail_` the consumer saw lies between `head_` and
`tail_` (`SizeBounded`); a producer in the middle of a push has seen room
(`ProducerInv`), a consumer in the middle of a pop works at `head_` and has seen an
element there (`ConsumerInv`); and the live slots are those of `[head_, tail_)` up
to the one each side is working on (`ElementLifetime`). `DiffCases`, `IncCases` and
the slot lemmas turn modular counters into linear arithmetic; distinct positions
within a capacity have distinct slots because the word is a multiple of it. From
`Inv` follow `SpscTypeCorrect`, `SpscSizeBounded`, `SpscElementLifetime`,
`SpscNoDataRace`, the action properties `SpscRoomIsStable`, `SpscSomeIsStable`,
`SpscPeekMatchesPop`, and the refinement `SpscImplementsFifo`: storing `tail_` is
`Accept`, storing `head_` is `Deliver`, every other step leaves the contents alone.

**RingBufferProofs**. `Inv` joins the types, `head_ = (tail_ + count_) mod
capacity_`, that every element slot holds a value, and that `storage_kind_` tells
the truth about the storage. One lemma per helper says what it does to the sequence
of elements (`PutBack`, `PutFront`, `DropFront`, `DropBack`, `Relinearized`,
`Committed`, ...), one per call (`PushBackGood`, ...) that it keeps `Inv` and is a
step of `Deque` or leaves the elements alone. `ModArith` holds the facts about `%`
they rest on. The results are `RingTypeCorrect`, `RingIndexConsistent`,
`RingStorageOwned`, `RingStorageReleased`, `RingWindowsExact` and
`RingImplementsDeque`. A second round over the calls (`PushBackKeeps`, ...) gives
`RingKeepsElements`, and a third one `RingElementLifetime`: the slots that hold
objects are a window that starts at `tail_` (`Lives`), which each helper moves,
shortens or extends.

**MpscQueueProofs**. The invariant looks at the `Capacity` positions from the
consumer's on, which have one cell each. `Claims`: a position in it is unclaimed,
one producer's, abandoned or done, and nothing is done a round ahead. `Cells`:
sequence and element of a cell follow from which of these its position is.
`Consumer`: what a pop in progress has seen stays true. `Undisturbed`: a clear that
no push disturbs never spins. The arithmetic of `cell` is in four lemmas about
positions less than a capacity apart. From it follow `MpscCellExclusive`,
`MpscDeliversInClaimOrder`, `MpscNoLeak` and the action property
`MpscAnswersTruthful`, which needs `MaxSpins` to be positive, as the code's default of 1024 is.

The double buffer follows in the same module. The readable slot is whole and of the
last block; the producer fills the other one; a span of the consumer that is not
overrun is whole and is the readable slot, or the producer has published since and
not asked for a span. `DoubleBufferWhole` follows.

**ListsProofs**. `Path` says of a function of the numbers that it is what a walk
along links meets, with no node twice; that `Follow` and `Reach` see exactly a path
is the induction everything rests on. `Listed` describes the memory of a core: the
nodes of the list are a path of `size_` nodes between its ends, backwards too in a
dlist, the free nodes of a pool are a second path, disjoint from the first, and
together they are all nodes. One lemma per way to link and unlink (front, back,
middle, and the last node) and per way to take and give back a node says how the
two paths change. `Shows` hides them: a core shows a sequence, and each call
`Answers` the reference of the property. `clear` is a recursive function; that it
ends with every node free is `SetInduction` over its length. From the invariant
`Good`, which is that a core shows some sequence, follow `ListsNodesAccounted`,
`ListsLinksAgree` and `ListsCallsByPosition`.

The LRU cache follows in the same module. `home` says which list of `hash_next` an
entry is on: a chain, the free list, or none. `Threaded`: each of these lists is a
path of just the entries at home there, so an unlink on one leaves the others alone
(`ThreadCut`, `ThreadPush`). `Recency`: `lru_next` is a path from `lru_head_` and
`lru_prev` its reverse. `Kept` ties the two together: the entries of the recency list
are those in chains, each at home in the chain of its key, no two with one key.
`Cached` is all of it; a lemma per helper (`FindIs`, `DropIs`, `PromoteIs`,
`AcquireIs`, `ReleaseIs`, `LinkIs`, `ClearIs`) says how the lists change. `Lru` shows
only the elements, used last first, and the set of entries on no list, and from then
on a call is a change of a sequence (`PutAdds`, `PutReplaces`, `GetIs`, ...). That
"full" means lost entries is counting: with no free entry, entries in use and lost
ones are `Capacity` together (`CacheCounts`). The invariant `LruGood` gives
`LruEntriesAccounted` and `LruActsAsLru`.

**ContainerProofs**. *Boxes of the C API.* For each kind of box, a lemma computes
`init` followed by `deinit` on an arbitrary configuration (`Right`): which malloc
blocks stay, and which foreign ones are freed, in terms of the configuration alone.
The invariant says by phase what an object holds, and `OwnershipNothingLost` and
`OwnershipFreesOnlyItsOwn` are equivalences: the named circumstances and no others.
*Blocks.* `TableInv` and `BlockInv` say that `storage_kind_` and the flags tell the
truth about the block (`Truthful`) as long as the container does not grow out of
foreign memory; a call is `Safe` when it keeps that and frees only what was
malloc'ed. `MapTablesReleased` and `ArraysBlocksOwned` follow.
*The vector.* `Vec`: the first `size_` slots hold objects. Growth shows the same
elements in a larger block or fails (`Reserved`), and every call gives the
`Answer` of the reference sequence: `VectorActsAsSequence`.
*The hash map, open addressing.* A probe visits every slot once, since it goes on
by one modulo the capacity. `Reached`: between the home of an entry and its slot no
slot is empty. `Lone`: no key is in two slots. The size is the number of occupied
slots. All three hold while some slot is empty and no failed copy has emptied a
tombstone (`OpenState`), and no call makes an empty slot in a table that has none. So
a probe that stops at an empty slot or at the key answers rightly
(`ProbeSays`), and writing an entry, a value or a tombstone keeps all three. `Tight`
is what the property about growth needs: without tombstones an insertion below the
load factor leaves an empty slot.
*The hash map, chaining.* `ChainTable`: each entry is in the chain of its hash, no
key is twice in a chain, and the size is the number of entries.
*Rehashing* is a recursive function over slots, or over buckets and their entries.
That the function exists is `StepsExist`, and what has been moved after i steps is
an induction over i. `MapInvariant` joins the parts; `MapActsAsMap`,
`MapRehashKeepsEntries` and `MapGrowthKeepsRoom` follow.
*The priority queue.* `Heap`: the elements are in the first slots, and none is
smaller than its parent. A sift is a loop; between its rounds the order holds except
at the slot the loop is at (`OrderUpTo`, `OrderBelow`), and each round keeps how often
every value occurs (`Times`). As many rounds as there are slots are enough, since
each goes up or down one level. `PriorityQueueActs` is the result.

**PoolsProofs**. The arena: `arena_alloc` returns an aligned block between the old
offset and the new one (`Allocated`), although the alignment computation wraps, so
blocks are in address order and disjoint (`GaveOut`). The pools: the free stack has
no slot twice and is the complement of the slots held (`Stack`, `Bits`), and the
generation of a slot is one more than its releases modulo the number of generations
(`Generations`), from which `PoolsStaleRefused` follows by modular arithmetic. The
elements of different slots have different addresses, and `index` finds the slot of
an address or refuses it.

**TimerWheelProofs**. The lower half is about pointers. `Rings` says that next_ runs
through c[L][1], ..., c[L][len[L]] of every list and back to its sentinel, that no
node is in two places, and that an unlinked node points to itself; `TwoWay` that
prev_ is the inverse of next_. `erase` and `push_back`, assignment by assignment,
keep both (`EraseRing`, `PushRing`) and change which list holds the node
(`EraseHome`, `PushHome`). The upper half sees lists only through `home`: a linked
node's deadline is its due tick modulo the word (`Timed`), it is in the bucket of
the deadline or on the local list, and if it is due it is in the bucket being
dispatched (`Placed`). A node that is neither `wrapped` nor due and in the present
slot is at least a round ahead, so its deadline is above the counter and it is not
taken for due: `TimerWheelFiresOnTime`. For `TimerWheelListsSound` the walk along
next_ must be shown to meet every node. It is a recursive function, and the
library's induction schemes cannot be instantiated by the provers; the proof uses
induction over a set of numbers (`SetInduction`), which follows from the minimum
principle for well-founded relations, and the pigeonhole principle for its length.

Only model-checked:

* liveness (`EveryElementLeaves`, `DeliveredUnlessAbandoned`, `TickEnds`), which is
  out of the prover's reach;
* the SPSC queue with `overwrite_on_full`, for which `spsc` checks the same
  properties under serial calls;
* `MapsAndSets.{MemoryAccounted, SearchFindsAll, ImplementsMap}`: the order of a tree
  is computed by a traversal that recurses on both children.

The provers cannot instantiate an induction scheme over data. Where the proofs above
need induction, over the rounds of a loop or the length of a chain, they use
`SetInduction` and `StepsExist` of `ModArith`, about sets of numbers and about
functions that a step determines.

## 5. Not modelled

* Moved-from containers. Several move constructors (Bitset, ByteRing, Deque, DList,
  List, ObjPool, PQueue, Queue, Ring, Stack, Vector) leave the source with its core,
  and BTree, HashMap and LruCache keep a policy pointer into the source; each model
  has one container that is not moved.
* Objects overwritten by other containers. Copies into a slot or node that holds a live
  value construct over it as in the tree, and the old object is not destroyed: a known
  key of HashMap (`hashmap_map_core.hpp:579`, `:740`) and of LruCache
  (`lrucache_map_core.hpp:242-251`), `set` of a vector (`vector_core.hpp:227`) and of a
  ring (`ring_buffer_core.hpp:340`). Their models assign the value.
* The caller's variables. `peek`, `front`, `back`, `at` and the `get` of BTree copy an
  object's bytes to the caller (`memcpy`, e.g. `btree_map_core.hpp:214`) and the `get` of
  HashMap constructs over his variable (`hashmap_map_core.hpp:602`, `:772`), which is
  sound for elements that may be copied so; these calls change no container, and what
  destroying the caller's copy does to the object in the container is left out.
* What becomes of an object that a list's `pop` copies out (it is not destroyed in
  the node) and of the old entries of `open_rehash`; byte sizes of growth
  (`new_capacity * elem_size`); the stack limit of recursive tree walks.
* `size()` of the concurrent queues from a third context; `clear` of the SPSC queue
  during a push, which stores the producer's counter; an SPSC queue with
  `overwrite_on_full` in two contexts, where push and pop race by construction;
  `tick()` from a callback and `init()` of a wheel with armed nodes.
* A handle that no pool gave out: slots start with generation 0, so index and
  generation 0 pass `valid` before the slot is first acquired. An address freed
  after its slot was handed out again cannot be told from the new holder's.
* Bitset, token bucket and the plain value types; argument checks for
  null pointers, formatting, tests, examples and benchmarks. `mmap` is taken as
  memory that is obtained and given back.

## 6. Plan

1. Proofs: the tree, the flat map and the sparse set of `MapsAndSets`; the SPSC queue
   with `overwrite_on_full` under serial calls.
2. `Bitset`, `TokenBucket` over wrapping ticks, ByteRing's and RingLog's batch calls
   on the ring core.
3. Moved-from objects, as one module over the ownership of a core by two
   containers.
