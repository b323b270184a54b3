------------------------------ MODULE Ownership ------------------------------
(***************************************************************************)
(* Who frees what in the C API.  Every container has a box                 *)
(* (include/memkit/c_api/XXX_box.hpp) whose init takes one to three blocks *)
(* from the caller, from an arena or from malloc and records that in       *)
(* c_flags_, and whose deinit decides from c_flags_ what to free.          *)
(* XXX_create also allocates the object, which XXX_destroy gives back.     *)
(*                                                                         *)
(* Any allocation may fail.  What the containers do between init and       *)
(* deinit (growth, node allocation) is modelled with each container.       *)
(***************************************************************************)
EXTENDS FiniteSets

CONSTANTS Kinds   \* the containers of the run

\* vector stands for the boxes built on element_storage.hpp: vector, stack,
\* queue, deque, ring and bitset; list for list and dlist.
ASSUME KindsAssumption ==
    Kinds \subseteq {"vector", "pqueue", "list", "btree", "hashmap", "lru", "objpool", "handle_pool"}

VARIABLES place,     \* where the object is: "none", "static", "heap", "arena"
          phase,     \* "raw", "open", "failed" (init refused or failed), "closed"
          config,    \* the configuration init was called with
          c_flags,   \* c_flags_, the ownership bits
          core,      \* the blocks of core_, by origin; "null" for nullptr
          heap,      \* malloc blocks not freed
          misfreed   \* blocks passed to free that malloc did not return, or twice

vars == <<place, phase, config, c_flags, core, heap, misfreed>>

Blocks(kind) ==
    CASE kind = "lru"         -> {"entry_pool", "buckets"}
      [] kind = "objpool"     -> {"storage", "free_stack", "used_bits"}
      [] kind = "handle_pool" -> {"storage", "generations", "free_stack"}
      [] OTHER                -> {"storage"}

\* The blocks of a pool that allocate_meta obtains.
Meta(kind) == Blocks(kind) \cap {"free_stack", "used_bits", "generations"}
AllBlocks == {"storage", "entry_pool", "buckets", "free_stack", "used_bits", "generations"}
Flags == {"owns", "dynamic", "arena"}

\* given: the blocks the caller brings; arena: config->arena != nullptr; fixed:
\* FIXED_CAPACITY, and count: node_capacity is not 0 (list and btree); oom: the
\* first allocation that fails, if the call comes to it.
Configs(kind) ==
    [kind : {kind}, given : SUBSET Blocks(kind), arena : BOOLEAN, flags : SUBSET Flags,
     fixed : IF kind \in {"list", "btree"} THEN BOOLEAN ELSE {FALSE},
     count : IF kind \in {"list", "btree"} THEN BOOLEAN ELSE {TRUE},
     oom : {"none", "self"} \cup Blocks(kind)]

\* The block of the caller that its flags describe as a malloc block the
\* container is to free.
handed_over(c) ==
    IF {"owns", "dynamic"} \subseteq c.flags THEN c.given \cap {"storage", "entry_pool"} ELSE {}

Empty == [b \in AllBlocks |-> "null"]

\* What an init leaves: the blocks of the core by origin, the flags, and the
\* malloc blocks that it took and did not free.
Opened(blocks, flags) ==
    [ok |-> TRUE, flags |-> flags, left |-> {b \in DOMAIN blocks : blocks[b] = "heap"},
     core |-> [b \in AllBlocks |-> IF b \in DOMAIN blocks THEN blocks[b] ELSE "null"]]

Refused(flags, left) == [ok |-> FALSE, flags |-> flags, left |-> left, core |-> Empty]
-----------------------------------------------------------------------------
(***************************************************************************)
(* One block of elements: vector_box and its like, pqueue_box              *)
(***************************************************************************)

validate_element(c) == c.given # {} \/ c.flags # {} \/ c.arena

\* allocate_element_storage: the caller's block, else the arena, else malloc if
\* the dynamic flag asks for it.
allocate_element_storage(c) ==
    IF c.given # {}               THEN "caller"
    ELSE IF c.oom = "storage"     THEN "null"
    ELSE IF c.arena               THEN "arena"
    ELSE IF "dynamic" \in c.flags THEN "heap"
    ELSE "null"

origin_flags(origin) ==
    CASE origin = "arena" -> {"owns", "arena"}
      [] origin = "heap"  -> {"owns", "dynamic"}
      [] OTHER            -> {}

\* init of vector_box.  The owns flag of a caller's block is kept, its dynamic
\* flag is not.
element_init(c) ==
    LET origin == allocate_element_storage(c) IN
    IF origin = "null" THEN Refused({}, {})
    ELSE Opened([b \in {"storage"} |-> origin],
                origin_flags(origin) \cup (IF origin = "caller" THEN c.flags \cap {"owns"} ELSE {}))

\* allocate_storage of pqueue_box has the same order of origins.
pqueue_init(c) == element_init(c)

\* release_element_storage: by the storage kind of the core or by both flags.
release_element_storage(blocks, flags) ==
    IF /\ blocks["storage"] # "null"
       /\ blocks["storage"] = "heap" \/ {"owns", "dynamic"} \subseteq flags
    THEN {"storage"} ELSE {}

pqueue_release_storage(blocks, flags) ==
    IF blocks["storage"] # "null" /\ {"owns", "dynamic"} \subseteq flags THEN {"storage"} ELSE {}
-----------------------------------------------------------------------------
(***************************************************************************)
(* Nodes from a pool or one by one: list_box, dlist_box, btree_box         *)
(***************************************************************************)

validate_nodes(c) ==
    /\ c.given # {} => c.count
    /\ c.given # {} \/ c.fixed \/ c.arena \/ "dynamic" \in c.flags

\* allocate_node_pool; without a capacity it leaves the pool null.
allocate_node_pool(c) ==
    IF c.given = {} /\ ~c.count THEN "null" ELSE allocate_element_storage(c)

\* init of list_box.  A list whose nodes are allocated one by one has no block and
\* none of the ownership flags of its configuration.
list_init(c) ==
    LET origin == allocate_node_pool(c) IN
    IF c.given = {} /\ ~c.fixed THEN Opened(<<>>, {})
    ELSE IF origin = "null" THEN Refused({}, {})
    ELSE Opened([b \in {"storage"} |-> origin],
                origin_flags(origin) \cup (IF origin = "caller" THEN c.flags \cap {"owns"} ELSE {}))

\* init of btree_box remembers the arena of single nodes.
btree_init(c) ==
    IF c.given = {} /\ ~c.fixed THEN Opened(<<>>, IF c.arena THEN {"arena"} ELSE {})
    ELSE list_init(c)

release_node_pool(blocks, flags) ==
    IF blocks["storage"] # "null" /\ {"owns", "dynamic"} \subseteq flags THEN {"storage"} ELSE {}
-----------------------------------------------------------------------------
(***************************************************************************)
(* Buckets: hashmap_box                                                    *)
(***************************************************************************)

\* allocate_bucket_storage takes malloc whenever there is no arena.
allocate_bucket_storage(c) ==
    IF c.given # {}           THEN "caller"
    ELSE IF c.oom = "storage" THEN "null"
    ELSE IF c.arena           THEN "arena" ELSE "heap"

hashmap_init(c) ==
    LET origin == allocate_bucket_storage(c) IN
    IF origin = "null" THEN Refused({}, {})
    ELSE Opened([b \in {"storage"} |-> origin],
                origin_flags(origin) \cup (IF origin = "caller" THEN c.flags \cap {"owns"} ELSE {}))

\* release_bucket_storage and release_storage of the core.
release_bucket_storage(blocks, flags) ==
    IF {"owns", "dynamic"} \subseteq flags /\ blocks["storage"] = "heap" THEN {"storage"} ELSE {}
-----------------------------------------------------------------------------
(***************************************************************************)
(* Two blocks: lrucache_box                                                *)
(***************************************************************************)

validate_lru(c) ==
    /\ "entry_pool" \in c.given \/ c.arena \/ "dynamic" \in c.flags
    /\ \/ "buckets" \in c.given \/ c.arena \/ "dynamic" \in c.flags
       \/ "entry_pool" \in c.given /\ c.flags # {}

\* alloc_raw of lrucache_box and objpool_box.
alloc_raw(c, b) ==
    IF b \in c.given  THEN "caller"
    ELSE IF c.oom = b THEN "null"
    ELSE IF c.arena   THEN "arena" ELSE "heap"

\* The flags that allocate_entry_pool and allocate_buckets, or allocate_storage
\* and allocate_meta, add for the blocks bs.
raw_flags(c, bs) ==
    IF bs \subseteq c.given THEN {}
    ELSE IF c.arena THEN {"arena"} ELSE c.flags \cap {"dynamic"}

\* When the buckets cannot be allocated, release_storage finds neither the owns
\* flag nor the entry pool in the core.
lru_init(c) ==
    LET blocks == [b \in {"entry_pool", "buckets"} |-> alloc_raw(c, b)] IN
    IF blocks["entry_pool"] = "null" THEN Refused({}, {})
    ELSE IF blocks["buckets"] = "null"
    THEN Refused(raw_flags(c, {"entry_pool"}), {b \in {"entry_pool"} : blocks[b] = "heap"})
    ELSE Opened(blocks,
                raw_flags(c, DOMAIN blocks)
                \cup (IF c.given # DOMAIN blocks \/ "owns" \in c.flags THEN {"owns"} ELSE {}))

\* The buckets are freed when owns_buckets says the box allocated them.
lru_release_storage(blocks, flags) ==
    IF {"owns", "dynamic"} \subseteq flags
    THEN {b \in {"entry_pool"} : blocks[b] # "null"}
         \cup {b \in {"buckets"} : blocks[b] \in {"heap", "arena"}}
    ELSE {}
-----------------------------------------------------------------------------
(***************************************************************************)
(* Three blocks: objpool_box and handle_pool_box                           *)
(***************************************************************************)

validate_objpool(c) ==
    /\ "storage" \in c.given \/ c.arena \/ "dynamic" \in c.flags
    /\ \/ Meta("objpool") \subseteq c.given \/ c.arena \/ "dynamic" \in c.flags
       \/ "storage" \in c.given /\ c.flags # {}

validate_handle_pool(c) ==
    /\ "storage" \in c.given \/ c.arena \/ "dynamic" \in c.flags
    /\ \/ Meta("handle_pool") \subseteq c.given \/ c.arena \/ "dynamic" \in c.flags
       \/ "storage" \in c.given /\ c.flags # {}

\* allocate_storage sets the flags of the storage before allocate_meta is tried.
storage_flags(c) ==
    IF "storage" \in c.given THEN {} ELSE {"owns"} \cup raw_flags(c, {"storage"})

\* That of handle_pool_box has the owns flag with the arena or the dynamic flag.
handle_storage_flags(c) ==
    IF "storage" \in c.given      THEN {}
    ELSE IF c.arena               THEN {"owns", "arena"}
    ELSE IF "dynamic" \in c.flags THEN {"owns", "dynamic"} ELSE {}

\* The flags allocate_meta adds.
meta_flags(c) ==
    IF Meta(c.kind) \subseteq c.given THEN {} ELSE {"owns_meta"} \cup raw_flags(c, Meta(c.kind))

\* Mutant: a failing allocate_meta keeps its first block.
pool_blocks_KeepsMeta(c, flags) ==
    LET blocks == [b \in Blocks(c.kind) |-> alloc_raw(c, b)] IN
    IF blocks["storage"] = "null" THEN Refused({}, {})
    ELSE IF \E b \in Meta(c.kind) : blocks[b] = "null"
    THEN Refused(flags, {b \in DOMAIN blocks : blocks[b] = "heap"})
    ELSE Opened(blocks, flags \cup meta_flags(c)
                        \cup (IF "storage" \in c.given THEN c.flags \cap {"owns"} ELSE {}))

\* A failing allocate_meta frees its own first block; the release_storage that
\* follows asks the core, which has no storage yet.
pool_blocks(c, flags) ==
    LET blocks == [b \in Blocks(c.kind) |-> alloc_raw(c, b)] IN
    IF blocks["storage"] = "null" THEN Refused({}, {})
    ELSE IF \E b \in Meta(c.kind) : blocks[b] = "null"
    THEN Refused(flags, {b \in {"storage"} : blocks[b] = "heap"})
    ELSE Opened(blocks, flags \cup meta_flags(c)
                        \cup (IF "storage" \in c.given THEN c.flags \cap {"owns"} ELSE {}))

objpool_init(c) == pool_blocks(c, storage_flags(c))
handle_pool_init(c) == pool_blocks(c, handle_storage_flags(c))

\* release_storage and release_meta of either pool.
pool_release(kind, blocks, flags) ==
    (IF {"owns", "dynamic"} \subseteq flags
     THEN {b \in {"storage"} : blocks[b] # "null"} ELSE {})
    \cup (IF {"owns_meta", "dynamic"} \subseteq flags
          THEN {b \in Meta(kind) : blocks[b] # "null"} ELSE {})
-----------------------------------------------------------------------------
(***************************************************************************)
(* The life of an object                                                   *)
(***************************************************************************)

\* validate_config of the boxes, for sizes that are large enough.
validate_config(c) ==
    CASE c.kind \in {"list", "btree"} -> validate_nodes(c)
      [] c.kind = "lru"               -> validate_lru(c)
      [] c.kind = "objpool"           -> validate_objpool(c)
      [] c.kind = "handle_pool"       -> validate_handle_pool(c)
      [] OTHER                        -> validate_element(c)

box_init(c) ==
    CASE c.kind = "vector"  -> element_init(c)
      [] c.kind = "pqueue"  -> pqueue_init(c)
      [] c.kind = "list"    -> list_init(c)
      [] c.kind = "btree"   -> btree_init(c)
      [] c.kind = "hashmap" -> hashmap_init(c)
      [] c.kind = "lru"     -> lru_init(c)
      [] c.kind = "objpool" -> objpool_init(c)
      [] c.kind = "handle_pool" -> handle_pool_init(c)

\* What deinit of the box passes to free.
box_release(kind, blocks, flags) ==
    CASE kind = "vector"            -> release_element_storage(blocks, flags)
      [] kind = "pqueue"            -> pqueue_release_storage(blocks, flags)
      [] kind \in {"list", "btree"} -> release_node_pool(blocks, flags)
      [] kind = "hashmap"           -> release_bucket_storage(blocks, flags)
      [] kind = "lru"               -> lru_release_storage(blocks, flags)
      [] OTHER                      -> pool_release(kind, blocks, flags)

Init ==
    /\ place = "none" /\ phase = "raw"
    /\ config \in UNION {Configs(k) : k \in Kinds}
    /\ c_flags = {} /\ core = Empty /\ heap = {} /\ misfreed = {}

\* XXX_init on an object of the caller; the object starts as zero bytes.
XxxInit ==
    /\ place = "none" /\ phase = "raw" /\ validate_config(config)
    /\ LET done == box_init(config) IN
       /\ place' = "static" /\ phase' = IF done.ok THEN "open" ELSE "failed"
       /\ c_flags' = done.flags /\ core' = done.core
       /\ heap' = done.left \cup (IF done.ok THEN handed_over(config) ELSE {})
    /\ UNCHANGED <<config, misfreed>>

\* owned_create_config_flags.
owned_create_config_flags(flags, arena) ==
    flags \cup {"owns"} \cup (IF arena THEN {"arena"} ELSE {"dynamic"})

\* allocate_object.
allocate_object(c) == IF c.oom = "self" THEN "null" ELSE IF c.arena THEN "arena" ELSE "heap"

\* XXX_create: the object, an init without blocks of the caller (nor a node
\* capacity), and release_uninitialized_object if that fails.
Create ==
    LET c == [config EXCEPT !.flags = owned_create_config_flags(@, config.arena)]
        object == allocate_object(c)
        done == IF object # "null" /\ validate_config(c) THEN box_init(c) ELSE Refused({}, {}) IN
    /\ place = "none" /\ phase = "raw"
    /\ config.given = {} /\ (config.kind \in {"list", "btree"} => ~config.count)
    /\ place' = IF done.ok THEN object ELSE "none"
    /\ phase' = IF done.ok THEN "open" ELSE "failed"
    /\ c_flags' = done.flags \cup (IF done.ok THEN {"owns_self"} ELSE {})
    /\ core' = done.core
    /\ heap' = done.left \cup (IF done.ok THEN {b \in {"self"} : object = "heap"} ELSE {})
    /\ UNCHANGED <<config, misfreed>>

Free(blocks) ==
    /\ heap' = heap \ blocks
    /\ misfreed' = misfreed \cup (blocks \ heap)

\* Mutant: deinit leaves the flags and the blocks in the box.
Deinit_KeepsState ==
    /\ place = "static" /\ phase' = (IF phase = "open" THEN "closed" ELSE phase)
    /\ Free(box_release(config.kind, core, c_flags))
    /\ UNCHANGED <<place, config, c_flags, core>>

\* XXX_deinit, also on an object that is closed or whose init failed: the flags
\* and the core are reset.
Deinit ==
    /\ place = "static" /\ phase' = (IF phase = "open" THEN "closed" ELSE phase)
    /\ Free(box_release(config.kind, core, c_flags))
    /\ c_flags' = {} /\ core' = Empty
    /\ UNCHANGED <<place, config>>

\* XXX_destroy: deinit, then free the object if its flags were owns_self and dynamic.
Destroy ==
    /\ place \in {"heap", "arena"} /\ phase = "open" /\ phase' = "closed"
    /\ Free(box_release(config.kind, core, c_flags)
            \cup (IF {"owns_self", "dynamic"} \subseteq c_flags THEN {"self"} ELSE {}))
    /\ c_flags' = {} /\ core' = Empty
    /\ UNCHANGED <<place, config>>

Next == XxxInit \/ Create \/ Deinit \/ Destroy

Spec == Init /\ [][Next]_vars
-----------------------------------------------------------------------------
(***************************************************************************)
(* Properties                                                              *)
(***************************************************************************)

Over == phase \in {"failed", "closed"}
Malloced == IF config.arena THEN {} ELSE Blocks(config.kind) \ config.given
SeveralBlocks == {"lru", "objpool", "handle_pool"}

\* init failed on its second or third block and dropped the first one.
LosesFirstBlock ==
    phase = "failed" /\ \E b \in {"storage", "entry_pool"} \cap Malloced :
                            config.oom \in Blocks(config.kind) \ {b}

\* create allocated the object of a list or tree with malloc, and init dropped the
\* dynamic flag by which destroy would know.
LosesObject == place = "heap" /\ config.kind \in {"list", "btree"}

\* The caller's malloc block was handed over, and nothing else was allocated with
\* malloc, so the dynamic flag is gone.
LosesHandedOver ==
    /\ place = "static" /\ phase = "closed" /\ handed_over(config) # {}
    /\ config.kind \in SeveralBlocks => Malloced = {}

\* The box called malloc for a configuration without the dynamic flag.
LosesUnflagged ==
    /\ place = "static" /\ phase = "closed" /\ config.kind \in SeveralBlocks
    /\ Malloced # {} /\ "dynamic" \notin config.flags

\* After deinit, destroy or a failed init, every malloc block has been freed,
\* except in exactly four circumstances.
NothingLost ==
    Over => (heap # {} <=> LosesFirstBlock \/ LosesObject \/ LosesHandedOver \/ LosesUnflagged)

\* Two flags for two or three blocks: when some come from the caller and others
\* from malloc, the caller's are freed with them.
MixedOrigins ==
    /\ place = "static" /\ config.kind \in SeveralBlocks
    /\ Malloced # {} /\ "dynamic" \in config.flags
    /\ \/ Meta(config.kind) \cap config.given # {} /\ Meta(config.kind) \cap Malloced # {}
       \/ "entry_pool" \in config.given /\ "owns" \notin config.flags

\* Nothing is freed that malloc did not return, and nothing twice, unless the
\* blocks of an LRU cache or a pool have mixed origins (lrucache_box.hpp:343,
\* objpool_box.hpp:331, handle_pool_box.hpp:326).
FreesOnlyItsOwn == misfreed # {} <=> phase = "closed" /\ MixedOrigins
=============================================================================
