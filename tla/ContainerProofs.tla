--------------------------- MODULE ContainerProofs ---------------------------
(***************************************************************************)
(* Proofs about the containers that own blocks, for every set of           *)
(* containers and every configuration of each.  In the C API, what one     *)
(* init and one deinit do to the blocks is proved for an arbitrary         *)
(* configuration c of each box; the life of an object then only combines   *)
(* the two.  A hash map and an array also replace their block while they   *)
(* are open: they follow, then the vector as a sequence, the priority      *)
(* queue as one, and the hash map as a map, under open addressing and      *)
(* under separate chaining.                                                *)
(***************************************************************************)
EXTENDS Ownership, HashMap, Arrays, ModArith, SequenceTheorems, FiniteSetTheorems, TLAPS

\* The circumstances of the properties, by the configuration alone.
MallocedBy(c) == IF c.arena THEN {} ELSE Blocks(c.kind) \ c.given
FirstLost(c) == \E b \in {"storage", "entry_pool"} \cap MallocedBy(c) : c.oom \in Blocks(c.kind) \ {b}
HandedLost(c) == handed_over(c) # {} /\ (c.kind \in SeveralBlocks => MallocedBy(c) = {})
UnflaggedLost(c) == c.kind \in SeveralBlocks /\ MallocedBy(c) # {} /\ "dynamic" \notin c.flags
Mixed(c) ==
    /\ c.kind \in SeveralBlocks /\ MallocedBy(c) # {} /\ "dynamic" \in c.flags
    /\ \/ Meta(c.kind) \cap c.given # {} /\ Meta(c.kind) \cap MallocedBy(c) # {}
       \/ "entry_pool" \in c.given /\ "owns" \notin c.flags

\* The malloc blocks an object of the caller holds after init, and what deinit frees.
Held(c) == box_init(c).left \cup handed_over(c)
Released(c) == box_release(c.kind, box_init(c).core, box_init(c).flags)

\* What init followed by deinit leaves behind, and frees without owning it.
Right(c) ==
    IF box_init(c).ok
    THEN /\ Held(c) \ Released(c) # {} <=> HandedLost(c) \/ UnflaggedLost(c)
         /\ Released(c) \ Held(c) # {} <=> Mixed(c)
    ELSE box_init(c).core = Empty /\ (box_init(c).left # {} <=> FirstLost(c))

\* What an init leaves that has succeeded.
LEMMA OpenedIs ==
    ASSUME NEW blocks, NEW flags, NEW d, d = Opened(blocks, flags)
    PROVE  /\ d.ok /\ d.flags = flags
           /\ d.left = {b \in DOMAIN blocks : blocks[b] = "heap"}
           /\ d.core = [b \in AllBlocks |-> IF b \in DOMAIN blocks THEN blocks[b] ELSE "null"]
BY DEF Opened

\* A failed init leaves no blocks in the core.
LEMMA RefusedIs ==
    ASSUME NEW flags, NEW left, NEW d, d = Refused(flags, left)
    PROVE  ~d.ok /\ d.flags = flags /\ d.left = left /\ d.core = Empty
BY DEF Refused

\* One block, from the origin o.
LEMMA OpenedOne ==
    ASSUME NEW o, NEW flags, NEW d, d = Opened([b \in {"storage"} |-> o], flags)
    PROVE  /\ d.ok /\ d.flags = flags /\ d.core["storage"] = o
           /\ o = "heap" => d.left = {"storage"}
           /\ o # "heap" => d.left = {}
<1>1. PICK f : f = [b \in {"storage"} |-> o]
    OBVIOUS
<1>2. DOMAIN f = {"storage"} /\ f["storage"] = o
    BY <1>1
<1>3. d = Opened(f, flags)
    BY <1>1
<1>4. d.ok /\ d.flags = flags /\ d.left = {b \in DOMAIN f : f[b] = "heap"}
      /\ d.core = [b \in AllBlocks |-> IF b \in DOMAIN f THEN f[b] ELSE "null"]
    BY <1>3 DEF Opened
<1>. QED  BY <1>2, <1>4 DEF AllBlocks

\* A container of one block that could not be allocated.
LEMMA RefusedOne ==
    ASSUME NEW c, Blocks(c.kind) = {"storage"}, box_init(c) = Refused({}, {})
    PROVE  Right(c)
<1>1. ~FirstLost(c)
    BY DEF FirstLost, MallocedBy
<1>2. ~box_init(c).ok /\ box_init(c).left = {} /\ box_init(c).core = Empty
    BY RefusedIs
<1>. QED  BY <1>1, <1>2 DEF Right

\* A container of one block of the caller that the box will not free.
LEMMA CallerOne ==
    ASSUME NEW c, c.kind \notin SeveralBlocks, box_init(c).ok, box_init(c).left = {}, Released(c) = {}
    PROVE  Right(c)
BY DEF Right, Held, HandedLost, UnflaggedLost, Mixed

\* A container that frees exactly what it allocated.
LEMMA ExactOne ==
    ASSUME NEW c, c.kind \notin SeveralBlocks, c.given = {}, box_init(c).ok, Released(c) = box_init(c).left
    PROVE  Right(c)
<1>1. handed_over(c) = {}
    BY DEF handed_over
<1>. QED  BY <1>1 DEF Right, Held, HandedLost, UnflaggedLost, Mixed

\* Storage is allocated only when the caller brings none.
LEMMA Origins ==
    ASSUME NEW c
    PROVE  /\ allocate_element_storage(c) \in {"caller", "null", "arena", "heap"}
           /\ allocate_element_storage(c) \in {"arena", "heap"} => c.given = {}
           /\ allocate_bucket_storage(c) \in {"caller", "null", "arena", "heap"}
           /\ allocate_bucket_storage(c) \in {"arena", "heap"} => c.given = {}
<1>1. allocate_element_storage(c) \in {"caller", "null", "arena", "heap"}
    BY DEF allocate_element_storage
<1>2. allocate_bucket_storage(c) \in {"caller", "null", "arena", "heap"}
    BY DEF allocate_bucket_storage
<1>3. c.given # {} => allocate_element_storage(c) = "caller" /\ allocate_bucket_storage(c) = "caller"
    BY DEF allocate_element_storage, allocate_bucket_storage
<1>. QED  BY <1>1, <1>2, <1>3

\* vector_box and pqueue_box.
LEMMA ElementRight ==
    ASSUME NEW c, c.kind \in {"vector", "pqueue"}
    PROVE  Right(c)
<1>1. c.kind \notin SeveralBlocks /\ Blocks(c.kind) = {"storage"}
    BY DEF SeveralBlocks, Blocks
<1>2. PICK o \in {"caller", "null", "arena", "heap"} : o = allocate_element_storage(c)
    BY Origins
<1>3. box_init(c) = element_init(c)
    BY DEF box_init, pqueue_init
<1>4. CASE o = "null"
    <2>1. box_init(c) = Refused({}, {})
        BY <1>2, <1>3, <1>4 DEF element_init
    <2>. QED  BY <1>1, <2>1, RefusedOne
<1>5. CASE o # "null"
    <2>1. PICK flags : /\ flags = origin_flags(o) \cup (IF o = "caller" THEN c.flags \cap {"owns"} ELSE {})
                       /\ box_init(c) = Opened([b \in {"storage"} |-> o], flags)
        BY <1>2, <1>3, <1>5 DEF element_init
    <2>2. PICK d : d = box_init(c)
        OBVIOUS
    <2>3. /\ d.ok /\ d.flags = flags /\ d.core["storage"] = o
          /\ o = "heap" => d.left = {"storage"}
          /\ o # "heap" => d.left = {}
        BY <2>1, <2>2, OpenedOne
    <2>4. Released(c) = IF o = "heap" THEN {"storage"} ELSE {}
        BY <1>2, <1>5, <2>1, <2>2, <2>3 DEF Released, box_release, release_element_storage,
           pqueue_release_storage, origin_flags
    <2>5. CASE o = "caller"
        BY <1>1, <2>2, <2>3, <2>4, <2>5, CallerOne
    <2>6. CASE o # "caller"
        BY <1>1, <1>2, <1>5, <2>2, <2>3, <2>4, <2>6, ExactOne, Origins
    <2>. QED  BY <2>5, <2>6
<1>. QED  BY <1>4, <1>5

\* list_box, dlist_box and btree_box.
LEMMA NodesRight ==
    ASSUME NEW c, c.kind \in {"list", "btree"}
    PROVE  Right(c)
<1>1. c.kind \notin SeveralBlocks /\ Blocks(c.kind) = {"storage"}
    BY DEF SeveralBlocks, Blocks
<1>2. Released(c) = release_node_pool(box_init(c).core, box_init(c).flags)
    BY DEF Released, box_release
<1>3. CASE c.given = {} /\ ~c.fixed
    <2>1. PICK flags : box_init(c) = Opened(<<>>, flags)
        BY <1>3 DEF box_init, list_init, btree_init
    <2>2. PICK d : d = box_init(c)
        OBVIOUS
    <2>3. d.ok /\ d.left = {} /\ d.core["storage"] = "null"
        BY <2>1, <2>2 DEF Opened, AllBlocks
    <2>4. Released(c) = {}
        BY <1>2, <2>2, <2>3 DEF release_node_pool
    <2>. QED  BY <1>1, <2>2, <2>3, <2>4, CallerOne
<1>4. CASE ~(c.given = {} /\ ~c.fixed)
    <2>1. PICK o : o = allocate_node_pool(c)
        OBVIOUS
    <2>2. o \in {"caller", "null", "arena", "heap"} /\ (o \in {"arena", "heap"} => c.given = {})
        BY <2>1, Origins DEF allocate_node_pool
    <2>3. box_init(c) = list_init(c)
        BY <1>4 DEF box_init, btree_init
    <2>4. CASE o = "null"
        BY <1>1, <1>4, <2>1, <2>3, <2>4, RefusedOne DEF list_init
    <2>5. CASE o # "null"
        <3>1. PICK flags : /\ flags = origin_flags(o) \cup (IF o = "caller" THEN c.flags \cap {"owns"} ELSE {})
                           /\ box_init(c) = Opened([b \in {"storage"} |-> o], flags)
            BY <1>4, <2>1, <2>3, <2>5 DEF list_init
        <3>2. PICK d : d = box_init(c)
            OBVIOUS
        <3>3. /\ d.ok /\ d.flags = flags /\ d.core["storage"] = o
              /\ o = "heap" => d.left = {"storage"}
              /\ o # "heap" => d.left = {}
            BY <3>1, <3>2, OpenedOne
        <3>4. Released(c) = IF o = "heap" THEN {"storage"} ELSE {}
            BY <1>2, <2>2, <2>5, <3>1, <3>2, <3>3, SMTT(20) DEF release_node_pool, origin_flags
        <3>5. CASE o = "caller"
            BY <1>1, <3>2, <3>3, <3>4, <3>5, CallerOne
        <3>6. CASE o # "caller"
            BY <1>1, <2>2, <2>5, <3>2, <3>3, <3>4, <3>6, ExactOne
        <3>. QED  BY <3>5, <3>6
    <2>. QED  BY <2>4, <2>5
<1>. QED  BY <1>3, <1>4

\* hashmap_box.
LEMMA BucketsRight ==
    ASSUME NEW c, c.kind = "hashmap"
    PROVE  Right(c)
<1>1. c.kind \notin SeveralBlocks /\ Blocks(c.kind) = {"storage"}
    BY DEF SeveralBlocks, Blocks
<1>2. PICK o \in {"caller", "null", "arena", "heap"} : o = allocate_bucket_storage(c)
    BY Origins
<1>3. box_init(c) = hashmap_init(c)
    BY DEF box_init
<1>4. CASE o = "null"
    BY <1>1, <1>2, <1>3, <1>4, RefusedOne DEF hashmap_init
<1>5. CASE o # "null"
    <2>1. PICK flags : /\ flags = origin_flags(o) \cup (IF o = "caller" THEN c.flags \cap {"owns"} ELSE {})
                       /\ box_init(c) = Opened([b \in {"storage"} |-> o], flags)
        BY <1>2, <1>3, <1>5 DEF hashmap_init
    <2>2. PICK d : d = box_init(c)
        OBVIOUS
    <2>3. /\ d.ok /\ d.flags = flags /\ d.core["storage"] = o
          /\ o = "heap" => d.left = {"storage"}
          /\ o # "heap" => d.left = {}
        BY <2>1, <2>2, OpenedOne
    <2>4. Released(c) = IF o = "heap" THEN {"storage"} ELSE {}
        BY <1>2, <1>5, <2>1, <2>2, <2>3 DEF Released, box_release, release_bucket_storage, origin_flags
    <2>5. CASE o = "caller"
        BY <1>1, <2>2, <2>3, <2>4, <2>5, CallerOne
    <2>6. CASE o # "caller"
        BY <1>1, <1>2, <1>5, <2>2, <2>3, <2>4, <2>6, ExactOne, Origins
    <2>. QED  BY <2>5, <2>6
<1>. QED  BY <1>4, <1>5
-----------------------------------------------------------------------------
(***************************************************************************)
(* Containers of two or three blocks                                       *)
(***************************************************************************)

\* alloc_raw takes the block from malloc exactly when nobody else provides it.
LEMMA RawOrigin ==
    ASSUME NEW c, c.arena \in BOOLEAN, NEW b
    PROVE  /\ alloc_raw(c, b) = "null" <=> b \notin c.given /\ c.oom = b
           /\ alloc_raw(c, b) = "heap" <=> b \notin c.given /\ c.oom # b /\ ~c.arena
           /\ alloc_raw(c, b) \in {"caller", "null", "arena", "heap"}
           /\ alloc_raw(c, b) = "caller" <=> b \in c.given
BY DEF alloc_raw

\* A container of several blocks, all of them at hand.
LEMMA OpenedSeveral ==
    ASSUME NEW c, c.arena \in BOOLEAN, NEW flags, NEW blocks,
           blocks = [b \in Blocks(c.kind) |-> alloc_raw(c, b)],
           \A b \in Blocks(c.kind) : blocks[b] # "null", Blocks(c.kind) \subseteq AllBlocks,
           NEW d, d = Opened(blocks, flags)
    PROVE  /\ d.ok /\ d.flags = flags /\ d.left = MallocedBy(c)
           /\ \A b \in Blocks(c.kind) : d.core[b] = alloc_raw(c, b) /\ d.core[b] # "null"
<1>1. DOMAIN blocks = Blocks(c.kind) /\ \A b \in Blocks(c.kind) : blocks[b] = alloc_raw(c, b)
    OBVIOUS
<1>2. /\ d.ok /\ d.flags = flags /\ d.left = {b \in DOMAIN blocks : blocks[b] = "heap"}
      /\ d.core = [b \in AllBlocks |-> IF b \in DOMAIN blocks THEN blocks[b] ELSE "null"]
    BY DEF Opened
<1>3. {b \in Blocks(c.kind) : alloc_raw(c, b) = "heap"} = MallocedBy(c)
    <2>1. ASSUME NEW b \in Blocks(c.kind) PROVE alloc_raw(c, b) = "heap" <=> b \in MallocedBy(c)
        <3>1. ~(b \notin c.given /\ c.oom = b)
            BY <1>1, RawOrigin
        <3>. QED  BY <3>1, RawOrigin DEF MallocedBy
    <2>2. MallocedBy(c) \subseteq Blocks(c.kind)
        BY DEF MallocedBy
    <2>. QED  BY <2>1, <2>2
<1>4. d.left = MallocedBy(c)
    BY <1>1, <1>2, <1>3
<1>. QED  BY <1>1, <1>2, <1>4

\* What is left and what is misfreed, by where the blocks came from.
LEMMA SeveralRight ==
    ASSUME NEW c, c.kind \in SeveralBlocks, c.arena \in BOOLEAN, box_init(c).ok, box_init(c).left = MallocedBy(c),
           MallocedBy(c) = {} \/ "dynamic" \notin c.flags => Released(c) = {},
           MallocedBy(c) # {} /\ "dynamic" \in c.flags =>
               /\ Held(c) \subseteq Released(c)
               /\ Released(c) \ Held(c) # {} <=> Mixed(c)
    PROVE  Right(c)
<1>1. Held(c) = MallocedBy(c) \cup handed_over(c)
    BY DEF Held
<1>2. CASE MallocedBy(c) = {}
    BY <1>1, <1>2 DEF Right, HandedLost, UnflaggedLost, Mixed
<1>3. CASE MallocedBy(c) # {} /\ "dynamic" \notin c.flags
    BY <1>1, <1>3 DEF Right, HandedLost, UnflaggedLost, Mixed
<1>4. CASE MallocedBy(c) # {} /\ "dynamic" \in c.flags
    BY <1>4 DEF Right, HandedLost, UnflaggedLost
<1>. QED  BY <1>2, <1>3, <1>4

\* lrucache_box.
LEMMA LruRight ==
    ASSUME NEW c \in Configs("lru")
    PROVE  Right(c)
<1>1. /\ c.kind = "lru" /\ c.arena \in BOOLEAN /\ c.given \subseteq {"entry_pool", "buckets"}
      /\ Blocks(c.kind) = {"entry_pool", "buckets"} /\ c.kind \in SeveralBlocks
    BY DEF Configs, Blocks, SeveralBlocks
<1>2. PICK blocks : blocks = [b \in {"entry_pool", "buckets"} |-> alloc_raw(c, b)]
    OBVIOUS
<1>3. /\ DOMAIN blocks = {"entry_pool", "buckets"}
      /\ blocks["entry_pool"] = alloc_raw(c, "entry_pool")
      /\ blocks["buckets"] = alloc_raw(c, "buckets")
    BY <1>2
<1>4. PICK d : d = box_init(c)
    OBVIOUS
<1>5. d = lru_init(c)
    BY <1>1, <1>4 DEF box_init
<1>6. CASE blocks["entry_pool"] = "null"
    <2>1. d = Refused({}, {})
        BY <1>2, <1>5, <1>6, <1>3 DEF lru_init
    <2>2. ~FirstLost(c)
        BY <1>1, <1>2, <1>6, <1>3, RawOrigin DEF FirstLost, MallocedBy
    <2>. QED  BY <1>4, <2>1, <2>2, RefusedIs DEF Right
<1>7. CASE blocks["entry_pool"] # "null" /\ blocks["buckets"] = "null"
    <2>1. PICK flags : d = Refused(flags, {b \in {"entry_pool"} : blocks[b] = "heap"})
        BY <1>2, <1>5, <1>7, <1>3 DEF lru_init
    <2>2. FirstLost(c) <=> blocks["entry_pool"] = "heap"
        BY <1>1, <1>2, <1>7, <1>3, RawOrigin DEF FirstLost, MallocedBy
    <2>. QED  BY <1>4, <2>1, <2>2, RefusedIs DEF Right
<1>8. CASE blocks["entry_pool"] # "null" /\ blocks["buckets"] # "null"
    <2>1. PICK flags :
              /\ flags = raw_flags(c, {"entry_pool", "buckets"})
                         \cup (IF c.given # {"entry_pool", "buckets"} \/ "owns" \in c.flags THEN {"owns"} ELSE {})
              /\ d = Opened(blocks, flags)
        BY <1>2, <1>5, <1>8, <1>3 DEF lru_init
    <2>2. /\ d.ok /\ d.flags = flags /\ d.left = MallocedBy(c)
          /\ \A b \in Blocks(c.kind) : d.core[b] = alloc_raw(c, b) /\ d.core[b] # "null"
        BY <1>1, <1>2, <1>8, <1>3, <2>1, OpenedSeveral DEF AllBlocks
    <2>3. Released(c) = lru_release_storage(d.core, flags)
        BY <1>1, <1>4, <2>2 DEF Released, box_release
    <2>4. "dynamic" \in flags <=> MallocedBy(c) # {} /\ "dynamic" \in c.flags
        BY <1>1, <2>1 DEF raw_flags, MallocedBy
    <2>5. "owns" \in flags <=>
              \/ MallocedBy(c) # {}
              \/ c.arena /\ c.given # {"entry_pool", "buckets"}
              \/ "owns" \in c.flags
        BY <1>1, <2>1 DEF raw_flags, MallocedBy
    <2>6. MallocedBy(c) = {} \/ "dynamic" \notin c.flags => Released(c) = {}
        BY <2>3, <2>4 DEF lru_release_storage
    <2>7. ASSUME MallocedBy(c) # {} /\ "dynamic" \in c.flags
          PROVE  Held(c) \subseteq Released(c) /\ (Released(c) \ Held(c) # {} <=> Mixed(c))
        <3>1. ~c.arena /\ MallocedBy(c) = {"entry_pool", "buckets"} \ c.given
            BY <1>1, <2>7 DEF MallocedBy
        <3>2. Released(c) = {"entry_pool"} \cup {b \in {"buckets"} : b \notin c.given}
            BY <1>1, <2>2, <2>3, <2>4, <2>5, <2>7, <3>1, RawOrigin DEF lru_release_storage
        <3>3. Held(c) = ({"entry_pool", "buckets"} \ c.given)
                        \cup (IF "owns" \in c.flags THEN c.given \cap {"entry_pool"} ELSE {})
            BY <1>1, <1>4, <2>2, <2>7, <3>1 DEF Held, handed_over
        <3>4. Meta(c.kind) = {}
            BY <1>1 DEF Meta
        <3>5. Mixed(c) <=> "entry_pool" \in c.given /\ "owns" \notin c.flags
            BY <1>1, <2>7, <3>4 DEF Mixed
        <3>. QED  BY <1>1, <3>1, <3>2, <3>3, <3>5
    <2>. QED  BY <1>1, <1>4, <2>2, <2>6, <2>7, SeveralRight
<1>. QED  BY <1>6, <1>7, <1>8

\* The flags of a pool: dynamic says that some block came from malloc and the
\* configuration was dynamic, owns_meta that some block beside the storage was allocated.
LEMMA PoolFlags ==
    ASSUME NEW c, c.arena \in BOOLEAN, c.flags \subseteq Flags, c.kind \in {"objpool", "handle_pool"},
           NEW own \in {storage_flags(c), handle_storage_flags(c)}, NEW flags,
           flags = own \cup meta_flags(c) \cup (IF "storage" \in c.given THEN c.flags \cap {"owns"} ELSE {})
    PROVE  /\ "dynamic" \in flags <=> MallocedBy(c) # {} /\ "dynamic" \in c.flags
           /\ "owns_meta" \in flags <=> ~(Meta(c.kind) \subseteq c.given)
           /\ "dynamic" \in flags =>
                  ("owns" \in flags <=> "storage" \notin c.given \/ "owns" \in c.flags)
<1>1. Blocks(c.kind) = {"storage"} \cup Meta(c.kind) /\ "storage" \notin Meta(c.kind)
    BY DEF Blocks, Meta
<1>2. MallocedBy(c) # {} <=> ~c.arena /\ ("storage" \notin c.given \/ ~(Meta(c.kind) \subseteq c.given))
    BY <1>1 DEF MallocedBy
<1>3. "owns_meta" \notin c.flags /\ "owns_meta" \notin own
    BY DEF storage_flags, handle_storage_flags, raw_flags, Flags
<1>4. "dynamic" \in own <=> "storage" \notin c.given /\ ~c.arena /\ "dynamic" \in c.flags
    BY DEF storage_flags, handle_storage_flags, raw_flags
<1>5. "dynamic" \in meta_flags(c) <=> ~(Meta(c.kind) \subseteq c.given) /\ ~c.arena /\ "dynamic" \in c.flags
    BY DEF meta_flags, raw_flags
<1>6. "owns_meta" \in meta_flags(c) <=> ~(Meta(c.kind) \subseteq c.given)
    BY DEF meta_flags, raw_flags
<1>7. "owns" \notin meta_flags(c)
    BY DEF meta_flags, raw_flags
<1>8. ~c.arena /\ "dynamic" \in c.flags => ("owns" \in own <=> "storage" \notin c.given)
    BY DEF storage_flags, handle_storage_flags, raw_flags
<1>. QED  BY <1>2, <1>3, <1>4, <1>5, <1>6, <1>7, <1>8

\* objpool_box and handle_pool_box.
LEMMA PoolRight ==
    ASSUME NEW box \in {"objpool", "handle_pool"}, NEW c \in Configs(box)
    PROVE  Right(c)
<1>1. c.kind = box /\ c.arena \in BOOLEAN /\ c.flags \subseteq Flags /\ c.given \subseteq Blocks(box)
    BY DEF Configs
<1>2. /\ Blocks(box) = {"storage"} \cup Meta(box) /\ "storage" \notin Meta(box) /\ "entry_pool" \notin Blocks(box)
      /\ box \in SeveralBlocks /\ Blocks(box) \subseteq AllBlocks
    BY DEF Blocks, Meta, SeveralBlocks, AllBlocks
<1>3. PICK blocks : blocks = [b \in Blocks(box) |-> alloc_raw(c, b)]
    OBVIOUS
<1>4. DOMAIN blocks = Blocks(box) /\ \A b \in Blocks(box) : blocks[b] = alloc_raw(c, b)
    BY <1>3
<1>5. PICK d, own : d = box_init(c) /\ own \in {storage_flags(c), handle_storage_flags(c)}
                    /\ d = pool_blocks(c, own)
    BY <1>1 DEF box_init, objpool_init, handle_pool_init
<1>6. CASE blocks["storage"] = "null"
    <2>1. d = Refused({}, {})
        BY <1>1, <1>3, <1>5, <1>6 DEF pool_blocks
    <2>2. c.oom = "storage"
        BY <1>1, <1>2, <1>4, <1>6, RawOrigin
    <2>3. ~FirstLost(c)
        BY <1>1, <1>2, <2>2 DEF FirstLost, MallocedBy
    <2>. QED  BY <1>5, <2>1, <2>3, RefusedIs DEF Right
<1>7. CASE blocks["storage"] # "null" /\ \E b \in Meta(box) : blocks[b] = "null"
    <2>1. d = Refused(own, {b \in {"storage"} : blocks[b] = "heap"})
        BY <1>1, <1>3, <1>5, <1>7 DEF pool_blocks
    <2>2. c.oom \in Meta(box)
        BY <1>1, <1>2, <1>4, <1>7, RawOrigin
    <2>3. blocks["storage"] = "heap" <=> "storage" \notin c.given /\ ~c.arena
        BY <1>1, <1>2, <1>4, <1>7, RawOrigin
    <2>4. FirstLost(c) <=> blocks["storage"] = "heap"
        BY <1>1, <1>2, <2>2, <2>3 DEF FirstLost, MallocedBy
    <2>. QED  BY <1>5, <2>1, <2>4, RefusedIs DEF Right
<1>8. CASE \A b \in Blocks(box) : blocks[b] # "null"
    <2>1. PICK flags :
              /\ flags = own \cup meta_flags(c) \cup (IF "storage" \in c.given THEN c.flags \cap {"owns"} ELSE {})
              /\ d = Opened(blocks, flags)
        BY <1>1, <1>2, <1>3, <1>5, <1>8 DEF pool_blocks
    <2>2. /\ d.ok /\ d.flags = flags /\ d.left = MallocedBy(c)
          /\ \A b \in Blocks(c.kind) : d.core[b] = alloc_raw(c, b) /\ d.core[b] # "null"
        BY <1>1, <1>2, <1>3, <1>8, <2>1, OpenedSeveral, SMTT(20)
    <2>3. /\ "dynamic" \in flags <=> MallocedBy(c) # {} /\ "dynamic" \in c.flags
          /\ "owns_meta" \in flags <=> ~(Meta(box) \subseteq c.given)
          /\ "dynamic" \in flags => ("owns" \in flags <=> "storage" \notin c.given \/ "owns" \in c.flags)
        BY <1>1, <1>5, <2>1, PoolFlags
    <2>4. Released(c) = (IF {"owns", "dynamic"} \subseteq flags THEN {"storage"} ELSE {})
                        \cup (IF {"owns_meta", "dynamic"} \subseteq flags THEN Meta(box) ELSE {})
        <3>1. Released(c) = pool_release(box, d.core, flags)
            BY <1>1, <1>5, <2>2 DEF Released, box_release
        <3>. QED  BY <1>1, <1>2, <2>2, <3>1 DEF pool_release
    <2>5. MallocedBy(c) = {} \/ "dynamic" \notin c.flags => Released(c) = {}
        BY <2>3, <2>4
    <2>6. ASSUME MallocedBy(c) # {} /\ "dynamic" \in c.flags
          PROVE  Held(c) \subseteq Released(c) /\ (Released(c) \ Held(c) # {} <=> Mixed(c))
        <3>1. ~c.arena /\ MallocedBy(c) = ({"storage"} \cup Meta(box)) \ c.given
            BY <1>1, <1>2, <2>6 DEF MallocedBy
        <3>2. Released(c) = (IF "storage" \notin c.given \/ "owns" \in c.flags THEN {"storage"} ELSE {})
                            \cup (IF Meta(box) \subseteq c.given THEN {} ELSE Meta(box))
            BY <2>3, <2>4, <2>6
        <3>3. Held(c) = (({"storage"} \cup Meta(box)) \ c.given)
                        \cup (IF "owns" \in c.flags THEN c.given \cap {"storage"} ELSE {})
            BY <1>1, <1>2, <1>5, <2>2, <2>6, <3>1 DEF Held, handed_over
        <3>4. Mixed(c) <=> Meta(box) \cap c.given # {} /\ ~(Meta(box) \subseteq c.given)
            BY <1>1, <1>2, <2>6, <3>1 DEF Mixed
        <3>. QED  BY <1>2, <3>2, <3>3, <3>4
    <2>. QED  BY <1>1, <1>2, <1>5, <2>2, <2>5, <2>6, SeveralRight
<1>. QED  BY <1>2, <1>6, <1>7, <1>8

\* Every box, for every configuration of it.
LEMMA BoxRight ==
    ASSUME NEW k \in Kinds, NEW c \in Configs(k)
    PROVE  Right(c)
<1>1. k \in {"vector", "pqueue", "list", "btree", "hashmap", "lru", "objpool", "handle_pool"}
    BY KindsAssumption
<1>2. c.kind = k
    BY DEF Configs
<1>. QED  BY <1>1, <1>2, ElementRight, NodesRight, BucketsRight, LruRight, PoolRight
-----------------------------------------------------------------------------
(***************************************************************************)
(* create and destroy                                                      *)
(***************************************************************************)

\* The configuration XXX_create gives to init.
Owning(c) == [c EXCEPT !.flags = owned_create_config_flags(@, c.arena)]

\* What create may be called with.
Creatable(c) == c.given = {} /\ (c.kind \in {"list", "btree"} => ~c.count)

\* create only changes the flags of the configuration.
LEMMA OwningConfig ==
    ASSUME NEW k, NEW c \in Configs(k)
    PROVE  /\ Owning(c) \in Configs(k)
           /\ Owning(c).kind = c.kind /\ Owning(c).given = c.given /\ Owning(c).arena = c.arena
           /\ Owning(c).fixed = c.fixed /\ Owning(c).count = c.count /\ Owning(c).oom = c.oom
           /\ Owning(c).flags = owned_create_config_flags(c.flags, c.arena)
<1>1. c.flags \subseteq Flags
    BY DEF Configs
<1>2. owned_create_config_flags(c.flags, c.arena) \subseteq Flags
    BY <1>1 DEF owned_create_config_flags, Flags
<1>. QED  BY <1>2 DEF Owning, Configs

\* The configuration of a created object: no blocks of the caller, and the owns
\* flag with the arena or the dynamic one.
LEMMA OwningIs ==
    ASSUME NEW k, NEW c \in Configs(k), Creatable(c), NEW d, d = Owning(c)
    PROVE  /\ d \in Configs(k) /\ d.kind = k /\ d.arena \in BOOLEAN /\ d.arena = c.arena
           /\ d.given = {} /\ d.flags \subseteq Flags /\ "owns" \in d.flags
           /\ (~d.arena => "dynamic" \in d.flags) /\ (k \in {"list", "btree"} => ~d.count)
<1>1. d \in Configs(k) /\ d.arena = c.arena /\ d.given = {} /\ d.count = c.count
    BY OwningConfig DEF Creatable
<1>2. d.kind = k /\ c.kind = k /\ d.arena \in BOOLEAN /\ d.flags \subseteq Flags
    BY <1>1 DEF Configs
<1>3. d.flags = owned_create_config_flags(c.flags, c.arena)
    BY OwningConfig
<1>4. "owns" \in d.flags /\ (~d.arena => "dynamic" \in d.flags)
    BY <1>1, <1>3 DEF owned_create_config_flags
<1>5. k \in {"list", "btree"} => ~d.count
    BY <1>1, <1>2 DEF Creatable
<1>. QED  BY <1>1, <1>2, <1>4, <1>5

\* validate_config never refuses what create passes on.
LEMMA OwningValid ==
    ASSUME NEW k \in Kinds, NEW c \in Configs(k), Creatable(c)
    PROVE  validate_config(Owning(c))
<1>1. PICK d : d = Owning(c)
    OBVIOUS
<1>2. /\ "owns" \in d.flags /\ (d.arena \/ "dynamic" \in d.flags) /\ d.given = {}
    BY <1>1, OwningConfig DEF Creatable, owned_create_config_flags
<1>3. validate_element(d) /\ validate_nodes(d) /\ validate_lru(d) /\ validate_objpool(d) /\ validate_handle_pool(d)
    BY <1>2 DEF validate_element, validate_nodes, validate_lru, validate_objpool, validate_handle_pool
<1>. QED  BY <1>1, <1>3 DEF validate_config

\* The dynamic flag of a created object says that it is a malloc block, except for
\* lists and trees, whose init drops it.
LEMMA OwningFlags ==
    ASSUME NEW k \in Kinds, NEW c \in Configs(k), Creatable(c), box_init(Owning(c)).ok
    PROVE  /\ "dynamic" \in box_init(Owning(c)).flags <=> ~c.arena /\ k \notin {"list", "btree"}
           /\ k \in {"list", "btree"} => box_init(Owning(c)).left = {}
<1>1. PICK d, e : d = Owning(c) /\ e = box_init(d)
    OBVIOUS
<1>2. /\ d \in Configs(k) /\ d.kind = k /\ d.arena \in BOOLEAN /\ d.arena = c.arena /\ d.given = {} /\ d.flags \subseteq Flags
      /\ (~d.arena => "dynamic" \in d.flags) /\ (k \in {"list", "btree"} => ~d.count)
    BY <1>1, OwningIs
<1>3. e.ok
    BY <1>1
<1>4. ASSUME NEW o, NEW flags, e = Opened([b \in {"storage"} |-> o], flags),
             flags = origin_flags(o) \cup (IF o = "caller" THEN d.flags \cap {"owns"} ELSE {}),
             o = IF d.arena THEN "arena" ELSE "heap"
      PROVE  "dynamic" \in e.flags <=> ~d.arena
    <2>1. e.flags = flags
        BY <1>4, OpenedOne
    <2>. QED  BY <1>2, <1>4, <2>1 DEF origin_flags
<1>5. CASE k \in {"vector", "pqueue"}
    <2>1. e = element_init(d)
        BY <1>1, <1>2, <1>5 DEF box_init, pqueue_init
    <2>2. allocate_element_storage(d) # "null"
        BY <1>3, <2>1, RefusedIs DEF element_init
    <2>3. allocate_element_storage(d) = IF d.arena THEN "arena" ELSE "heap"
        BY <1>2, <2>2 DEF allocate_element_storage
    <2>4. PICK o : o = allocate_element_storage(d)
        OBVIOUS
    <2>5. PICK flags : flags = origin_flags(o) \cup (IF o = "caller" THEN d.flags \cap {"owns"} ELSE {})
        OBVIOUS
    <2>6. e = Opened([b \in {"storage"} |-> o], flags)
        BY <2>1, <2>2, <2>4, <2>5 DEF element_init
    <2>7. "dynamic" \in e.flags <=> ~d.arena
        BY <1>4, <2>3, <2>4, <2>5, <2>6
    <2>. QED  BY <1>1, <1>2, <1>5, <2>7
<1>6. CASE k \in {"list", "btree"}
    <2>1. CASE d.fixed
        <3>1. e = list_init(d)
            BY <1>1, <1>2, <1>6, <2>1 DEF box_init, btree_init
        <3>2. allocate_node_pool(d) = "null"
            BY <1>2, <1>6 DEF allocate_node_pool
        <3>3. ~e.ok
            BY <1>2, <2>1, <3>1, <3>2, RefusedIs DEF list_init
        <3>. QED  BY <1>3, <3>3
    <2>2. CASE ~d.fixed
        <3>1. PICK flags : flags \subseteq {"arena"} /\ e = Opened(<<>>, flags)
            BY <1>1, <1>2, <1>6, <2>2 DEF box_init, list_init, btree_init
        <3>2. e.flags = flags /\ e.left = {}
            BY <3>1 DEF Opened
        <3>. QED  BY <1>1, <1>6, <3>1, <3>2
    <2>. QED  BY <2>1, <2>2
<1>7. CASE k = "hashmap"
    <2>1. e = hashmap_init(d)
        BY <1>1, <1>2, <1>7 DEF box_init
    <2>2. allocate_bucket_storage(d) # "null"
        BY <1>3, <2>1, RefusedIs DEF hashmap_init
    <2>3. allocate_bucket_storage(d) = IF d.arena THEN "arena" ELSE "heap"
        BY <1>2, <2>2 DEF allocate_bucket_storage
    <2>4. PICK o : o = allocate_bucket_storage(d)
        OBVIOUS
    <2>5. PICK flags : flags = origin_flags(o) \cup (IF o = "caller" THEN d.flags \cap {"owns"} ELSE {})
        OBVIOUS
    <2>6. e = Opened([b \in {"storage"} |-> o], flags)
        BY <2>1, <2>2, <2>4, <2>5 DEF hashmap_init
    <2>7. "dynamic" \in e.flags <=> ~d.arena
        BY <1>4, <2>3, <2>4, <2>5, <2>6
    <2>. QED  BY <1>1, <1>2, <1>7, <2>7
<1>8. CASE k = "lru"
    <2>1. e = lru_init(d)
        BY <1>1, <1>2, <1>8 DEF box_init
    <2>2. PICK blocks : blocks = [b \in {"entry_pool", "buckets"} |-> alloc_raw(d, b)]
        OBVIOUS
    <2>3. \A f, l : e # Refused(f, l)
        BY <1>3, RefusedIs
    <2>4. PICK flags : flags = raw_flags(d, DOMAIN blocks)
                              \cup (IF d.given # DOMAIN blocks \/ "owns" \in d.flags THEN {"owns"} ELSE {})
        OBVIOUS
    <2>5. e = Opened(blocks, flags)
        BY <2>1, <2>2, <2>3, <2>4 DEF lru_init
    <2>6. e.flags = flags /\ DOMAIN blocks = {"entry_pool", "buckets"}
        BY <2>2, <2>5 DEF Opened
    <2>. QED  BY <1>1, <1>2, <1>8, <2>4, <2>6 DEF raw_flags
<1>9. CASE k \in {"objpool", "handle_pool"}
    <2>1. PICK own : own \in {storage_flags(d), handle_storage_flags(d)} /\ e = pool_blocks(d, own)
        BY <1>1, <1>2, <1>9 DEF box_init, objpool_init, handle_pool_init
    <2>2. PICK flags, blocks :
              /\ flags = own \cup meta_flags(d) \cup (IF "storage" \in d.given THEN d.flags \cap {"owns"} ELSE {})
              /\ e = Opened(blocks, flags)
        BY <1>3, <2>1, RefusedIs DEF pool_blocks
    <2>3. e.flags = flags
        BY <2>2 DEF Opened
    <2>4. "dynamic" \in flags <=> MallocedBy(d) # {} /\ "dynamic" \in d.flags
        BY <1>2, <1>9, <2>1, <2>2, PoolFlags
    <2>5. MallocedBy(d) # {} <=> ~d.arena
        BY <1>2, <1>9 DEF MallocedBy, Blocks
    <2>. QED  BY <1>1, <1>2, <1>9, <2>3, <2>4, <2>5
<1>. QED  BY <1>5, <1>6, <1>7, <1>8, <1>9, KindsAssumption

\* What create allocated with malloc, destroy gives back; only the object of a list
\* or tree stays.
LEMMA CreateRight ==
    ASSUME NEW k \in Kinds, NEW c \in Configs(k), Creatable(c)
    PROVE  IF box_init(Owning(c)).ok THEN Released(Owning(c)) = box_init(Owning(c)).left
           ELSE box_init(Owning(c)).core = Empty /\ (box_init(Owning(c)).left # {} <=> FirstLost(c))
<1>1. PICK d : d = Owning(c)
    OBVIOUS
<1>2. /\ d \in Configs(k) /\ d.kind = c.kind /\ d.arena \in BOOLEAN /\ d.arena = c.arena /\ d.given = {} /\ c.given = {}
      /\ (~d.arena => "dynamic" \in d.flags) /\ d.oom = c.oom
    BY <1>1, OwningIs, OwningConfig DEF Creatable
<1>3. Right(d)
    BY <1>2, BoxRight
<1>4. FirstLost(d) <=> FirstLost(c)
    BY <1>2 DEF FirstLost, MallocedBy
<1>5. handed_over(d) = {} /\ ~HandedLost(d) /\ ~UnflaggedLost(d)
    BY <1>2 DEF handed_over, HandedLost, UnflaggedLost, MallocedBy
<1>6. ~Mixed(d)
    BY <1>2 DEF Mixed
<1>7. CASE box_init(d).ok
    <2>1. Held(d) = box_init(d).left
        BY <1>5 DEF Held
    <2>2. Held(d) \ Released(d) = {} /\ Released(d) \ Held(d) = {}
        BY <1>3, <1>5, <1>6, <1>7 DEF Right
    <2>3. Released(d) = box_init(d).left
        BY <2>1, <2>2
    <2>. QED  BY <1>1, <1>7, <2>3
<1>8. CASE ~box_init(d).ok
    BY <1>1, <1>3, <1>4, <1>8 DEF Right
<1>. QED  BY <1>7, <1>8
-----------------------------------------------------------------------------
(***************************************************************************)
(* The life of an object                                                   *)
(***************************************************************************)

\* An open object of the caller is as init left it.
OpenStatic ==
    /\ place = "static" /\ box_init(config).ok /\ misfreed = {}
    /\ core = box_init(config).core /\ c_flags = box_init(config).flags /\ heap = Held(config)

\* An open object that create allocated.
OpenCreated ==
    /\ place = (IF config.arena THEN "arena" ELSE "heap") /\ Creatable(config)
    /\ box_init(Owning(config)).ok /\ misfreed = {}
    /\ core = box_init(Owning(config)).core
    /\ c_flags = box_init(Owning(config)).flags \cup {"owns_self"}
    /\ heap = box_init(Owning(config)).left \cup {b \in {"self"} : place = "heap"}

Failed ==
    /\ place \in {"static", "none"} /\ core = Empty /\ misfreed = {}
    /\ heap # {} <=> FirstLost(config)

GivenBack ==
    /\ core = Empty
    /\ \/ /\ place = "static"
          /\ heap # {} <=> HandedLost(config) \/ UnflaggedLost(config)
          /\ misfreed # {} <=> Mixed(config)
       \/ /\ place \in {"heap", "arena"} /\ misfreed = {}
          /\ heap # {} <=> place = "heap" /\ config.kind \in {"list", "btree"}

\* The inductive invariant: what the object holds, by phase.
Inv ==
    /\ \E k \in Kinds : config \in Configs(k)
    /\ \/ phase = "raw" /\ place = "none" /\ heap = {} /\ misfreed = {}
       \/ phase = "open" /\ (OpenStatic \/ OpenCreated)
       \/ phase = "failed" /\ Failed
       \/ phase = "closed" /\ GivenBack

\* deinit of an empty core frees nothing.
LEMMA ReleaseEmpty ==
    ASSUME NEW box, NEW flags
    PROVE  box_release(box, Empty, flags) = {}
<1>1. \A b \in AllBlocks : Empty[b] = "null"
    BY DEF Empty
<1>2. Meta(box) \subseteq AllBlocks /\ {"storage", "entry_pool", "buckets"} \subseteq AllBlocks
    BY DEF Meta, AllBlocks
<1>3. /\ release_element_storage(Empty, flags) = {} /\ pqueue_release_storage(Empty, flags) = {}
      /\ release_node_pool(Empty, flags) = {} /\ release_bucket_storage(Empty, flags) = {}
    BY <1>1, <1>2 DEF release_element_storage, pqueue_release_storage, release_node_pool, release_bucket_storage
<1>4. Empty["entry_pool"] = "null" /\ Empty["buckets"] = "null" /\ Empty["storage"] = "null"
    BY <1>1, <1>2
<1>5. lru_release_storage(Empty, flags) = {}
    BY <1>4 DEF lru_release_storage
<1>6. pool_release(box, Empty, flags) = {}
    BY <1>1, <1>2, <1>4 DEF pool_release
<1>. QED  BY <1>3, <1>5, <1>6 DEF box_release

\* The flag of the object itself does not matter to the box.
LEMMA ReleaseSelf ==
    ASSUME NEW box, NEW blocks, NEW flags
    PROVE  box_release(box, blocks, flags \cup {"owns_self"}) = box_release(box, blocks, flags)
<1>1. PICK f : f = flags \cup {"owns_self"}
    OBVIOUS
<1>2. /\ {"owns", "dynamic"} \subseteq f <=> {"owns", "dynamic"} \subseteq flags
      /\ {"owns_meta", "dynamic"} \subseteq f <=> {"owns_meta", "dynamic"} \subseteq flags
    BY <1>1
<1>3. box_release(box, blocks, f) = box_release(box, blocks, flags)
    BY <1>2 DEF box_release, release_element_storage, pqueue_release_storage, release_node_pool,
                release_bucket_storage, lru_release_storage, pool_release
<1>. QED  BY <1>1, <1>3

\* Before any handle exists nothing is held and nothing was freed.
LEMMA InitInv == Init => Inv
BY DEF Init, Inv

\* XXX_init.
LEMMA XxxInitInv ==
    ASSUME Inv, XxxInit
    PROVE  Inv'
<1>1. PICK k \in Kinds : config \in Configs(k)
    BY DEF Inv
<1>2. Right(config)
    BY <1>1, BoxRight
<1>3. /\ misfreed = {} /\ config' = config /\ misfreed' = misfreed /\ place' = "static"
      /\ core' = box_init(config).core /\ c_flags' = box_init(config).flags
      /\ phase' = (IF box_init(config).ok THEN "open" ELSE "failed")
      /\ heap' = box_init(config).left \cup (IF box_init(config).ok THEN handed_over(config) ELSE {})
    BY DEF XxxInit, Inv
<1>4. CASE box_init(config).ok
    <2>1. OpenStatic'
        BY <1>3, <1>4 DEF OpenStatic, Held
    <2>. QED  BY <1>1, <1>3, <1>4, <2>1 DEF Inv
<1>5. CASE ~box_init(config).ok
    <2>1. Failed'
        BY <1>2, <1>3, <1>5 DEF Failed, Right
    <2>. QED  BY <1>1, <1>3, <1>5, <2>1 DEF Inv
<1>. QED  BY <1>4, <1>5

\* XXX_create.
LEMMA CreateInv ==
    ASSUME Inv, Create
    PROVE  Inv'
<1>1. PICK k \in Kinds : config \in Configs(k)
    BY DEF Inv
<1>2. PICK c : c = Owning(config)
    OBVIOUS
<1>3. Creatable(config) /\ misfreed = {} /\ config' = config /\ misfreed' = misfreed
    BY DEF Create, Creatable, Inv
<1>4. validate_config(c) /\ c.arena = config.arena /\ c.oom = config.oom /\ config.arena \in BOOLEAN
    BY <1>1, <1>2, <1>3, OwningValid, OwningConfig, OwningIs
<1>5. PICK object, done :
          /\ object = allocate_object(c)
          /\ done = (IF object # "null" THEN box_init(c) ELSE Refused({}, {}))
          /\ place' = (IF done.ok THEN object ELSE "none")
          /\ phase' = (IF done.ok THEN "open" ELSE "failed")
          /\ c_flags' = done.flags \cup (IF done.ok THEN {"owns_self"} ELSE {})
          /\ core' = done.core
          /\ heap' = done.left \cup (IF done.ok THEN {b \in {"self"} : object = "heap"} ELSE {})
    BY <1>2, <1>4 DEF Create, Owning
<1>6. CASE object = "null"
    <2>1. done = Refused({}, {}) /\ c.oom = "self"
        BY <1>5, <1>6 DEF allocate_object
    <2>2. ~done.ok /\ done.left = {} /\ done.core = Empty
        BY <2>1, RefusedIs
    <2>3. "self" \notin Blocks(config.kind)
        BY DEF Blocks
    <2>4. ~FirstLost(config)
        BY <1>4, <2>1, <2>3 DEF FirstLost
    <2>5. Failed'
        BY <1>3, <1>5, <2>2, <2>4 DEF Failed
    <2>. QED  BY <1>1, <1>3, <1>5, <2>2, <2>5 DEF Inv
<1>7. CASE object # "null" /\ ~box_init(c).ok
    <2>1. box_init(c).core = Empty /\ (box_init(c).left # {} <=> FirstLost(config))
        BY <1>1, <1>2, <1>3, <1>7, CreateRight
    <2>2. Failed'
        BY <1>3, <1>5, <1>7, <2>1 DEF Failed
    <2>. QED  BY <1>1, <1>3, <1>5, <1>7, <2>2 DEF Inv
<1>8. CASE object # "null" /\ box_init(c).ok
    <2>1. object = IF config.arena THEN "arena" ELSE "heap"
        BY <1>4, <1>5, <1>8 DEF allocate_object
    <2>2. place' = object /\ phase' = "open" /\ core' = box_init(c).core
          /\ c_flags' = box_init(c).flags \cup {"owns_self"}
          /\ heap' = box_init(c).left \cup {b \in {"self"} : object = "heap"}
        BY <1>5, <1>8
    <2>3. OpenCreated'
        BY <1>2, <1>3, <1>8, <2>1, <2>2 DEF OpenCreated
    <2>. QED  BY <1>1, <1>3, <2>2, <2>3 DEF Inv
<1>. QED  BY <1>6, <1>7, <1>8

\* XXX_deinit.
LEMMA DeinitInv ==
    ASSUME Inv, Deinit
    PROVE  Inv'
<1>1. PICK k \in Kinds : config \in Configs(k)
    BY DEF Inv
<1>2. PICK R : R = box_release(config.kind, core, c_flags)
    OBVIOUS
<1>3. /\ heap' = heap \ R /\ misfreed' = misfreed \cup (R \ heap) /\ core' = Empty
      /\ place = "static" /\ place' = place /\ config' = config
      /\ phase' = IF phase = "open" THEN "closed" ELSE phase
    BY <1>2 DEF Deinit, Free
<1>4. CASE phase = "open"
    <2>1. OpenStatic
        BY <1>3, <1>4 DEF Inv, OpenCreated
    <2>2. R = Released(config) /\ heap = Held(config) /\ misfreed = {} /\ box_init(config).ok
        BY <1>2, <2>1 DEF OpenStatic, Released
    <2>3. Right(config)
        BY <1>1, BoxRight
    <2>4. GivenBack'
        BY <1>3, <2>2, <2>3 DEF GivenBack, Right
    <2>. QED  BY <1>1, <1>3, <1>4, <2>4 DEF Inv
<1>5. CASE phase \in {"failed", "closed"}
    <2>1. core = Empty
        BY <1>5 DEF Inv, Failed, GivenBack
    <2>2. R = {}
        BY <1>2, <2>1, ReleaseEmpty
    <2>3. heap' = heap /\ misfreed' = misfreed /\ core' = core /\ phase' = phase
        BY <1>3, <1>5, <2>1, <2>2
    <2>. QED  BY <1>1, <1>3, <1>5, <2>3 DEF Inv, Failed, GivenBack
<1>. QED  BY <1>3, <1>4, <1>5 DEF Inv

\* XXX_destroy.
LEMMA DestroyInv ==
    ASSUME Inv, Destroy
    PROVE  Inv'
<1>1. PICK k \in Kinds : config \in Configs(k)
    BY DEF Inv
<1>2. PICK c : c = Owning(config)
    OBVIOUS
<1>3. OpenCreated /\ config.kind = k /\ config.arena \in BOOLEAN
    BY <1>1 DEF Inv, Destroy, OpenStatic, Configs
<1>4. PICK R, L : /\ R = box_release(config.kind, core, c_flags) /\ L = box_init(c).left
    OBVIOUS
<1>5. R = L
    <2>1. R = box_release(config.kind, box_init(c).core, box_init(c).flags)
        BY <1>2, <1>3, <1>4, ReleaseSelf DEF OpenCreated
    <2>2. c.kind = config.kind
        BY <1>1, <1>2, OwningConfig
    <2>3. R = Released(c)
        BY <2>1, <2>2 DEF Released
    <2>. QED  BY <1>1, <1>2, <1>3, <1>4, <2>3, CreateRight DEF OpenCreated
<1>6. {"owns_self", "dynamic"} \subseteq c_flags <=> place = "heap" /\ k \notin {"list", "btree"}
    <2>1. "dynamic" \in box_init(c).flags <=> ~config.arena /\ k \notin {"list", "btree"}
        BY <1>1, <1>2, <1>3, OwningFlags DEF OpenCreated
    <2>. QED  BY <1>2, <1>3, <2>1 DEF OpenCreated
<1>7. k \in {"list", "btree"} => L = {}
    BY <1>1, <1>2, <1>3, <1>4, OwningFlags DEF OpenCreated
<1>8. PICK S : S = IF {"owns_self", "dynamic"} \subseteq c_flags THEN {"self"} ELSE {}
    OBVIOUS
<1>9. /\ heap' = heap \ (R \cup S) /\ misfreed' = misfreed \cup ((R \cup S) \ heap)
      /\ core' = Empty /\ place \in {"heap", "arena"} /\ place' = place /\ config' = config /\ phase' = "closed"
    BY <1>4, <1>8 DEF Destroy, Free
<1>10. heap = L \cup {b \in {"self"} : place = "heap"} /\ misfreed = {}
    BY <1>2, <1>3, <1>4 DEF OpenCreated
<1>11. CASE k \in {"list", "btree"}
    <2>1. R = {} /\ S = {} /\ heap = {b \in {"self"} : place = "heap"}
        BY <1>5, <1>6, <1>7, <1>8, <1>10, <1>11
    <2>2. GivenBack'
        BY <1>3, <1>9, <1>10, <1>11, <2>1 DEF GivenBack
    <2>. QED  BY <1>1, <1>9, <2>2 DEF Inv
<1>12. CASE k \notin {"list", "btree"}
    <2>1. R \cup S = heap
        BY <1>5, <1>6, <1>8, <1>10, <1>12
    <2>2. heap' = {} /\ misfreed' = {}
        BY <1>9, <1>10, <2>1
    <2>3. GivenBack'
        BY <1>3, <1>9, <1>12, <2>2 DEF GivenBack
    <2>. QED  BY <1>1, <1>9, <2>3 DEF Inv
<1>. QED  BY <1>11, <1>12

\* The inductive invariant holds throughout.
THEOREM OwnershipInvariant == Spec => []Inv
<1>1. Init => Inv
    BY InitInv
<1>2. Inv /\ [Next]_vars => Inv'
    <2>1. SUFFICES ASSUME Inv, [Next]_vars PROVE Inv'
        OBVIOUS
    <2>2. CASE UNCHANGED vars
        BY <2>1, <2>2 DEF vars, Inv, OpenStatic, OpenCreated, Failed, GivenBack
    <2>. QED  BY <2>1, <2>2, XxxInitInv, CreateInv, DeinitInv, DestroyInv DEF Next
<1>. QED  BY <1>1, <1>2, PTL DEF Spec

\* Every malloc block is freed in the end, but in exactly four circumstances: for every
\* container, every configuration and every allocation that fails.
THEOREM OwnershipNothingLost == Spec => []NothingLost
<1>1. Inv => NothingLost
    <2>1. SUFFICES ASSUME Inv, Over
                   PROVE  heap # {} <=> LosesFirstBlock \/ LosesObject \/ LosesHandedOver \/ LosesUnflagged
        BY DEF NothingLost
    <2>2. Malloced = MallocedBy(config)
        BY DEF Malloced, MallocedBy
    <2>3. CASE phase = "failed"
        <3>1. Failed
            BY <2>1, <2>3 DEF Inv
        <3>2. LosesFirstBlock <=> FirstLost(config)
            BY <2>2, <2>3 DEF LosesFirstBlock, FirstLost
        <3>3. ~LosesObject /\ ~LosesHandedOver /\ ~LosesUnflagged
            BY <2>3, <3>1 DEF Failed, LosesObject, LosesHandedOver, LosesUnflagged
        <3>. QED  BY <3>1, <3>2, <3>3 DEF Failed
    <2>4. CASE phase = "closed"
        <3>1. GivenBack /\ ~LosesFirstBlock
            BY <2>1, <2>4 DEF Inv, LosesFirstBlock
        <3>2. place = "static" => /\ LosesHandedOver <=> HandedLost(config)
                                  /\ LosesUnflagged <=> UnflaggedLost(config)
            BY <2>2, <2>4 DEF LosesHandedOver, LosesUnflagged, HandedLost, UnflaggedLost
        <3>3. place # "static" => ~LosesHandedOver /\ ~LosesUnflagged
            BY DEF LosesHandedOver, LosesUnflagged
        <3>. QED  BY <3>1, <3>2, <3>3 DEF GivenBack, LosesObject
    <2>. QED  BY <2>1, <2>3, <2>4 DEF Over
<1>. QED  BY <1>1, OwnershipInvariant, PTL

\* Nothing is freed twice or without coming from malloc, unless the blocks of a
\* container have mixed origins: for every container and every configuration.
THEOREM OwnershipFreesOnlyItsOwn == Spec => []FreesOnlyItsOwn
<1>1. Inv => FreesOnlyItsOwn
    <2>1. SUFFICES ASSUME Inv PROVE misfreed # {} <=> phase = "closed" /\ MixedOrigins
        BY DEF FreesOnlyItsOwn
    <2>2. MixedOrigins <=> place = "static" /\ Mixed(config)
        BY DEF MixedOrigins, Mixed, Malloced, MallocedBy
    <2>3. CASE phase = "closed"
        BY <2>1, <2>2, <2>3 DEF Inv, GivenBack
    <2>4. CASE phase # "closed"
        BY <2>1, <2>4 DEF Inv, OpenStatic, OpenCreated, Failed
    <2>. QED  BY <2>3, <2>4
<1>. QED  BY <1>1, OwnershipInvariant, PTL
-----------------------------------------------------------------------------
(***************************************************************************)
(* The tables of a hash map                                                *)
(***************************************************************************)

\* What the map believes of its table and what malloc gave it; a table is malloc'ed
\* by init or by a growth without an arena.
TableInv ==
    /\ options \in Options /\ TablesReleased
    /\ Live => (kind = "heap" => options.start = "heap" \/ history.grew = TRUE)
    /\ history = [removed |-> history.removed, scar |-> history.scar, grew |-> history.grew]
    /\ options.start # "heap" /\ options.arena = FALSE /\ Live /\ history.grew = TRUE => kind = "heap"

\* init: a table of malloc's exactly when the configuration starts with one.
LEMMA MapInitInv == MapInit => TableInv
BY DEF MapInit, TableInv, TablesReleased, Options, Live, GrownKind

\* No call of the map breaks that: only growth and the two ends touch a table.
LEMMA MapStepInv == TableInv /\ [MapNext]_mapVars => TableInv'
<1> SUFFICES ASSUME TableInv, [MapNext]_mapVars PROVE TableInv'
    OBVIOUS
<1>1. ASSUME NEW k \in Key, Remove(k) PROVE TableInv'
    BY <1>1 DEF TableInv, Remove, TablesReleased, Live, GrownKind
<1>2. ASSUME NEW k \in Key, NEW v \in Value, PutInPlace(k, v) PROVE TableInv'
    BY <1>2 DEF TableInv, PutInPlace, Ended, TablesReleased, Live, GrownKind
<1>3. ASSUME NEW k \in Key, NEW v \in Value, PutAndGrow(k, v) PROVE TableInv'
    <2>1. options' = options /\ kind' = GrownKind /\ tables' = GrownHeap
        BY <1>3 DEF PutAndGrow
    <2>2. PICK t, n : t = rehash(table, Count(table) * 2) /\ n = rehash_size(table, size)
        OBVIOUS
    <2>3. \E r \in put_in(t, n, k, v) : history' = [history EXCEPT !.grew = TRUE, !.scar = FALSE]
        BY <1>3, <2>2 DEF PutAndGrow
    <2>4. history' = [history EXCEPT !.grew = TRUE, !.scar = FALSE] /\ Live
        BY <1>3, <2>3 DEF PutAndGrow
    <2>5. /\ history'.grew = TRUE
          /\ history' = [removed |-> history'.removed, scar |-> history'.scar, grew |-> history'.grew]
        BY <2>4 DEF TableInv
    <2>6. CASE options.arena = TRUE
        BY <2>1, <2>4, <2>5, <2>6 DEF TableInv, GrownHeap, TablesReleased, Live, GrownKind, Options
    <2>7. CASE options.arena = FALSE
        BY <2>1, <2>4, <2>5, <2>7 DEF TableInv, GrownHeap, TablesReleased, Live, GrownKind, Options
    <2>. QED  BY <2>6, <2>7 DEF TableInv, Options
<1>4. CASE ClearMap
    BY <1>4 DEF TableInv, ClearMap, TablesReleased, Live, GrownKind
<1>5. CASE DestroyMap
    BY <1>5 DEF TableInv, DestroyMap, TablesReleased, Live, GrownKind, Options
<1>6. CASE DeinitBox
    BY <1>6 DEF TableInv, DeinitBox, TablesReleased, Live, GrownKind, Options
<1>7. CASE UNCHANGED mapVars
    BY <1>7 DEF mapVars, TableInv, TablesReleased, Live, GrownKind
<1>. QED  BY <1>1, <1>2, <1>3, <1>4, <1>5, <1>6, <1>7, Zenon DEF MapNext

\* However often the map grew, it holds at most the one malloc'ed table it uses, and
\* destroy and deinit leave exactly the tables the property names: for every set of
\* keys, hash function and number of buckets.
THEOREM MapTablesReleased == MapSpec => []TablesReleased
<1>1. TableInv => TablesReleased
    BY DEF TableInv
<1>. QED  BY <1>1, MapInitInv, MapStepInv, PTL DEF MapSpec
-----------------------------------------------------------------------------
(***************************************************************************)
(* The block of a vector or priority queue                                 *)
(***************************************************************************)

\* The members of the core, and the heap blocks it has.
Members(x) ==
    x = [open |-> x.open, size |-> x.size, slots |-> x.slots, kind |-> x.kind,
         flags |-> x.flags, block |-> x.block]
HeapBlocks(x) == IF x.open = TRUE /\ x.block = "heap" THEN 1 ELSE 0

\* An open container whose storage_kind_ and c_flags_ tell the truth about its block.
\* A typed priority queue has neither.
Truthful(x) ==
    /\ Members(x) /\ x.open = TRUE
    /\ form.policy = "runtime" => ("heap" \in x.flags <=> x.block = "heap")
    /\ form.policy = "typed" => x.flags = {} /\ x.block # "heap"
    /\ form.kind = "vector" => ("heap" \in x.kind <=> x.block = "heap")
    /\ form.kind = "pqueue" => x.kind = {}
    /\ form.start = "heap" => x.block = "heap"

\* A call of x that answers r has freed nothing foreign and lost no block.
Safe(x, r) ==
    /\ r = [st |-> r.st, a |-> r.a, heap |-> r.heap, foreign |-> r.foreign, torn |-> r.torn,
            left |-> r.left]
    /\ r.foreign = FALSE /\ Truthful(r.a) /\ r.heap \in Nat
    /\ HeapBlocks(r.a) = HeapBlocks(x) + r.heap

\* The same block and the same beliefs, whatever is in the slots.
LEMMA SameBlock ==
    ASSUME NEW x, Truthful(x), NEW y, Members(y), y.open = x.open, y.kind = x.kind,
           y.flags = x.flags, y.block = x.block,
           NEW r, r = [st |-> r.st, a |-> y, heap |-> 0, foreign |-> FALSE, torn |-> r.torn,
                       left |-> r.left]
    PROVE  Safe(x, r)
BY DEF Safe, Truthful, HeapBlocks

\* A call that changes nothing.
LEMMA NothingDone ==
    ASSUME NEW x, Truthful(x), NEW st, NEW r, r = Outcome(st, x)
    PROVE  Safe(x, r)
<1>1. Members(x)
    BY DEF Truthful
<1>. QED  BY <1>1, SameBlock DEF Outcome

\* The elements in another block.
LEMMA MovedIs ==
    ASSUME NEW x, Members(x), NEW m, NEW b, NEW y, y = Moved(x, m, b)
    PROVE  /\ Members(y) /\ y.open = x.open /\ y.kind = x.kind /\ y.flags = x.flags
           /\ y.size = x.size /\ y.block = b
BY DEF Members, Moved

\* Growth of a container that starts in its own memory, in an arena or does not grow.
LEMMA ReserveSafe ==
    ASSUME form \in Forms, ~GrowsForeign, NEW x, Truthful(x), NEW n, NEW f,
           NEW r \in reserve(x, n, f)
    PROVE  Safe(x, r)
<1>1. PICK m : m = grow_capacity(capacity(x), n)
    OBVIOUS
<1>2. Members(x)
    BY DEF Truthful
<1>3. CASE r = [Outcome("ok", x) EXCEPT !.left = f]
    BY <1>2, <1>3, SameBlock DEF Outcome
<1>4. ASSUME NEW st \in {"oom", "copy", "full"}, r = Outcome(st, x) PROVE Safe(x, r)
    BY <1>4, NothingDone
<1>5. CASE r \in realloc(x, m, f) /\ x.block = "heap"
    <2>1. CASE r = Outcome("oom", x)
        BY <1>4, <2>1
    <2>2. CASE r = [Outcome("ok", Moved(x, m, "heap")) EXCEPT !.left = f]
        <3>1. PICK y : y = Moved(x, m, "heap")
            OBVIOUS
        <3>2. Members(y) /\ y.open = x.open /\ y.kind = x.kind /\ y.flags = x.flags /\ y.block = x.block
            BY <1>2, <1>5, <3>1, MovedIs
        <3>. QED  BY <2>2, <3>1, <3>2, SameBlock DEF Outcome
    <2>. QED  BY <1>5, <2>1, <2>2 DEF realloc
<1>6. CASE r \in arena_block(x, m, f) /\ x.block # "heap"
    <2>1. CASE r = [Outcome("ok", Moved(x, m, "arena")) EXCEPT !.left = f - x.size]
        <3>1. PICK y : y = Moved(x, m, "arena")
            OBVIOUS
        <3>2. Members(y) /\ y.open = x.open /\ y.kind = x.kind /\ y.flags = x.flags /\ y.block = "arena"
            BY <1>2, <3>1, MovedIs
        <3>3. r = [st |-> "ok", a |-> y, heap |-> 0, foreign |-> FALSE, torn |-> FALSE, left |-> f - x.size]
            BY <2>1, <3>1 DEF Outcome
        <3>. QED  BY <1>6, <3>2, <3>3 DEF Safe, Truthful, HeapBlocks
    <2>. QED  BY <1>4, <1>6, <2>1 DEF arena_block
<1>7. CASE r \in reallocate_vector(x, m, f) /\ form.growable = TRUE /\ form.kind = "vector"
    <2>1. form.arena = TRUE \/ form.start = "heap"
        BY <1>7 DEF GrowsForeign, Forms
    <2>. QED  BY <1>5, <1>6, <1>7, <2>1 DEF reallocate_vector, Truthful
<1>8. CASE r \in reallocate_pqueue(x, m, f) /\ form.growable = TRUE /\ form.kind = "pqueue"
    <2>1. form.policy = "runtime"
        BY <1>8 DEF GrowsForeign, Forms
    <2>2. ASSUME r = [Outcome("ok", [Moved(x, m, "heap") EXCEPT !.flags = {"owns", "heap"}])
                          EXCEPT !.heap = 1, !.left = f - x.size], "heap" \notin x.flags
          PROVE  Safe(x, r)
        <3>1. PICK y, z : y = Moved(x, m, "heap") /\ z = [y EXCEPT !.flags = {"owns", "heap"}]
            OBVIOUS
        <3>2. Members(y) /\ y.open = x.open /\ y.kind = x.kind /\ y.block = "heap"
            BY <1>2, <3>1, MovedIs
        <3>3. Members(z) /\ z.open = x.open /\ z.kind = x.kind /\ z.block = "heap"
              /\ z.flags = {"owns", "heap"}
            BY <3>1, <3>2 DEF Members
        <3>4. r = [st |-> "ok", a |-> z, heap |-> 1, foreign |-> FALSE, torn |-> FALSE, left |-> f - x.size]
            BY <2>2, <3>1 DEF Outcome
        <3>5. Truthful(z)
            BY <1>8, <2>1, <3>3 DEF Truthful
        <3>6. HeapBlocks(z) = HeapBlocks(x) + 1
            BY <2>1, <2>2, <3>3 DEF Truthful, HeapBlocks
        <3>. QED  BY <3>4, <3>5, <3>6 DEF Safe
    <2>. QED  BY <1>4, <1>5, <1>6, <1>8, <2>1, <2>2 DEF reallocate_pqueue, Truthful
<1>. QED  BY <1>1, <1>3, <1>4, <1>7, <1>8 DEF reserve, Forms

\* What follows an ensure_capacity that succeeded adds up.
LEMMA ThenSafe ==
    ASSUME NEW x, NEW q, Safe(x, q), NEW t, Safe(q.a, t), NEW r, r = [t EXCEPT !.heap = @ + q.heap]
    PROVE  Safe(x, r)
<1>1. PICK s, y, h, w, l : t = [st |-> s, a |-> y, heap |-> h, foreign |-> FALSE, torn |-> w, left |-> l]
    BY DEF Safe
<1>2. r = [st |-> s, a |-> y, heap |-> h + q.heap, foreign |-> FALSE, torn |-> w, left |-> l]
    BY <1>1
<1>3. h \in Nat /\ q.heap \in Nat /\ Truthful(y)
      /\ HeapBlocks(q.a) = HeapBlocks(x) + q.heap /\ HeapBlocks(y) = HeapBlocks(q.a) + h
    BY <1>1 DEF Safe
<1>4. HeapBlocks(x) \in Nat
    BY DEF HeapBlocks
<1>5. HeapBlocks(y) = HeapBlocks(x) + (h + q.heap)
    BY <1>3, <1>4
<1>. QED  BY <1>2, <1>3, <1>5 DEF Safe

\* Elements that are put into the slots, taken out of them or moved between them.
SameStorage(x, y) ==
    /\ Members(y) /\ y.open = x.open /\ y.kind = x.kind /\ y.flags = x.flags /\ y.block = x.block

\* Such a call is safe, torn or not.
LEMMA SlotsSafe ==
    ASSUME NEW x, Truthful(x), NEW y, SameStorage(x, y), NEW st, NEW w, NEW r,
           r = Outcome(st, y) \/ r = [Outcome(st, y) EXCEPT !.torn = w]
    PROVE  Safe(x, r)
<1>1. \E u : r = [st |-> st, a |-> y, heap |-> 0, foreign |-> FALSE, torn |-> u, left |-> 0]
    BY DEF Outcome
<1>2. Truthful(y)
    BY DEF Truthful, SameStorage
<1>3. HeapBlocks(y) = HeapBlocks(x) + 0
    BY DEF HeapBlocks, SameStorage
<1>. QED  BY <1>1, <1>2, <1>3 DEF Safe

\* push_back, of a value or of an element of the vector.
LEMMA PushBackSafe ==
    ASSUME form \in Forms, ~GrowsForeign, NEW x, Truthful(x), NEW e, NEW f,
           NEW r \in push_back(x, e, f)
    PROVE  Safe(x, r)
<1>1. Members(x)
    BY DEF Truthful
<1>2. PICK q : /\ q \in reserve(x, x.size + 1, f) \/ q = [Outcome("ok", x) EXCEPT !.left = f]
               /\ \/ r = q
                  \/ r = [Outcome("copy", q.a) EXCEPT !.heap = @ + q.heap]
                  \/ \E v : r = [Outcome("ok", [q.a EXCEPT !.slots[x.size + 1] = v, !.size = @ + 1])
                                   EXCEPT !.heap = @ + q.heap]
    <2>1. PICK Q : Q = IF x.size = capacity(x) THEN reserve(x, x.size + 1, f)
                       ELSE {[Outcome("ok", x) EXCEPT !.left = f]}
        OBVIOUS
    <2>2. PICK q \in Q :
              r \in IF q.st # "ok" THEN {q}
                    ELSE {[t EXCEPT !.heap = @ + q.heap] :
                            t \in IF q.left = 0 THEN {Outcome("copy", q.a)}
                                  ELSE {Outcome("ok", [q.a EXCEPT !.slots[x.size + 1] = Referred(x, q.a, e),
                                                                   !.size = @ + 1])}}
        BY <2>1 DEF push_back, After
    <2>3. PICK c, d, v : /\ v = Referred(x, q.a, e) /\ c = Outcome("copy", q.a)
                         /\ d = Outcome("ok", [q.a EXCEPT !.slots[x.size + 1] = v, !.size = @ + 1])
        OBVIOUS
    <2>4. r = q \/ r = [c EXCEPT !.heap = @ + q.heap] \/ r = [d EXCEPT !.heap = @ + q.heap]
        BY <2>2, <2>3
    <2>5. q \in reserve(x, x.size + 1, f) \/ q = [Outcome("ok", x) EXCEPT !.left = f]
        BY <2>1, <2>2
    <2>. QED  BY <2>3, <2>4, <2>5, Zenon
<1>3. Safe(x, q)
    BY <1>1, <1>2, ReserveSafe, SameBlock DEF Outcome
<1>4. Truthful(q.a) /\ Members(q.a)
    BY <1>3 DEF Safe, Truthful
<1>5. ASSUME r = [Outcome("copy", q.a) EXCEPT !.heap = @ + q.heap] PROVE Safe(x, r)
    <2>1. PICK t : t = Outcome("copy", q.a)
        OBVIOUS
    <2>2. Safe(q.a, t)
        BY <1>4, <2>1, NothingDone
    <2>. QED  BY <1>3, <1>5, <2>1, <2>2, ThenSafe
<1>6. ASSUME NEW v, r = [Outcome("ok", [q.a EXCEPT !.slots[x.size + 1] = v, !.size = @ + 1])
                           EXCEPT !.heap = @ + q.heap]
      PROVE  Safe(x, r)
    <2>1. PICK y, t : y = [q.a EXCEPT !.slots[x.size + 1] = v, !.size = @ + 1] /\ t = Outcome("ok", y)
        OBVIOUS
    <2>2. SameStorage(q.a, y)
        BY <1>4, <2>1 DEF Members, SameStorage
    <2>3. Safe(q.a, t)
        BY <1>4, <2>1, <2>2, SlotsSafe
    <2>. QED  BY <1>3, <1>6, <2>1, <2>3, ThenSafe
<1>. QED  BY <1>2, <1>3, <1>5, <1>6

\* push of a priority queue.
LEMMA PushSafe ==
    ASSUME form \in Forms, ~GrowsForeign, NEW x, Truthful(x), NEW v, NEW f,
           NEW r \in push(x, v, f)
    PROVE  Safe(x, r)
<1>1. PICK q \in reserve(x, x.size + 1, f) :
                  \/ r = q
                  \/ r = [Outcome("copy", q.a) EXCEPT !.heap = @ + q.heap]
                  \/ \E s : r = [Sifted([q.a EXCEPT !.slots[x.size + 1] = v, !.size = @ + 1], s)
                                   EXCEPT !.heap = @ + q.heap]
    <2>1. PICK Q : Q = reserve(x, x.size + 1, f)
        OBVIOUS
    <2>2. PICK q \in Q :
              r \in IF q.st # "ok" THEN {q}
                    ELSE {[t EXCEPT !.heap = @ + q.heap] :
                            t \in LET y == [q.a EXCEPT !.slots[x.size + 1] = v, !.size = @ + 1]
                                  IN  IF q.left = 0 THEN {Outcome("copy", q.a)}
                                      ELSE {Sifted(y, sift_up(y.slots, y.size, q.left - 1))}}
        BY <2>1 DEF push, After
    <2>3. PICK c, y, s, d : /\ c = Outcome("copy", q.a)
                            /\ y = [q.a EXCEPT !.slots[x.size + 1] = v, !.size = @ + 1]
                            /\ s = sift_up(y.slots, y.size, q.left - 1) /\ d = Sifted(y, s)
        OBVIOUS
    <2>4. r = q \/ r = [c EXCEPT !.heap = @ + q.heap] \/ r = [d EXCEPT !.heap = @ + q.heap]
        BY <2>2, <2>3
    <2>. QED  BY <2>1, <2>2, <2>3, <2>4, Zenon
<1>3. Safe(x, q)
    BY <1>1, ReserveSafe
<1>4. Truthful(q.a) /\ Members(q.a)
    BY <1>3 DEF Safe, Truthful
<1>5. ASSUME r = [Outcome("copy", q.a) EXCEPT !.heap = @ + q.heap] PROVE Safe(x, r)
    <2>1. PICK t : t = Outcome("copy", q.a)
        OBVIOUS
    <2>2. Safe(q.a, t)
        BY <1>4, <2>1, NothingDone
    <2>. QED  BY <1>3, <1>5, <2>1, <2>2, ThenSafe
<1>6. ASSUME NEW s, r = [Sifted([q.a EXCEPT !.slots[x.size + 1] = v, !.size = @ + 1], s)
                           EXCEPT !.heap = @ + q.heap]
      PROVE  Safe(x, r)
    <2>1. PICK y, z, t : /\ y = [q.a EXCEPT !.slots[x.size + 1] = v, !.size = @ + 1]
                         /\ z = [y EXCEPT !.slots = s.slots] /\ t = Sifted(y, s)
        OBVIOUS
    <2>2. SameStorage(q.a, z)
        BY <1>4, <2>1 DEF Members, SameStorage
    <2>3. PICK w : t = [Outcome(s.st, z) EXCEPT !.torn = w]
        BY <2>1 DEF Sifted
    <2>4. Safe(q.a, t)
        BY <1>4, <2>2, <2>3, SlotsSafe
    <2>. QED  BY <1>3, <1>6, <2>1, <2>4, ThenSafe
<1>. QED  BY <1>1, <1>3, <1>5, <1>6

\* The calls that neither allocate nor free.
LEMMA OthersSafe ==
    ASSUME NEW x, Truthful(x), NEW out, NEW i, NEW v, NEW f, NEW r,
           \/ r \in pop_back(x, out, f) \/ r \in set_at(x, i, v, f)
           \/ r \in pop(x, out, f) \/ r = Outcome("ok", clear(x))
    PROVE  Safe(x, r)
<1>1. Members(x)
    BY DEF Truthful
<1>2. ASSUME NEW st, r = Outcome(st, x) PROVE Safe(x, r)
    BY <1>2, NothingDone
<1>3. ASSUME NEW y, SameStorage(x, y), NEW st, r = Outcome(st, y) PROVE Safe(x, r)
    BY <1>3, SlotsSafe
<1>4. CASE r \in pop_back(x, out, f)
    <2>1. PICK y : y = [x EXCEPT !.size = @ - 1, !.slots[x.size] = Dead]
        OBVIOUS
    <2>2. SameStorage(x, y)
        BY <1>1, <2>1 DEF Members, SameStorage
    <2>. QED  BY <1>2, <1>3, <1>4, <2>1, <2>2 DEF pop_back
<1>5. CASE r \in set_at(x, i, v, f)
    <2>1. SameStorage(x, [x EXCEPT !.slots[i] = v])
        BY <1>1 DEF Members, SameStorage
    <2>. QED  BY <1>2, <1>3, <1>5, <2>1 DEF set_at
<1>6. CASE r = Outcome("ok", clear(x))
    <2>1. PICK s, y : s = [i_1 \in DOMAIN x.slots |-> Dead] /\ y = [x EXCEPT !.size = 0, !.slots = s]
        OBVIOUS
    <2>2. SameStorage(x, y)
        BY <1>1, <2>1 DEF Members, SameStorage
    <2>3. clear(x) = y
        BY <2>1 DEF clear
    <2>. QED  BY <1>3, <1>6, <2>2, <2>3
<1>7. CASE r \in pop(x, out, f)
    <2>1. PICK y, z : /\ y = [x EXCEPT !.size = @ - 1, !.slots[1] = x.slots[x.size], !.slots[x.size] = Dead]
                      /\ z = [x EXCEPT !.slots[1] = Dead]
        OBVIOUS
    <2>2. Members(y) /\ SameStorage(x, y) /\ SameStorage(x, z)
        BY <1>1, <2>1 DEF Members, SameStorage
    <2>3. \/ \E st \in {"empty", "copy"} : r = Outcome(st, x)
          \/ r = Outcome("ok", y) \/ r = [Outcome("copy", z) EXCEPT !.torn = TRUE]
          \/ \E s : r = Sifted(y, s)
        BY <1>7, <2>1, Zenon DEF pop
    <2>4. ASSUME NEW s, r = Sifted(y, s) PROVE Safe(x, r)
        <3>1. SameStorage(x, [y EXCEPT !.slots = s.slots])
            BY <2>2 DEF Members, SameStorage
        <3>. QED  BY <2>4, <3>1, SlotsSafe DEF Sifted
    <2>. QED  BY <1>2, <1>3, <2>2, <2>3, <2>4, SlotsSafe
<1>. QED  BY <1>4, <1>5, <1>6, <1>7

\* The container of the state: closed, or open and truthful, with the blocks it has.
BlockInv ==
    /\ form \in Forms
    /\ ~GrowsForeign => /\ foreign = FALSE /\ malloced = HeapBlocks(array)
                        /\ array = Closed \/ Truthful(array)

\* A container that was not initialised has no block.
LEMMA ArraysInit == ArrayInit => BlockInv
BY DEF ArrayInit, BlockInv, HeapBlocks, Closed

\* A call whose outcomes are all safe.
LEMMA ReturnKeeps ==
    ASSUME BlockInv, array.open = TRUE, NEW results, Return(results),
           ~GrowsForeign /\ Truthful(array) => \A r \in results : Safe(array, r)
    PROVE  BlockInv'
<1>1. form' = form
    BY DEF Return
<1>2. GrowsForeign' <=> GrowsForeign
    BY <1>1 DEF GrowsForeign
<1>3. ASSUME ~GrowsForeign
      PROVE  foreign' = FALSE /\ malloced' = HeapBlocks(array') /\ Truthful(array)'
    <2>1. Truthful(array) /\ foreign = FALSE /\ malloced = HeapBlocks(array)
        BY <1>3 DEF BlockInv, Closed
    <2>2. PICK r \in results : array' = r.a /\ malloced' = malloced + r.heap /\ foreign' = (foreign \/ r.foreign)
        BY DEF Return
    <2>3. Safe(array, r)
        BY <1>3, <2>1, <2>2
    <2>. QED  BY <1>1, <2>1, <2>2, <2>3 DEF Safe, Truthful, Members
<1>. QED  BY <1>1, <1>2, <1>3 DEF BlockInv, Truthful, Members

\* init sets storage_kind_ and c_flags_ by where the block came from.
LEMMA OpenKeeps ==
    ASSUME NEW c \in Forms, NEW n, Open(c, n)
    PROVE  BlockInv'
<1>1. PICK s : s = [i_1 \in 1..n |-> Dead]
    OBVIOUS
<1>2. PICK own : own = CASE c.start = "caller" -> {} [] c.start = "arena" -> {"owns", "arena"}
                         [] c.start = "heap" -> {"owns", "heap"}
    OBVIOUS
<1>3. /\ c.start = "caller" => own = {}
      /\ c.start = "arena" => own = {"owns", "arena"}
      /\ c.start = "heap" => own = {"owns", "heap"}
    BY <1>2
<1>4. array' = [open |-> TRUE, size |-> 0, slots |-> s, kind |-> IF c.kind = "pqueue" THEN {} ELSE own,
              flags |-> IF c.policy = "typed" THEN {} ELSE own, block |-> c.start]
    BY <1>1, <1>2 DEF Open, opened
<1>5. form' = c /\ malloced' = (IF c.start = "heap" THEN 1 ELSE 0) /\ foreign' = FALSE
    BY DEF Open
<1>6. /\ c.kind \in {"vector", "pqueue"} /\ c.policy \in {"runtime", "typed"}
      /\ c.start \in {"caller", "arena", "heap"} /\ (c.start = "heap" => c.policy = "runtime")
    BY DEF Forms
<1>7. Truthful(array)'
    BY <1>3, <1>4, <1>5, <1>6 DEF Truthful, Members
<1>. QED  BY <1>4, <1>5, <1>7 DEF BlockInv, HeapBlocks

\* deinit frees the block exactly when malloc gave it.
LEMMA ReleaseKeeps ==
    ASSUME BlockInv, Release
    PROVE  BlockInv'
<1>1. form' = form /\ array' = Closed /\ array.open
    BY DEF Release
<1>2. PICK frees : frees = ("heap" \in array.flags \/ (form.policy = "runtime" /\ "heap" \in array.kind))
    OBVIOUS
<1>3. /\ malloced' = IF frees /\ array.block = "heap" THEN malloced - 1 ELSE malloced
      /\ foreign' = (frees /\ array.block # "heap")
    BY <1>2 DEF Release
<1>4. GrowsForeign' <=> GrowsForeign
    BY <1>1 DEF GrowsForeign
<1>5. ASSUME ~GrowsForeign PROVE foreign' = FALSE /\ malloced' = 0
    <2>1. Truthful(array) /\ malloced = HeapBlocks(array)
        BY <1>1, <1>5 DEF BlockInv, Closed
    <2>2. form.policy \in {"runtime", "typed"} /\ form.kind \in {"vector", "pqueue"}
        BY DEF BlockInv, Forms
    <2>3. /\ array.block = "heap" => frees = TRUE
          /\ array.block # "heap" => frees = FALSE
        BY <1>2, <2>1, <2>2 DEF Truthful
    <2>4. CASE array.block = "heap"
        <3>1. malloced = 1
            BY <2>1, <2>4 DEF HeapBlocks, Truthful
        <3>2. malloced' = malloced - 1
            BY <1>3, <2>3, <2>4
        <3>3. foreign' = FALSE
            BY <1>3, <2>3, <2>4
        <3>. QED  BY <3>1, <3>2, <3>3
    <2>5. CASE array.block # "heap"
        BY <1>3, <2>1, <2>3, <2>5 DEF HeapBlocks, Truthful
    <2>. QED  BY <2>4, <2>5
<1>6. HeapBlocks(array') = 0
    BY <1>1 DEF HeapBlocks, Closed
<1>. QED  BY <1>1, <1>4, <1>5, <1>6 DEF BlockInv

\* Every call of a vector or priority queue keeps block and beliefs in step.
LEMMA ArraysStep == BlockInv /\ [ArrayNext]_arrayVars => BlockInv'
<1> SUFFICES ASSUME BlockInv, [ArrayNext]_arrayVars PROVE BlockInv'
    OBVIOUS
<1>1. ASSUME NEW c \in Forms, NEW n \in Capacities, Open(c, n) PROVE BlockInv'
    BY <1>1, OpenKeeps
<1>2. form \in Forms
    BY DEF BlockInv
<1>3. ASSUME NEW v \in Element, PushBack(v) PROVE BlockInv'
    BY <1>2, <1>3, PushBackSafe, ReturnKeeps DEF PushBack, vector
<1>4. ASSUME NEW v \in Element, Push(v) PROVE BlockInv'
    BY <1>2, <1>4, PushSafe, ReturnKeeps DEF Push, pqueue
<1>5. ASSUME NEW v \in Element, NEW i \in 1..MaxCapacity, SetAt(i, v) PROVE BlockInv'
    BY <1>2, <1>5, OthersSafe, ReturnKeeps DEF SetAt, vector
<1>6. ASSUME NEW i \in 1..MaxCapacity, PushOwn(i) PROVE BlockInv'
    BY <1>2, <1>6, PushBackSafe, ReturnKeeps DEF PushOwn, vector
<1>7. ASSUME NEW i \in 1..MaxCapacity, Reserve(i) PROVE BlockInv'
    BY <1>2, <1>7, ReserveSafe, ReturnKeeps DEF Reserve
<1>8. ASSUME NEW out \in BOOLEAN, PopBack(out) PROVE BlockInv'
    BY <1>2, <1>8, OthersSafe, ReturnKeeps DEF PopBack, vector
<1>9. ASSUME NEW out \in BOOLEAN, Pop(out) PROVE BlockInv'
    BY <1>2, <1>9, OthersSafe, ReturnKeeps DEF Pop, pqueue
<1>10. CASE ClearAll
    BY <1>2, <1>10, OthersSafe, ReturnKeeps DEF ClearAll
<1>11. CASE Release
    BY <1>11, ReleaseKeeps
<1>12. CASE UNCHANGED arrayVars
    BY <1>12 DEF arrayVars, BlockInv, GrowsForeign, HeapBlocks, Truthful, Members
<1>. QED  BY <1>1, <1>3, <1>4, <1>5, <1>6, <1>7, <1>8, <1>9, <1>10, <1>11, <1>12, Zenon DEF ArrayNext

\* A vector, stack or priority queue that does not grow out of a foreign block frees
\* exactly what it allocated, whatever copies and allocations failed: for every set of
\* values and every capacity.
THEOREM ArraysBlocksOwned == ArraySpec => []BlocksOwned
<1>1. BlockInv => BlocksOwned
    BY DEF BlockInv, BlocksOwned, HeapBlocks, Closed, Truthful
<1>. QED  BY <1>1, ArraysInit, ArraysStep, PTL DEF ArraySpec
-----------------------------------------------------------------------------
(***************************************************************************)
(* The vector as a sequence                                                *)
(***************************************************************************)

\* A vector whose first size_ slots hold objects.
Cell == Element \cup {Dead, Garbage}
Vec(x) ==
    /\ Members(x) /\ x.slots \in Seq(Cell)
    /\ x.size \in Nat /\ x.size <= Len(x.slots)
    /\ \A i \in 1..x.size : x.slots[i] # Dead

\* Its elements are those slots.
LEMMA VecElements ==
    ASSUME NEW x, Vec(x), NEW s, s = Elements(x)
    PROVE  /\ s \in Seq(Cell) /\ Len(s) = x.size
           /\ \A i \in 1..x.size : s[i] = x.slots[i] /\ x.slots[i] \in Cell
<1>1. x.size \in Nat /\ x.slots \in Seq(Cell) /\ x.size <= Len(x.slots)
    BY DEF Vec
<1>2. \A i \in 1..x.size : x.slots[i] \in Cell
    BY <1>1, ElementOfSeq
<1>3. /\ SubSeq(x.slots, 1, x.size) \in Seq(Cell)
      /\ Len(SubSeq(x.slots, 1, x.size)) = IF 1 <= x.size THEN x.size - 1 + 1 ELSE 0
      /\ \A i \in 1..(x.size - 1 + 1) : SubSeq(x.slots, 1, x.size)[i] = x.slots[1 + i - 1]
    BY <1>1, <1>2, SubSeqProperties
<1>. QED  BY <1>1, <1>2, <1>3 DEF Elements

\* A vector with the slots of a sequence shows that sequence.
LEMMA ElementsAre ==
    ASSUME NEW y, Vec(y), NEW s \in Seq(Cell), Len(s) = y.size,
           \A i \in 1..y.size : y.slots[i] = s[i]
    PROVE  Elements(y) = s
<1>1. PICK e : e = Elements(y)
    OBVIOUS
<1>2. e \in Seq(Cell) /\ Len(e) = y.size /\ \A i \in 1..y.size : e[i] = y.slots[i]
    BY <1>1, VecElements
<1>. QED  BY <1>1, <1>2, SeqEqual

\* The elements in another block, which is large enough.
LEMMA MovedVec ==
    ASSUME NEW x, Vec(x), NEW m \in Nat, x.size <= m, NEW b, NEW y, y = Moved(x, m, b)
    PROVE  Vec(y) /\ Len(y.slots) = m /\ y.size = x.size /\ Elements(y) = Elements(x)
<1>1. PICK t : t = [i \in 1..m |-> IF i <= x.size THEN x.slots[i] ELSE Dead]
    OBVIOUS
<1>2. Members(x) /\ x.size \in Nat /\ x.slots \in Seq(Cell) /\ (\A i \in 1..x.size : x.slots[i] # Dead)
    BY DEF Vec
<1>3. \A i \in 1..x.size : x.slots[i] \in Cell
    BY VecElements
<1>4. y = [open |-> x.open, size |-> x.size, slots |-> t, kind |-> x.kind, flags |-> x.flags, block |-> b]
    BY <1>1, <1>2 DEF Moved, Members
<1>5. \A i \in 1..m : t[i] \in Cell
    BY <1>1, <1>2, <1>3 DEF Cell
<1>6. t \in Seq(Cell) /\ Len(t) = m
    BY <1>1, <1>5, IsASeq, LenProperties
<1>7. \A i \in 1..x.size : t[i] = x.slots[i]
    BY <1>1, <1>2
<1>8. Vec(y)
    BY <1>2, <1>4, <1>6, <1>7 DEF Vec, Members
<1>9. PICK s : s = Elements(x)
    OBVIOUS
<1>10. s \in Seq(Cell) /\ Len(s) = x.size /\ \A i \in 1..x.size : s[i] = x.slots[i]
    BY <1>9, VecElements
<1>11. Elements(y) = s
    BY <1>4, <1>7, <1>8, <1>10, ElementsAre
<1>. QED  BY <1>4, <1>6, <1>8, <1>9, <1>11

\* What growth to n slots may answer: the same elements with room, or a failure, or
\* memory that was not malloc's.
Reserved(x, n, q) ==
    \/ q.foreign = TRUE /\ q.a = Closed /\ q.st # "ok"
    \/ /\ q.foreign = FALSE /\ Vec(q.a) /\ Elements(q.a) = Elements(x) /\ q.a.size = x.size
       /\ q.st = "ok" => n <= Len(q.a.slots)

\* grow and reserve of a vector.
LEMMA ReserveVec ==
    ASSUME form.kind = "vector", NEW x, Vec(x), NEW n \in Nat, NEW f, NEW q \in reserve(x, n, f)
    PROVE  Reserved(x, n, q)
<1>1. PICK m : m = grow_capacity(capacity(x), n)
    OBVIOUS
<1>2. Members(x) /\ x.size \in Nat /\ x.size <= Len(x.slots) /\ Len(x.slots) \in Nat
    BY LenProperties DEF Vec
<1>3. CASE q = [Outcome("ok", x) EXCEPT !.left = f] /\ n <= Len(x.slots)
    BY <1>3 DEF Outcome, Reserved
<1>4. ASSUME NEW st \in {"oom", "copy", "full"}, q = Outcome(st, x) PROVE Reserved(x, n, q)
    BY <1>4 DEF Outcome, Reserved
<1>5. CASE q = Undefined
    BY <1>5 DEF Undefined, Outcome, Reserved
<1>6. ASSUME NEW b, NEW g, m \in Nat, m >= n, n > Len(x.slots), q = [Outcome("ok", Moved(x, m, b)) EXCEPT !.left = g]
      PROVE  Reserved(x, n, q)
    <2>1. PICK y : y = Moved(x, m, b)
        OBVIOUS
    <2>2. Vec(y) /\ Len(y.slots) = m /\ y.size = x.size /\ Elements(y) = Elements(x)
        BY <1>2, <1>6, <2>1, MovedVec
    <2>. QED  BY <1>6, <2>1, <2>2 DEF Outcome, Reserved
<1>7. ASSUME q = [Outcome("copy", [x EXCEPT !.kind = {"owns", "heap"}]) EXCEPT !.heap = 1]
      PROVE  Reserved(x, n, q)
    <2>1. PICK y : y = [x EXCEPT !.kind = {"owns", "heap"}]
        OBVIOUS
    <2>2. y = [open |-> x.open, size |-> x.size, slots |-> x.slots, kind |-> {"owns", "heap"},
               flags |-> x.flags, block |-> x.block]
        BY <1>2, <2>1 DEF Members
    <2>3. Vec(y) /\ Elements(y) = Elements(x) /\ y.size = x.size
        BY <2>2 DEF Vec, Elements, Members
    <2>. QED  BY <1>7, <2>1, <2>3 DEF Outcome, Reserved
<1>8. CASE q \in reallocate_vector(x, m, f) /\ n > Len(x.slots) /\ m \in n..MaxCapacity
    <2>1. m \in Nat /\ m >= n
        BY <1>8
    <2>2. CASE q \in realloc(x, m, f)
        BY <1>4, <1>5, <1>6, <1>8, <2>1, <2>2 DEF realloc
    <2>3. CASE q \in arena_block(x, m, f)
        BY <1>4, <1>6, <1>8, <2>1, <2>3 DEF arena_block
    <2>. QED  BY <1>4, <1>5, <1>7, <1>8, <2>2, <2>3 DEF reallocate_vector
<1>. QED  BY <1>1, <1>2, <1>3, <1>4, <1>8 DEF reserve, capacity

\* What a call answers that is to leave the sequence good: good when it says ok, the
\* elements as they were when it fails.
Answer(x, r, good) ==
    \/ r.foreign = TRUE /\ r.a = Closed
    \/ /\ r.foreign = FALSE /\ Vec(r.a)
       /\ Elements(r.a) = IF r.st = "ok" THEN good ELSE Elements(x)

\* One element more, in a slot behind the others.
LEMMA PutVec ==
    ASSUME NEW x, Vec(x), x.size + 1 <= Len(x.slots), NEW v \in Cell, v # Dead,
           NEW y, y = [x EXCEPT !.slots[x.size + 1] = v, !.size = @ + 1]
    PROVE  Vec(y) /\ Elements(y) = Append(Elements(x), v)
<1>1. Members(x) /\ x.size \in Nat /\ x.slots \in Seq(Cell) /\ (\A i \in 1..x.size : x.slots[i] # Dead)
    BY DEF Vec
<1>2. PICK k, t : k = x.size + 1 /\ t = [x.slots EXCEPT ![k] = v]
    OBVIOUS
<1>3. Len(x.slots) \in Nat /\ k \in 1..Len(x.slots) /\ k \in Nat /\ k - 1 = x.size
    BY <1>1, <1>2, LenProperties
<1>4. t \in Seq(Cell) /\ Len(t) = Len(x.slots)
      /\ \A j \in 1..Len(x.slots) : t[j] = IF j = k THEN v ELSE x.slots[j]
    BY <1>1, <1>2, <1>3, ExceptSeq
<1>5. y = [open |-> x.open, size |-> k, slots |-> t, kind |-> x.kind, flags |-> x.flags, block |-> x.block]
    BY <1>1, <1>2 DEF Members
<1>6. Vec(y)
    <2>1. ASSUME NEW i \in 1..k PROVE t[i] # Dead
        <3>1. i \in 1..Len(x.slots) /\ (i # k => i \in 1..x.size)
            BY ONLY <1>1, <1>3, <2>1
        <3>2. x.slots[i] # Dead \/ i = k
            BY ONLY <1>1, <3>1
        <3>. QED  BY ONLY v # Dead, <1>4, <3>1, <3>2
    <2>2. Members(y) /\ y.slots = t /\ y.size = k
        BY ONLY <1>5 DEF Members
    <2>. QED  BY <1>3, <1>4, <2>1, <2>2 DEF Vec
<1>7. PICK s : s = Elements(x)
    OBVIOUS
<1>8. s \in Seq(Cell) /\ Len(s) = x.size /\ \A i \in 1..x.size : s[i] = x.slots[i]
    BY <1>7, VecElements
<1>9. /\ Append(s, v) \in Seq(Cell) /\ Len(Append(s, v)) = Len(s) + 1
      /\ \A i \in 1..Len(s) : Append(s, v)[i] = s[i]
      /\ Append(s, v)[Len(s) + 1] = v
    BY <1>8, AppendProperties
<1>10. Len(Append(s, v)) = y.size /\ \A i \in 1..y.size : y.slots[i] = Append(s, v)[i]
    BY <1>1, <1>2, <1>3, <1>4, <1>5, <1>8, <1>9
<1>11. Elements(y) = Append(s, v)
    BY <1>6, <1>9, <1>10, ElementsAre
<1>. QED  BY <1>6, <1>7, <1>11

\* push_back appends what the reference it was given refers to after the growth; a
\* vector with room does not grow.
LEMMA PushBackVec ==
    ASSUME form.kind = "vector", NEW x, Vec(x), NEW e, NEW f,
           \A y : Referred(x, y, e) \in Cell \ {Dead}, NEW r \in push_back(x, e, f)
    PROVE  \E y : /\ Answer(x, r, Append(Elements(x), Referred(x, y, e)))
                  /\ x.size < Len(x.slots) => y = x
<1>1. x.size \in Nat /\ x.size + 1 \in Nat /\ Len(x.slots) \in Nat /\ x.size <= Len(x.slots)
    BY LenProperties DEF Vec
<1>2. PICK n : n = x.size + 1
    OBVIOUS
<1>3. PICK Q : Q = IF x.size = Len(x.slots) THEN reserve(x, n, f) ELSE {[Outcome("ok", x) EXCEPT !.left = f]}
    OBVIOUS
<1>4. PICK q \in Q :
          r \in IF q.st # "ok" THEN {q}
                ELSE {[t EXCEPT !.heap = @ + q.heap] :
                        t \in IF q.left = 0 THEN {Outcome("copy", q.a)}
                              ELSE {Outcome("ok", [q.a EXCEPT !.slots[n] = Referred(x, q.a, e), !.size = @ + 1])}}
    BY <1>2, <1>3 DEF push_back, After, capacity
<1>5. Reserved(x, n, q) /\ (x.size < Len(x.slots) => q.a = x)
    <2>1. CASE x.size = Len(x.slots)
        BY <1>1, <1>2, <1>3, <1>4, <2>1, ReserveVec
    <2>2. CASE x.size < Len(x.slots)
        BY <1>1, <1>2, <1>3, <1>4, <2>2 DEF Reserved, Outcome
    <2>. QED  BY <1>1, <2>1, <2>2
<1>6. PICK v : v = Referred(x, q.a, e)
    OBVIOUS
<1>7. v \in Cell /\ v # Dead
    BY <1>6
<1>8. SUFFICES Answer(x, r, Append(Elements(x), v))
    BY <1>5, <1>6
<1>9. CASE r = q /\ q.st # "ok"
    BY <1>5, <1>9 DEF Answer, Reserved
<1>10. CASE q.st = "ok" /\ r = [Outcome("copy", q.a) EXCEPT !.heap = @ + q.heap]
    BY <1>5, <1>10 DEF Answer, Reserved, Outcome
<1>11. CASE q.st = "ok" /\ r = [Outcome("ok", [q.a EXCEPT !.slots[n] = v, !.size = @ + 1]) EXCEPT !.heap = @ + q.heap]
    <2>1. PICK z, y : z = q.a /\ y = [z EXCEPT !.slots[n] = v, !.size = @ + 1]
        OBVIOUS
    <2>2. q.foreign = FALSE /\ Vec(z) /\ Elements(z) = Elements(x) /\ z.size = x.size /\ n <= Len(z.slots)
        BY <1>5, <1>11, <2>1 DEF Reserved
    <2>3. y = [z EXCEPT !.slots[z.size + 1] = v, !.size = @ + 1] /\ z.size + 1 <= Len(z.slots)
        BY <1>2, <2>1, <2>2
    <2>4. Vec(y) /\ Elements(y) = Append(Elements(z), v)
        BY <1>7, <2>2, <2>3, PutVec
    <2>. QED  BY <1>11, <2>1, <2>2, <2>4 DEF Answer, Outcome
<1>. QED  BY <1>4, <1>6, <1>9, <1>10, <1>11

\* pop_back takes the last element away.
LEMMA PopBackVec ==
    ASSUME NEW x, Vec(x), NEW o, NEW f, NEW r \in pop_back(x, o, f)
    PROVE  Answer(x, r, SubSeq(Elements(x), 1, x.size - 1))
<1>1. Members(x) /\ x.size \in Nat /\ x.slots \in Seq(Cell) /\ (\A i \in 1..x.size : x.slots[i] # Dead)
      /\ x.size <= Len(x.slots) /\ Len(x.slots) \in Nat
    BY LenProperties DEF Vec
<1>2. ASSUME NEW st \in {"empty", "copy"}, r = Outcome(st, x) PROVE Answer(x, r, SubSeq(Elements(x), 1, x.size - 1))
    BY <1>2 DEF Answer, Outcome
<1>3. ASSUME x.size # 0, r = Outcome("ok", [x EXCEPT !.size = @ - 1, !.slots[x.size] = Dead])
      PROVE  Answer(x, r, SubSeq(Elements(x), 1, x.size - 1))
    <2>1. PICK n, k, t, y : /\ n = x.size /\ k = n - 1 /\ t = [x.slots EXCEPT ![n] = Dead]
                            /\ y = [x EXCEPT !.size = @ - 1, !.slots[x.size] = Dead]
        OBVIOUS
    <2>2. k \in Nat /\ n \in 1..Len(x.slots) /\ k < n
        BY <1>1, <1>3, <2>1
    <2>3. t \in Seq(Cell) /\ Len(t) = Len(x.slots) /\ \A j \in 1..Len(x.slots) : t[j] = IF j = n THEN Dead ELSE x.slots[j]
        <3>1. Dead \in Cell
            BY DEF Cell
        <3>. QED  BY <1>1, <2>1, <2>2, <3>1, ExceptSeq
    <2>4. y = [open |-> x.open, size |-> k, slots |-> t, kind |-> x.kind, flags |-> x.flags, block |-> x.block]
        BY <1>1, <2>1 DEF Members
    <2>5. \A i \in 1..k : t[i] = x.slots[i] /\ x.slots[i] # Dead
        BY <1>1, <2>1, <2>2, <2>3
    <2>6. Vec(y)
        <3>1. Members(y) /\ y.slots = t /\ y.size = k
            BY ONLY <2>4 DEF Members
        <3>. QED  BY <1>1, <2>2, <2>3, <2>5, <3>1 DEF Vec
    <2>7. PICK s : s = Elements(x)
        OBVIOUS
    <2>8. s \in Seq(Cell) /\ Len(s) = n /\ \A i \in 1..n : s[i] = x.slots[i] /\ x.slots[i] \in Cell
        BY <2>1, <2>7, VecElements
    <2>9. \A i \in 1..k : s[i] \in Cell
        BY <2>2, <2>8
    <2>10. /\ SubSeq(s, 1, k) \in Seq(Cell) /\ Len(SubSeq(s, 1, k)) = IF 1 <= k THEN k - 1 + 1 ELSE 0
           /\ \A i \in 1..(k - 1 + 1) : SubSeq(s, 1, k)[i] = s[1 + i - 1]
        BY <2>2, <2>9, SubSeqProperties
    <2>11. Len(SubSeq(s, 1, k)) = k /\ \A i \in 1..k : SubSeq(s, 1, k)[i] = s[i]
        BY <2>2, <2>10
    <2>12. Elements(y) = SubSeq(s, 1, k)
        <3>1. y.size = k /\ y.slots = t /\ \A i \in 1..k : i \in 1..n
            BY ONLY <2>2, <2>4
        <3>2. \A i \in 1..k : t[i] = SubSeq(s, 1, k)[i]
            BY ONLY <2>5, <2>8, <2>11, <3>1
        <3>. QED  BY <2>6, <2>10, <2>11, <3>1, <3>2, ElementsAre
    <2>13. r = [st |-> "ok", a |-> y, heap |-> 0, foreign |-> FALSE, torn |-> FALSE, left |-> 0]
        BY <1>3, <2>1 DEF Outcome
    <2>. QED  BY <2>1, <2>6, <2>7, <2>12, <2>13 DEF Answer
<1>. QED  BY <1>2, <1>3 DEF pop_back

\* set_at replaces one element.
LEMMA SetAtVec ==
    ASSUME NEW x, Vec(x), NEW i \in Nat \ {0}, NEW v \in Element, NEW f, NEW r \in set_at(x, i, v, f)
    PROVE  Answer(x, r, [Elements(x) EXCEPT ![i] = v])
<1>1. Members(x) /\ x.size \in Nat /\ x.slots \in Seq(Cell) /\ (\A j \in 1..x.size : x.slots[j] # Dead)
      /\ x.size <= Len(x.slots) /\ Len(x.slots) \in Nat /\ v \in Cell /\ v # Dead
    BY LenProperties, ArraysConstants DEF Vec, Cell
<1>2. ASSUME NEW st \in {"invalid", "copy"}, r = Outcome(st, x) PROVE Answer(x, r, [Elements(x) EXCEPT ![i] = v])
    BY <1>2 DEF Answer, Outcome
<1>3. ASSUME ~(i > x.size), r = Outcome("ok", [x EXCEPT !.slots[i] = v])
      PROVE  Answer(x, r, [Elements(x) EXCEPT ![i] = v])
    <2>1. PICK t, y : t = [x.slots EXCEPT ![i] = v] /\ y = [x EXCEPT !.slots[i] = v]
        OBVIOUS
    <2>2. i \in 1..Len(x.slots) /\ i \in 1..x.size
        BY <1>1, <1>3
    <2>3. t \in Seq(Cell) /\ Len(t) = Len(x.slots) /\ \A j \in 1..Len(x.slots) : t[j] = IF j = i THEN v ELSE x.slots[j]
        BY <1>1, <2>1, <2>2, ExceptSeq
    <2>4. y = [open |-> x.open, size |-> x.size, slots |-> t, kind |-> x.kind, flags |-> x.flags, block |-> x.block]
        BY <1>1, <2>1 DEF Members
    <2>5. \A j \in 1..x.size : t[j] = (IF j = i THEN v ELSE x.slots[j]) /\ t[j] # Dead
        BY <1>1, <2>2, <2>3
    <2>6. Vec(y)
        <3>1. Members(y) /\ y.slots = t /\ y.size = x.size
            BY ONLY <2>4 DEF Members
        <3>. QED  BY <1>1, <2>3, <2>5, <3>1 DEF Vec
    <2>7. PICK s : s = Elements(x)
        OBVIOUS
    <2>8. s \in Seq(Cell) /\ Len(s) = x.size /\ \A j \in 1..x.size : s[j] = x.slots[j]
        BY <2>7, VecElements
    <2>9. PICK w : w = [s EXCEPT ![i] = v]
        OBVIOUS
    <2>10. w \in Seq(Cell) /\ Len(w) = x.size /\ \A j \in 1..x.size : w[j] = IF j = i THEN v ELSE s[j]
        BY <1>1, <2>2, <2>8, <2>9, ExceptSeq
    <2>11. Elements(y) = w
        <3>1. y.size = x.size /\ \A j \in 1..x.size : y.slots[j] = w[j]
            BY <2>4, <2>5, <2>8, <2>10
        <3>. QED  BY <2>6, <2>10, <3>1, ElementsAre
    <2>12. r = [st |-> "ok", a |-> y, heap |-> 0, foreign |-> FALSE, torn |-> FALSE, left |-> 0]
        BY <1>3, <2>1 DEF Outcome
    <2>. QED  BY <2>6, <2>7, <2>9, <2>11, <2>12 DEF Answer
<1>. QED  BY <1>2, <1>3 DEF set_at

\* What a reference passed to push_back refers to is an object, and the one meant when
\* the elements stay where they are or outlive the move.
LEMMA ReferredIs ==
    ASSUME NEW x, Vec(x), NEW y
    PROVE  /\ \A v \in Element : Referred(x, y, Outside(v)) = v /\ v \in Cell \ {Dead}
           /\ \A i \in 1..x.size : /\ Referred(x, y, Inside(i)) \in Cell \ {Dead}
                                   /\ y = x \/ Outlives(x) => Referred(x, y, Inside(i)) = x.slots[i]
<1>1. Dead \notin Element /\ Garbage # Dead
    BY ArraysConstants
<1>2. \A i \in 1..x.size : x.slots[i] \in Cell /\ x.slots[i] # Dead
    BY VecElements DEF Vec
<1>. QED  BY <1>1, <1>2 DEF Referred, Outside, Inside, Cell

\* push_back of a value, and of an element of the vector.
LEMMA PushBackAnswers ==
    ASSUME form.kind = "vector", NEW x, Vec(x), NEW f
    PROVE  /\ \A v \in Element : \A r \in push_back(x, Outside(v), f) : Answer(x, r, Append(Elements(x), v))
           /\ \A i \in 1..x.size : \A r \in push_back(x, Inside(i), f) :
                /\ \E g : Answer(x, r, g)
                /\ x.size < capacity(x) \/ Outlives(x) => Answer(x, r, Append(Elements(x), Elements(x)[i]))
<1>1. ASSUME NEW v \in Element, NEW r \in push_back(x, Outside(v), f)
      PROVE  Answer(x, r, Append(Elements(x), v))
    <2>1. \A y : Referred(x, y, Outside(v)) = v /\ v \in Cell \ {Dead}
        BY ReferredIs
    <2>2. \E y : /\ Answer(x, r, Append(Elements(x), Referred(x, y, Outside(v))))
                 /\ x.size < Len(x.slots) => y = x
        BY <1>1, <2>1, PushBackVec
    <2>. QED  BY <2>1, <2>2
<1>2. ASSUME NEW i \in 1..x.size, NEW r \in push_back(x, Inside(i), f)
      PROVE  /\ \E g : Answer(x, r, g)
             /\ x.size < capacity(x) \/ Outlives(x) => Answer(x, r, Append(Elements(x), Elements(x)[i]))
    <2>1. \A y : /\ Referred(x, y, Inside(i)) \in Cell \ {Dead}
                 /\ y = x \/ Outlives(x) => Referred(x, y, Inside(i)) = x.slots[i]
        BY <1>2, ReferredIs
    <2>2. PICK y : /\ Answer(x, r, Append(Elements(x), Referred(x, y, Inside(i))))
                   /\ x.size < Len(x.slots) => y = x
        BY <1>2, <2>1, PushBackVec
    <2>3. Elements(x)[i] = x.slots[i]
        BY <1>2, VecElements
    <2>4. ASSUME x.size < capacity(x) \/ Outlives(x) PROVE Answer(x, r, Append(Elements(x), Elements(x)[i]))
        BY <2>1, <2>2, <2>3, <2>4 DEF capacity
    <2>. QED  BY <2>2, <2>4
<1>. QED  BY <1>1, <1>2

\* What growth answers leaves the sequence alone.
LEMMA ReservedAnswer ==
    ASSUME NEW x, NEW n, NEW q, Reserved(x, n, q)
    PROVE  Answer(x, q, Elements(x))
BY DEF Reserved, Answer

\* Every vector acts as the sequence of its elements.
LEMMA VecActs ==
    ASSUME form.kind = "vector", Vec(array)
    PROVE  ActsAsSequence
<1> DEFINE s == Elements(array)
           Holds(results, good) ==
              \A r \in results : \/ r.foreign
                                 \/ Elements(r.a) = IF r.st = "ok" THEN good ELSE s
<1>1. /\ array.size <= capacity(array) /\ array.size \in Nat
      /\ \A i \in 1..array.size : s[i] # Dead
    BY VecElements DEF Vec, capacity
<1>2. ASSUME NEW results, NEW good, \A r \in results : Answer(array, r, good)
      PROVE  Holds(results, good)
    BY <1>2 DEF Answer
<1>3. ASSUME NEW f, NEW v \in Element
      PROVE  /\ \A r \in push_back(array, Outside(v), f) : Answer(array, r, Append(s, v))
             /\ \A i \in 1..MaxCapacity : \A r \in set_at(array, i, v, f) : Answer(array, r, [s EXCEPT ![i] = v])
    <2>1. \A r \in push_back(array, Outside(v), f) : Answer(array, r, Append(s, v))
        BY <1>3, PushBackAnswers
    <2>2. \A i \in 1..MaxCapacity : i \in Nat \ {0}
        BY ArraysConstants
    <2>. QED  BY <1>3, <2>1, <2>2, SetAtVec
<1>4. ASSUME NEW f, NEW i \in 1..array.size, array.size < capacity(array) \/ Outlives(array)
      PROVE  \A r \in push_back(array, Inside(i), f) : Answer(array, r, Append(s, s[i]))
    BY <1>4, PushBackAnswers
<1>5. ASSUME NEW f, NEW o PROVE \A r \in pop_back(array, o, f) : Answer(array, r, SubSeq(s, 1, array.size - 1))
    BY PopBackVec
<1>6. ASSUME NEW f, NEW n \in 1..MaxCapacity PROVE \A r \in reserve(array, n, f) : Answer(array, r, s)
    <2>1. n \in Nat
        BY ArraysConstants
    <2>. QED  BY <2>1, ReserveVec, ReservedAnswer
<1>7. ASSUME NEW f
      PROVE  /\ \A v \in Element : /\ Holds(push_back(array, Outside(v), f), Append(s, v))
                                   /\ \A i \in 1..MaxCapacity : Holds(set_at(array, i, v, f), [s EXCEPT ![i] = v])
             /\ \A i \in 1..array.size : array.size < capacity(array) \/ Outlives(array) =>
                                           Holds(push_back(array, Inside(i), f), Append(s, s[i]))
             /\ \A o \in BOOLEAN : Holds(pop_back(array, o, f), SubSeq(s, 1, array.size - 1))
             /\ \A n \in 1..MaxCapacity : Holds(reserve(array, n, f), s)
    <2>1. ASSUME NEW v \in Element
          PROVE  /\ Holds(push_back(array, Outside(v), f), Append(s, v))
                 /\ \A i \in 1..MaxCapacity : Holds(set_at(array, i, v, f), [s EXCEPT ![i] = v])
        BY <1>2, <1>3
    <2>2. ASSUME NEW i \in 1..array.size, array.size < capacity(array) \/ Outlives(array)
          PROVE  Holds(push_back(array, Inside(i), f), Append(s, s[i]))
        BY <1>2, <1>4, <2>2
    <2>3. ASSUME NEW o PROVE Holds(pop_back(array, o, f), SubSeq(s, 1, array.size - 1))
        BY <1>2, <1>5
    <2>4. ASSUME NEW n \in 1..MaxCapacity PROVE Holds(reserve(array, n, f), s)
        BY <1>2, <1>6
    <2>. QED  BY <2>1, <2>2, <2>3, <2>4
<1>. QED  BY <1>1, <1>7 DEF ActsAsSequence

\* Every open vector has objects in its first size_ slots.
VectorInv == vector => Vec(array)

\* A call whose outcomes are sequences.
LEMMA VecReturn ==
    ASSUME NEW results, Return(results), \A r \in results : \E g : Answer(array, r, g)
    PROVE  VectorInv'
<1>1. PICK r \in results : array' = r.a
    BY DEF Return
<1>2. PICK g : Answer(array, r, g)
    BY <1>1
<1>3. array' = Closed \/ Vec(array')
    BY <1>1, <1>2 DEF Answer
<1>4. array' = Closed => ~array'.open
    BY DEF Closed
<1>. QED  BY <1>3, <1>4 DEF VectorInv, vector, Vec, Members

\* init and clear leave an empty vector.
LEMMA EmptyVec ==
    ASSUME NEW n \in Nat, NEW x, x.slots = [i \in 1..n |-> Dead], x.size = 0, Members(x)
    PROVE  Vec(x)
<1>1. \A i \in 1..n : Dead \in Cell
    BY DEF Cell
<1>2. x.slots \in Seq(Cell) /\ Len(x.slots) = n
    BY <1>1, IsASeq, LenProperties
<1>. QED  BY <1>2 DEF Vec

\* Every call keeps it so.
LEMMA VectorStep == VectorInv /\ [ArrayNext]_arrayVars => VectorInv'
<1> SUFFICES ASSUME VectorInv, [ArrayNext]_arrayVars PROVE VectorInv'
    OBVIOUS
<1>1. ASSUME NEW c \in Forms, NEW n \in Capacities, Open(c, n) PROVE VectorInv'
    <2>1. n \in Nat
        BY ArraysConstants
    <2>2. PICK s, own, flags : array' = [open |-> TRUE, size |-> 0, slots |-> s, kind |-> own, flags |-> flags,
                                         block |-> c.start] /\ s = [i \in 1..n |-> Dead]
        BY <1>1 DEF Open, opened
    <2>3. Members(array')
        BY <2>2 DEF Members
    <2>4. Vec(array')
        BY <2>1, <2>2, <2>3, EmptyVec
    <2>. QED  BY <2>4 DEF VectorInv, Vec, Members
<1>2. ASSUME form' = form, form.kind # "vector" PROVE VectorInv'
    BY <1>2 DEF VectorInv, vector
<1>3. ASSUME vector PROVE Vec(array) /\ form.kind = "vector"
    BY <1>3 DEF VectorInv, vector
<1>4. ASSUME NEW v \in Element, PushBack(v) PROVE VectorInv'
    BY <1>3, <1>4, PushBackAnswers, VecReturn DEF PushBack
<1>5. ASSUME NEW v \in Element, Push(v) PROVE VectorInv'
    BY <1>2, <1>5 DEF Push, pqueue, Return
<1>6. ASSUME NEW v \in Element, NEW i \in 1..MaxCapacity, SetAt(i, v) PROVE VectorInv'
    <2>1. i \in Nat \ {0}
        BY ArraysConstants
    <2>. QED  BY <1>3, <1>6, <2>1, SetAtVec, VecReturn DEF SetAt
<1>7. ASSUME NEW i \in 1..MaxCapacity, PushOwn(i) PROVE VectorInv'
    <2>1. i \in 1..array.size /\ vector
        BY <1>3, <1>7, ArraysConstants DEF PushOwn, Vec
    <2>. QED  BY <1>3, <1>7, <2>1, PushBackAnswers, VecReturn DEF PushOwn
<1>8. ASSUME NEW i \in 1..MaxCapacity, Reserve(i) PROVE VectorInv'
    <2>1. PICK f : Return(reserve(array, i, f)) /\ array.open
        BY <1>8 DEF Reserve
    <2>2. CASE form.kind = "vector"
        <3>1. i \in Nat /\ Vec(array)
            BY <1>3, <2>1, <2>2, ArraysConstants DEF vector
        <3>2. \A r \in reserve(array, i, f) : \E g : Answer(array, r, g)
            BY <2>2, <3>1, ReserveVec, ReservedAnswer
        <3>. QED  BY <2>1, <3>2, VecReturn
    <2>3. CASE form.kind # "vector"
        BY <1>2, <2>1, <2>3 DEF Return
    <2>. QED  BY <2>2, <2>3
<1>9. ASSUME NEW o \in BOOLEAN, PopBack(o) PROVE VectorInv'
    BY <1>3, <1>9, PopBackVec, VecReturn DEF PopBack
<1>10. ASSUME NEW o \in BOOLEAN, Pop(o) PROVE VectorInv'
    BY <1>2, <1>10 DEF Pop, pqueue, Return
<1>11. CASE ClearAll
    <2>1. array.open /\ array' = clear(array) /\ form' = form
        BY <1>11 DEF ClearAll, Return, Outcome
    <2>2. CASE form.kind = "vector"
        <3>1. Vec(array) /\ Members(array) /\ array.slots \in Seq(Cell)
            BY <1>3, <2>1, <2>2 DEF vector, Vec
        <3>2. PICK n \in Nat : n = Len(array.slots) /\ DOMAIN array.slots = 1..n
            BY <3>1, LenProperties
        <3>3. PICK t : t = [i \in 1..n |-> Dead]
            OBVIOUS
        <3>4. array' = [open |-> array.open, size |-> 0, slots |-> t, kind |-> array.kind, flags |-> array.flags,
                        block |-> array.block]
            BY <2>1, <3>1, <3>2, <3>3 DEF clear, Members
        <3>5. Members(array')
            BY <3>4 DEF Members
        <3>6. Vec(array')
            BY <3>2, <3>3, <3>4, <3>5, EmptyVec
        <3>. QED  BY <3>6 DEF VectorInv, Vec, Members
    <2>3. CASE form.kind # "vector"
        BY <1>2, <2>1, <2>3
    <2>. QED  BY <2>2, <2>3
<1>12. CASE Release
    BY <1>12 DEF Release, VectorInv, vector, Closed
<1>13. CASE UNCHANGED arrayVars
    BY <1>13 DEF arrayVars, VectorInv, vector, Vec, Members
<1>. QED  BY <1>1, <1>4, <1>5, <1>6, <1>7, <1>8, <1>9, <1>10, <1>11, <1>12, <1>13, Zenon DEF ArrayNext

\* push_back, pop_back, set_at and reserve act on the sequence of the elements, whichever
\* copy or allocation fails, in every configuration: for all values and capacities.
THEOREM VectorActsAsSequence == ArraySpec => []ActsAsSequence
<1>1. VectorInv => ActsAsSequence
    BY VecActs DEF VectorInv, ActsAsSequence, vector
<1>2. ArrayInit => VectorInv
    BY DEF ArrayInit, VectorInv, vector, Closed
<1>. QED  BY <1>1, <1>2, VectorStep, PTL DEF ArraySpec

-----------------------------------------------------------------------------
(***************************************************************************)
(* The priority queue: counting elements                                   *)
(***************************************************************************)

\* How often v is in the first n slots.
Times(s, n, v) == Cardinality({i \in 1..n : s[i] = v})

\* The last of n slots counts for itself.
LEMMA CountLast ==
    ASSUME NEW s, NEW n \in Nat \ {0}, NEW v
    PROVE  /\ Times(s, n, v) \in Nat /\ Times(s, n - 1, v) \in Nat
           /\ Times(s, n, v) = Times(s, n - 1, v) + IF s[n] = v THEN 1 ELSE 0
<1>1. PICK A, B : A = {i \in 1..(n - 1) : s[i] = v} /\ B = {i \in 1..n : s[i] = v}
    OBVIOUS
<1>2. IsFiniteSet(1..(n - 1)) /\ A \subseteq 1..(n - 1)
    BY <1>1, FS_Interval
<1>3. IsFiniteSet(A) /\ Cardinality(A) \in Nat
    BY <1>2, FS_Subset, FS_CardinalityType
<1>4. Times(s, n, v) = Cardinality(B) /\ Times(s, n - 1, v) = Cardinality(A)
    BY <1>1, Zenon DEF Times
<1>5. CASE s[n] = v
    <2>1. B = A \cup {n} /\ n \notin A
        BY <1>1, <1>5
    <2>2. Cardinality(B) = Cardinality(A) + 1
        BY <1>3, <2>1, FS_AddElement
    <2>. QED  BY <1>3, <1>4, <1>5, <2>2
<1>6. CASE s[n] # v
    <2>1. B = A
        BY <1>1, <1>6
    <2>. QED  BY <1>3, <1>4, <1>6, <2>1
<1>. QED  BY <1>5, <1>6

\* The count depends on the first n slots only.
LEMMA CountSame ==
    ASSUME NEW s, NEW t, NEW n, \A i \in 1..n : s[i] = t[i], NEW v
    PROVE  Times(s, n, v) = Times(t, n, v)
<1>1. {i \in 1..n : s[i] = v} = {i \in 1..n : t[i] = v}
    OBVIOUS
<1>. QED  BY <1>1 DEF Times

\* t is s with two of the first n slots exchanged.
Swapped(s, t, n, l, r) ==
    /\ l \in 1..n /\ r \in 1..n /\ l # r /\ t[l] = s[r] /\ t[r] = s[l]
    /\ \A i \in 1..n : i # l /\ i # r => t[i] = s[i]

\* An exchange loses nothing.
LEMMA CountSwap ==
    ASSUME NEW s, NEW t, NEW n \in Nat, NEW l, NEW r, Swapped(s, t, n, l, r), NEW v
    PROVE  Times(s, n, v) = Times(t, n, v)
<1>1. PICK A, B, D : /\ A = {i \in 1..n : s[i] = v} /\ B = {i \in 1..n : t[i] = v}
                     /\ D = {i \in 1..n : i # l /\ i # r /\ s[i] = v}
    OBVIOUS
<1>2. IsFiniteSet(D)
    <2>1. IsFiniteSet(1..n) /\ D \subseteq 1..n
        BY <1>1, FS_Interval
    <2>. QED  BY <2>1, FS_Subset
<1>3. \A i \in 1..n : i # l /\ i # r => (i \in A <=> i \in D) /\ (i \in B <=> i \in D)
    BY <1>1 DEF Swapped
<1>4. /\ l \notin D /\ r \notin D /\ A \subseteq 1..n /\ B \subseteq 1..n /\ D \subseteq 1..n
      /\ l \in 1..n /\ r \in 1..n /\ l # r
    BY <1>1 DEF Swapped
<1>5. (l \in A <=> r \in B) /\ (r \in A <=> l \in B)
    BY <1>1 DEF Swapped
<1>6. Times(s, n, v) = Cardinality(A) /\ Times(t, n, v) = Cardinality(B)
    BY <1>1, Zenon DEF Times
<1>7. CASE (l \in A /\ r \in A) \/ (l \notin A /\ r \notin A)
    <2>1. \A i \in 1..n : i \in A <=> i \in B
        BY <1>3, <1>5, <1>7
    <2>2. A = B
        BY <1>4, <2>1
    <2>. QED  BY <1>6, <2>2
<1>8. CASE l \in A /\ r \notin A
    <2>1. A = D \cup {l} /\ B = D \cup {r}
        BY <1>3, <1>4, <1>5, <1>8
    <2>2. Cardinality(A) = Cardinality(D) + 1 /\ Cardinality(B) = Cardinality(D) + 1
        BY <1>2, <1>4, <2>1, FS_AddElement
    <2>. QED  BY <1>6, <2>2
<1>9. CASE l \notin A /\ r \in A
    <2>1. A = D \cup {r} /\ B = D \cup {l}
        BY <1>3, <1>4, <1>5, <1>9
    <2>2. Cardinality(A) = Cardinality(D) + 1 /\ Cardinality(B) = Cardinality(D) + 1
        BY <1>2, <1>4, <2>1, FS_AddElement
    <2>. QED  BY <1>6, <2>2
<1>. QED  BY <1>7, <1>8, <1>9

(***************************************************************************)
(* The priority queue: the rounds of a sift                                *)
(***************************************************************************)

\* The slots of a heap of N slots with n elements.
Slot == Element \cup {Dead}
Filled(s, N, n) == s \in [1..N -> Slot] /\ n <= N /\ \A i \in 1..n : s[i] \in Element

\* No element is smaller than its parent.
HeapIn(s, n) == \A j \in 2..n : s[j \div 2] <= s[j]

\* Then none is smaller than the root.
LEMMA RootIsLeast ==
    ASSUME NEW N \in Nat, NEW n \in Nat, NEW s, Filled(s, N, n), HeapIn(s, n)
    PROVE  \A j \in 1..n : s[1] <= s[j]
<1> DEFINE T == {m \in Nat : \A j \in 1..n : j <= m => s[1] <= s[j]}
<1>1. \A j \in 1..n : s[j] \in Nat
    BY ArraysConstants DEF Filled
<1>2. 0 \in T
    OBVIOUS
<1>3. ASSUME NEW m \in Nat, m \in T PROVE m + 1 \in T
    <2>1. SUFFICES ASSUME m + 1 <= n PROVE s[1] <= s[m + 1]
        BY <1>3
    <2>2. CASE m = 0
        BY <1>1, <2>1, <2>2
    <2>3. CASE m # 0
        <3>1. PICK p : p = (m + 1) \div 2
            OBVIOUS
        <3>2. p \in 1..n /\ p <= m /\ m + 1 \in 2..n /\ 1 \in 1..n /\ m + 1 \in 1..n
            BY <2>1, <2>3, <3>1
        <3>3. s[1] <= s[p]
            BY <1>3, <3>2
        <3>4. s[p] <= s[m + 1]
            BY <3>1, <3>2 DEF HeapIn
        <3>. QED  BY <1>1, <3>2, <3>3, <3>4
    <2>. QED  BY <2>2, <2>3
<1>4. n \in T
    <2>. HIDE DEF T
    <2>. QED  BY <1>2, <1>3, SetInduction
<1>. QED  BY <1>4

\* The order holds except that slot i may be smaller than its parent; its children
\* are not smaller than the parent.
OrderUpTo(s, n, i) ==
    /\ \A j \in 2..n : j # i => s[j \div 2] <= s[j]
    /\ i > 1 => \A j \in 2..n : j \div 2 = i => s[i \div 2] <= s[j]

\* The order holds except that slot i may be larger than its children.
OrderBelow(s, n, i) ==
    /\ \A j \in 2..n : j \div 2 # i => s[j \div 2] <= s[j]
    /\ i > 1 => \A j \in 2..n : j \div 2 = i => s[i \div 2] <= s[j]

\* Exchanging slot i with a larger parent moves the exception up.
LEMMA SwapUp ==
    ASSUME NEW n \in Nat, NEW i \in 1..n, i > 1, NEW s, NEW t, \A j \in 1..n : s[j] \in Nat,
           OrderUpTo(s, n, i), s[i] < s[i \div 2], Swapped(s, t, n, i, i \div 2)
    PROVE  OrderUpTo(t, n, i \div 2)
<1>1. PICK p : p = i \div 2
    OBVIOUS
<1>2. p \in 1..n /\ p < i /\ i \in 2..n
    BY <1>1
<1>3. t[i] = s[p] /\ t[p] = s[i] /\ s[i] < s[p] /\ \A j \in 1..n : j # i /\ j # p => t[j] = s[j]
    BY <1>1 DEF Swapped
<1>4. \A j \in 2..n : j \in 1..n /\ j \div 2 \in 1..n /\ j \div 2 < j
    OBVIOUS
<1>5. ASSUME NEW j \in 2..n, j # p PROVE t[j \div 2] <= t[j]
    <2>1. PICK h : h = j \div 2
        OBVIOUS
    <2>2. j \in 1..n /\ h \in 1..n /\ h < j
        BY <1>4, <2>1
    <2>3. s[j] \in Nat /\ s[h] \in Nat /\ s[i] \in Nat /\ s[p] \in Nat
        BY <1>2, <2>2
    <2>4. CASE j = i
        BY <1>1, <1>3, <2>1, <2>3, <2>4
    <2>5. CASE j # i /\ h = i
        <3>1. s[p] <= s[j]
            BY <1>1, <1>5, <2>1, <2>5 DEF OrderUpTo
        <3>. QED  BY <1>3, <1>5, <2>1, <2>2, <2>3, <2>5, <3>1
    <2>6. CASE j # i /\ h # i
        <3>1. s[h] <= s[j]
            BY <1>5, <2>1, <2>6 DEF OrderUpTo
        <3>. QED  BY <1>3, <1>5, <2>1, <2>2, <2>3, <2>6, <3>1
    <2>. QED  BY <2>4, <2>5, <2>6
<1>6. ASSUME p > 1, NEW j \in 2..n, j \div 2 = p PROVE t[p \div 2] <= t[j]
    <2>1. PICK g : g = p \div 2
        OBVIOUS
    <2>2. g \in 1..n /\ g < p /\ p \in 2..n /\ j \in 1..n /\ j # p
        BY <1>2, <1>4, <1>6, <2>1
    <2>3. s[j] \in Nat /\ s[g] \in Nat /\ s[i] \in Nat /\ s[p] \in Nat
        BY <1>2, <2>2
    <2>4. s[g] <= s[p] /\ t[g] = s[g]
        BY <1>2, <1>3, <2>1, <2>2 DEF OrderUpTo
    <2>5. CASE j = i
        BY <1>3, <2>1, <2>4, <2>5
    <2>6. CASE j # i
        <3>1. s[p] <= s[j] /\ t[j] = s[j]
            BY <1>3, <1>6, <2>2, <2>6 DEF OrderUpTo
        <3>. QED  BY <2>1, <2>3, <2>4, <3>1
    <2>. QED  BY <2>5, <2>6
<1>. QED  BY <1>1, <1>5, <1>6 DEF OrderUpTo

\* What smallest finds: slot i, if no child is smaller, or the smallest child.
LEMMA SmallestIs ==
    ASSUME NEW n \in Nat, NEW i \in 1..n, NEW s, \A j \in 1..n : s[j] \in Nat,
           NEW c, c = smallest(s, i, n)
    PROVE  /\ c = i \/ (c \in 2..n /\ c \div 2 = i /\ s[c] < s[i])
           /\ \A j \in 2..n : j \div 2 = i => s[c] <= s[j]
<1>1. PICK l : l = IF 2 * i <= n /\ s[2 * i] < s[i] THEN 2 * i ELSE i
    OBVIOUS
<1>2. c = IF 2 * i + 1 <= n /\ s[2 * i + 1] < s[l] THEN 2 * i + 1 ELSE l
    BY <1>1 DEF smallest
<1>3. \A j \in 2..n : j \div 2 = i => j = 2 * i \/ j = 2 * i + 1
    OBVIOUS
<1>4. (2 * i) \div 2 = i /\ (2 * i + 1) \div 2 = i /\ 2 * i \in Nat /\ 2 * i >= 2
    OBVIOUS
<1>5. /\ 2 * i <= n => 2 * i \in 1..n /\ 2 * i \in 2..n
      /\ 2 * i + 1 <= n => 2 * i + 1 \in 1..n /\ 2 * i + 1 \in 2..n /\ 2 * i <= n
    BY <1>4
<1>6. /\ l = i \/ (l = 2 * i /\ l \in 2..n /\ s[l] < s[i])
      /\ s[l] <= s[i] /\ l \in 1..n
      /\ 2 * i <= n => s[l] <= s[2 * i]
    BY <1>1, <1>4, <1>5
<1>7. /\ c = l \/ (c = 2 * i + 1 /\ c \in 2..n /\ s[c] < s[l])
      /\ s[c] <= s[l] /\ c \in 1..n
      /\ 2 * i + 1 <= n => s[c] <= s[2 * i + 1]
    BY <1>2, <1>5, <1>6
<1>8. s[c] \in Nat /\ s[l] \in Nat /\ s[i] \in Nat
    BY <1>6, <1>7
<1>9. c = i \/ (c \in 2..n /\ c \div 2 = i /\ s[c] < s[i])
    BY <1>4, <1>6, <1>7, <1>8
<1>10. ASSUME NEW j \in 2..n, j \div 2 = i PROVE s[c] <= s[j]
    <2>1. s[j] \in Nat
        OBVIOUS
    <2>. QED  BY <1>3, <1>6, <1>7, <1>8, <1>10, <2>1
<1>. QED  BY <1>9, <1>10

\* Exchanging slot i with its smallest child moves the exception down.
LEMMA SwapDown ==
    ASSUME NEW n \in Nat, NEW i \in 1..n, NEW c \in 2..n, c \div 2 = i, NEW s, NEW t,
           \A j \in 1..n : s[j] \in Nat, OrderBelow(s, n, i), s[c] < s[i],
           \A j \in 2..n : j \div 2 = i => s[c] <= s[j], Swapped(s, t, n, i, c)
    PROVE  OrderBelow(t, n, c)
<1>1. c \in 1..n /\ i < c /\ i \in Nat
    OBVIOUS
<1>2. t[i] = s[c] /\ t[c] = s[i] /\ \A j \in 1..n : j # i /\ j # c => t[j] = s[j]
    BY DEF Swapped
<1>3. \A j \in 2..n : j \in 1..n /\ j \div 2 \in 1..n /\ j \div 2 < j
    OBVIOUS
<1>4. ASSUME NEW j \in 2..n, j \div 2 # c PROVE t[j \div 2] <= t[j]
    <2>1. PICK h : h = j \div 2
        OBVIOUS
    <2>2. j \in 1..n /\ h \in 1..n /\ h < j /\ h # c
        BY <1>3, <1>4, <2>1
    <2>3. s[j] \in Nat /\ s[h] \in Nat /\ s[i] \in Nat /\ s[c] \in Nat
        BY <1>1, <2>2
    <2>4. CASE h = i
        BY <1>2, <2>1, <2>2, <2>3, <2>4
    <2>5. CASE h # i /\ j = i
        <3>1. s[h] <= s[c]
            BY <1>1, <2>1, <2>2, <2>5 DEF OrderBelow
        <3>. QED  BY <1>1, <1>2, <2>1, <2>2, <2>5, <3>1
    <2>6. CASE h # i /\ j # i
        <3>1. s[h] <= s[j] /\ j # c
            BY <1>4, <2>1, <2>6 DEF OrderBelow
        <3>. QED  BY <1>2, <2>1, <2>2, <2>6, <3>1
    <2>. QED  BY <2>4, <2>5, <2>6
<1>5. ASSUME NEW j \in 2..n, j \div 2 = c PROVE t[c \div 2] <= t[j]
    <2>1. j \in 1..n /\ c < j /\ c # i /\ j # i
        BY <1>1, <1>3, <1>5
    <2>2. s[c] <= s[j]
        BY <1>5, <2>1 DEF OrderBelow
    <2>. QED  BY <1>2, <2>1, <2>2
<1>. QED  BY <1>4, <1>5 DEF OrderBelow

\* The loop of a sift over N slots, in any of its rounds.
Loop(N) == [i : 1..N, slots : [1..N -> Slot], left : Int, st : {"run", "ok", "copy"}]

\* What a round does that goes on to slot j: nothing, when the loop has ended; it ends
\* where it stays or when a copy fails, and otherwise exchanges two slots.
Went(c, j, d) ==
    \/ c.st # "run" /\ d = c
    \/ c.st = "run" /\ j = c.i /\ d.st = "ok" /\ d.slots = c.slots
    \/ c.st = "run" /\ j # c.i /\ d.st = "copy"
    \/ /\ c.st = "run" /\ j # c.i /\ d.st = "run" /\ d.i = j
       /\ \A n \in Nat : c.i <= n /\ j <= n /\ 1..n \subseteq DOMAIN c.slots =>
                            Swapped(c.slots, d.slots, n, c.i, j)
       /\ \A k \in DOMAIN c.slots : k # c.i /\ k # j => d.slots[k] = c.slots[k]

Target(c, up, n) == IF up THEN parent(c.slots, c.i) ELSE smallest(c.slots, c.i, n)

LEMMA RoundIs ==
    ASSUME NEW N \in Nat, NEW n \in 1..N, NEW up, NEW c \in Loop(N)
    PROVE  /\ Target(c, up, n) \in 1..N /\ sift_round(c, up, n) \in Loop(N)
           /\ Went(c, Target(c, up, n), sift_round(c, up, n))
<1>1. PICK i, s, l, st : /\ c = [i |-> i, slots |-> s, left |-> l, st |-> st] /\ i \in 1..N
                         /\ s \in [1..N -> Slot] /\ l \in Int /\ st \in {"run", "ok", "copy"}
    BY DEF Loop
<1>2. PICK j : j = Target(c, up, n)
    OBVIOUS
<1>3. j \in 1..N
    <2>1. (i > 1 => i \div 2 \in 1..N) /\ (2 * i <= n => 2 * i \in 1..N)
          /\ (2 * i + 1 <= n => 2 * i + 1 \in 1..N)
        BY <1>1
    <2>2. parent(s, i) \in 1..N
        BY <1>1, <2>1 DEF parent
    <2>3. smallest(s, i, n) \in 1..N
        BY <1>1, <2>1 DEF smallest
    <2>. QED  BY <1>1, <1>2, <2>2, <2>3 DEF Target
<1>4. PICK d : d = sift_round(c, up, n)
    OBVIOUS
<1>5. d = IF c.st # "run" THEN c
          ELSE IF j = c.i THEN [c EXCEPT !.st = "ok"]
          ELSE IF c.left >= 3
               THEN [c EXCEPT !.i = j, !.slots = swap_elements(c.slots, c.i, j), !.left = @ - 3]
          ELSE [c EXCEPT !.st = "copy",
                         !.slots = IF c.left = 2 THEN [c.slots EXCEPT ![c.i] = c.slots[j]] ELSE c.slots]
    BY <1>2, <1>4 DEF sift_round, Target
<1>6. CASE st # "run"
    BY <1>1, <1>2, <1>3, <1>4, <1>5, <1>6 DEF Went
<1>7. CASE st = "run" /\ j = i
    <2>1. d = [i |-> i, slots |-> s, left |-> l, st |-> "ok"]
        BY <1>1, <1>5, <1>7
    <2>2. d \in Loop(N) /\ d.st = "ok" /\ d.slots = s
        BY <1>1, <2>1 DEF Loop
    <2>. QED  BY <1>1, <1>2, <1>3, <1>4, <1>7, <2>2 DEF Went
<1>8. CASE st = "run" /\ j # i /\ ~(l >= 3)
    <2>1. PICK t : t = IF l = 2 THEN [s EXCEPT ![i] = s[j]] ELSE s
        OBVIOUS
    <2>2. t \in [1..N -> Slot]
        BY <1>1, <1>3, <2>1
    <2>3. d = [i |-> i, slots |-> t, left |-> l, st |-> "copy"]
        BY <1>1, <1>5, <1>8, <2>1
    <2>4. d \in Loop(N) /\ d.st = "copy"
        BY <1>1, <2>2, <2>3 DEF Loop
    <2>. QED  BY <1>1, <1>2, <1>3, <1>4, <1>8, <2>4 DEF Went
<1>9. CASE st = "run" /\ j # i /\ l >= 3
    <2>1. PICK t : t = [s EXCEPT ![i] = s[j], ![j] = s[i]]
        OBVIOUS
    <2>2. t \in [1..N -> Slot]
        BY <1>1, <1>3, <2>1
    <2>3. t[i] = s[j] /\ t[j] = s[i] /\ \A k \in 1..N : k # i /\ k # j => t[k] = s[k]
        BY <1>1, <1>3, <1>9, <2>1
    <2>4. d = [i |-> j, slots |-> t, left |-> l - 3, st |-> "run"]
        BY <1>1, <1>5, <1>9, <2>1 DEF swap_elements
    <2>5. d \in Loop(N)
        BY <1>1, <1>3, <2>2, <2>4 DEF Loop
    <2>6. ASSUME NEW m \in Nat, i <= m, j <= m, 1..m \subseteq 1..N PROVE Swapped(s, t, m, i, j)
        BY <1>1, <1>3, <1>9, <2>3, <2>6 DEF Swapped
    <2>7. DOMAIN s = 1..N
        BY <1>1
    <2>8. Went(c, j, d)
        BY <1>1, <1>9, <2>3, <2>4, <2>6, <2>7 DEF Went
    <2>. QED  BY <1>2, <1>3, <1>4, <2>5, <2>8
<1>. QED  BY <1>1, <1>6, <1>7, <1>8, <1>9

\* A sift goes through a sequence of such rounds, one for each slot.
Sifts(N, up, slots, start, n, budget, at) ==
    /\ at \in [0..N -> Loop(N)]
    /\ at[0] = [i |-> start, slots |-> slots, left |-> budget, st |-> "run"]
    /\ \A k \in 1..N : at[k] = sift_round(at[k - 1], up, n)
    /\ sift(up, slots, start, n, budget) = at[N]

LEMMA SiftIs ==
    ASSUME NEW N \in Nat \ {0}, NEW slots \in Seq(Slot), Len(slots) = N, NEW n \in 1..N,
           NEW start \in 1..N, NEW budget \in Int, NEW up
    PROVE  \E at : Sifts(N, up, slots, start, n, budget, at)
<1> DEFINE c0 == [i |-> start, slots |-> slots, left |-> budget, st |-> "run"]
           Body(f) == [k \in 0..N |-> IF k = 0 THEN c0 ELSE sift_round(f[k - 1], up, n)]
           at == CHOOSE f : f = Body(f)
           S == Loop(N)
<1>1. c0 \in S /\ N \in Nat
    BY LenProperties DEF Loop
<1>2. \A c \in S : sift_round(c, up, n) \in S
    BY RoundIs
<1>3. \E f : f = Body(f)
    <2>. HIDE DEF c0
    <2>1. PICK step : step = [k \in 1..N |-> [c \in S |-> sift_round(c, up, n)]]
        OBVIOUS
    <2>. HIDE DEF S
    <2>2. ASSUME NEW k \in 1..N, NEW c \in S PROVE step[k][c] = sift_round(c, up, n) /\ step[k][c] \in S
        BY <1>2, <2>1
    <2>3. StepsIn(S, N, step)
        BY <2>2 DEF StepsIn
    <2>4. PICK f : FollowsSteps(S, N, c0, step, f)
        BY <1>1, <2>3, StepsExist
    <2>5. f \in [0..N -> S] /\ f[0] = c0 /\ \A k \in 1..N : f[k] = step[k][f[k - 1]]
        BY <2>4 DEF FollowsSteps
    <2>6. ASSUME NEW k \in 0..N PROVE f[k] = IF k = 0 THEN c0 ELSE sift_round(f[k - 1], up, n)
        <3>1. CASE k # 0
            <4>1. k \in 1..N /\ k - 1 \in 0..N
                BY <3>1
            <4>2. f[k - 1] \in S
                BY <2>5, <4>1
            <4>. QED  BY <2>2, <2>5, <3>1, <4>1, <4>2
        <3>. QED  BY <2>5, <3>1
    <2>7. f = [k \in 0..N |-> f[k]]
        BY <2>5
    <2>8. f = Body(f)
        BY <2>6, <2>7
    <2>. QED  BY <2>8
<1>4. at = Body(at)
    BY <1>3, Zenon
<1>5. sift(up, slots, start, n, budget) = at[N]
    BY Zenon DEF sift
<1>6. PICK g : g = at
    BY Zenon
<1>7. g = Body(g)
    BY <1>4, <1>6
<1>. HIDE DEF at, c0
<1>8. \A k \in 0..N : g[k] = IF k = 0 THEN c0 ELSE sift_round(g[k - 1], up, n)
    BY <1>7
<1>9. g[0] = c0 /\ \A k \in 1..N : g[k] = sift_round(g[k - 1], up, n)
    BY <1>8
<1> DEFINE T == {k \in Nat : k <= N => g[k] \in S}
<1>10. 0 \in T
    BY <1>1, <1>9
<1>. HIDE DEF S
<1>11. ASSUME NEW k \in Nat, k \in T PROVE k + 1 \in T
    <2>1. SUFFICES ASSUME k + 1 <= N PROVE g[k + 1] \in S
        OBVIOUS
    <2>2. k + 1 \in 1..N /\ (k + 1) - 1 = k /\ g[k] \in S
        BY <1>11, <2>1
    <2>. QED  BY <1>2, <1>9, <2>2
<1>12. \A k \in Nat : k \in T
    <2>. HIDE DEF T
    <2>. QED  BY <1>10, <1>11, SetInduction
<1>13. \A k \in 0..N : g[k] \in S
    BY <1>12
<1>14. g \in [0..N -> S]
    BY <1>7, <1>13
<1>. QED  BY <1>5, <1>6, <1>9, <1>14 DEF Sifts, c0, S

\* After k rounds, unless a copy failed: the elements are those of slots, and the order
\* holds but for the slot the loop is at, or, when it has ended, everywhere.
Going(N, up, slots, n, k, c) ==
    /\ c \in Loop(N)
    /\ c.st # "copy" => /\ c.i \in 1..n /\ Filled(c.slots, N, n)
                        /\ \A v : Times(c.slots, n, v) = Times(slots, n, v)
    /\ c.st = "run" /\ up => OrderUpTo(c.slots, n, c.i) /\ c.i + k <= n
    /\ c.st = "run" /\ ~up => OrderBelow(c.slots, n, c.i) /\ c.i >= k + 1
    /\ c.st = "ok" => HeapIn(c.slots, n)

\* Where a sift goes on: the slot in the way, or nowhere, since the order holds.
LEMMA TargetIs ==
    ASSUME NEW N \in Nat, NEW n \in 1..N, NEW up \in BOOLEAN, NEW slots, NEW k, NEW c,
           Going(N, up, slots, n, k, c), c.st = "run", NEW j, j = Target(c, up, n)
    PROVE  /\ j = c.i => HeapIn(c.slots, n)
           /\ j # c.i /\ up => j = c.i \div 2 /\ c.i > 1 /\ c.slots[c.i] < c.slots[j]
           /\ j # c.i /\ ~up => /\ j \in 2..n /\ j \div 2 = c.i /\ c.slots[j] < c.slots[c.i]
                                /\ \A h \in 2..n : h \div 2 = c.i => c.slots[j] <= c.slots[h]
<1>1. PICK i, s : i = c.i /\ s = c.slots
    OBVIOUS
<1>2. i \in 1..n /\ \A h \in 1..n : s[h] \in Nat
    BY <1>1, ArraysConstants DEF Going, Filled
<1>3. CASE up = TRUE
    <2>1. j = parent(s, i) /\ OrderUpTo(s, n, i)
        BY <1>1, <1>3 DEF Target, Going
    <2>2. CASE i > 1 /\ s[i] < s[i \div 2]
        BY <1>1, <1>2, <1>3, <2>1, <2>2 DEF parent
    <2>3. CASE ~(i > 1 /\ s[i] < s[i \div 2])
        <3>1. j = i
            BY <2>1, <2>3 DEF parent
        <3>2. ASSUME NEW h \in 2..n PROVE s[h \div 2] <= s[h]
            <4>1. h \in 1..n /\ h \div 2 \in 1..n
                OBVIOUS
            <4>. QED  BY <1>2, <2>1, <2>3, <4>1 DEF OrderUpTo
        <3>. QED  BY <1>1, <3>1, <3>2 DEF HeapIn
    <2>. QED  BY <2>2, <2>3
<1>4. CASE up = FALSE
    <2>1. j = smallest(s, i, n) /\ OrderBelow(s, n, i)
        BY <1>1, <1>4 DEF Target, Going
    <2>2. /\ j = i \/ (j \in 2..n /\ j \div 2 = i /\ s[j] < s[i])
          /\ \A h \in 2..n : h \div 2 = i => s[j] <= s[h]
        BY <1>2, <2>1, SmallestIs
    <2>3. j = i => HeapIn(s, n)
        BY <2>1, <2>2 DEF HeapIn, OrderBelow
    <2>. QED  BY <1>1, <1>4, <2>2, <2>3
<1>. QED  BY <1>3, <1>4

\* A round keeps it.
LEMMA RoundKeeps ==
    ASSUME NEW N \in Nat, NEW n \in 1..N, NEW up \in BOOLEAN, NEW slots, NEW k \in Nat, NEW c,
           Going(N, up, slots, n, k, c)
    PROVE  Going(N, up, slots, n, k + 1, sift_round(c, up, n))
<1>1. PICK d, j : d = sift_round(c, up, n) /\ j = Target(c, up, n)
    OBVIOUS
<1>2. c \in Loop(N)
    BY DEF Going
<1>3. d \in Loop(N) /\ j \in 1..N /\ Went(c, j, d)
    BY <1>1, <1>2, RoundIs
<1>4. CASE c.st # "run" /\ d = c
    BY <1>1, <1>4 DEF Going
<1>5. CASE c.st = "run" /\ j = c.i /\ d.st = "ok" /\ d.slots = c.slots
    <2>1. HeapIn(c.slots, n)
        BY <1>1, <1>5, TargetIs
    <2>2. Filled(c.slots, N, n) /\ \A v : Times(c.slots, n, v) = Times(slots, n, v)
        BY <1>5 DEF Going
    <2>3. c.i \in 1..n /\ d.i = c.i
        <3>1. d = IF j = c.i THEN [c EXCEPT !.st = "ok"] ELSE d
            BY <1>1, <1>5 DEF sift_round, Target
        <3>. QED  BY <1>2, <1>5, <3>1 DEF Going, Loop
    <2>. QED  BY <1>1, <1>3, <1>5, <2>1, <2>2, <2>3 DEF Going
<1>6. CASE c.st = "run" /\ j # c.i /\ d.st = "copy"
    BY <1>1, <1>3, <1>6 DEF Going
<1>7. CASE c.st = "run" /\ j # c.i /\ d.st = "run" /\ d.i = j
           /\ (\A m \in Nat : c.i <= m /\ j <= m /\ 1..m \subseteq DOMAIN c.slots =>
                                Swapped(c.slots, d.slots, m, c.i, j))
    <2>1. PICK i, s, t : i = c.i /\ s = c.slots /\ t = d.slots
        OBVIOUS
    <2>2. /\ i \in 1..n /\ Filled(s, N, n) /\ \A v : Times(s, n, v) = Times(slots, n, v)
        BY <1>7, <2>1 DEF Going
    <2>3. \A h \in 1..n : s[h] \in Nat /\ s[h] \in Element
        BY <2>2, ArraysConstants DEF Filled
    <2>4. /\ up = TRUE => j = i \div 2 /\ i > 1 /\ s[i] < s[j] /\ OrderUpTo(s, n, i) /\ i + k <= n
          /\ up = FALSE => /\ j \in 2..n /\ j \div 2 = i /\ s[j] < s[i] /\ OrderBelow(s, n, i)
                           /\ i >= k + 1 /\ \A h \in 2..n : h \div 2 = i => s[j] <= s[h]
        <3>1. up = TRUE => j = i \div 2 /\ i > 1 /\ s[i] < s[j]
            <4>1. j # c.i /\ up => j = c.i \div 2 /\ c.i > 1 /\ c.slots[c.i] < c.slots[j]
                BY <1>1, <1>7, TargetIs
            <4>. QED  BY <1>7, <2>1, <4>1
        <3>2. up = FALSE => /\ j \in 2..n /\ j \div 2 = i /\ s[j] < s[i]
                            /\ \A h \in 2..n : h \div 2 = i => s[j] <= s[h]
            BY <1>1, <1>7, <2>1, TargetIs
        <3>. QED  BY <1>7, <2>1, <3>1, <3>2 DEF Going
    <2>5. j \in 1..n
        BY <2>2, <2>4
    <2>6. Swapped(s, t, n, i, j)
        <3>1. DOMAIN s = 1..N /\ n \in Nat /\ 1..n \subseteq 1..N
            BY <2>2 DEF Filled
        <3>. QED  BY <1>7, <2>1, <2>2, <2>5, <3>1
    <2>7. \A v : Times(t, n, v) = Times(slots, n, v)
        <3>1. n \in Nat
            OBVIOUS
        <3>. QED  BY <2>2, <2>6, <3>1, CountSwap
    <2>8. Filled(t, N, n)
        <3>1. t \in [1..N -> Slot] /\ n <= N
            BY <1>3, <2>1 DEF Loop
        <3>2. \A h \in 1..n : t[h] \in Element
            BY <2>2, <2>3, <2>5, <2>6 DEF Swapped
        <3>. QED  BY <3>1, <3>2 DEF Filled
    <2>9. n \in Nat
        OBVIOUS
    <2>10. up => OrderUpTo(t, n, j) /\ j + (k + 1) <= n
        <3>1. ASSUME up = TRUE PROVE OrderUpTo(t, n, j)
            BY <2>2, <2>3, <2>4, <2>6, <2>9, <3>1, SwapUp
        <3>2. ASSUME up = TRUE PROVE j + (k + 1) <= n
            BY <2>2, <2>4, <3>2
        <3>. QED  BY <3>1, <3>2
    <2>11. ~up => OrderBelow(t, n, j) /\ j >= (k + 1) + 1
        <3>1. ASSUME up = FALSE PROVE OrderBelow(t, n, j)
            BY <2>2, <2>3, <2>4, <2>6, <2>9, <3>1, SwapDown
        <3>2. ASSUME up = FALSE PROVE j >= (k + 1) + 1
            BY <2>2, <2>4, <3>2
        <3>. QED  BY <3>1, <3>2
    <2>. QED  BY <1>1, <1>3, <1>7, <2>1, <2>5, <2>7, <2>8, <2>10, <2>11 DEF Going
<1>. QED  BY <1>3, <1>4, <1>5, <1>6, <1>7 DEF Went

\* What is left of the elements when a sift ends: a heap of the same elements, or, when a
\* copy failed, nothing is said.
Sorted(N, slots, n, r) ==
    /\ r.slots \in [1..N -> Slot] /\ r.st \in {"ok", "copy"}
    /\ r.st = "ok" => /\ Filled(r.slots, N, n) /\ HeapIn(r.slots, n)
                      /\ \A v : Times(r.slots, n, v) = Times(slots, n, v)

LEMMA SiftSorts ==
    ASSUME NEW N \in Nat, NEW n \in 1..N, NEW slots \in Seq(Slot), Len(slots) = N,
           Filled(slots, N, n), NEW budget \in Int, NEW up \in BOOLEAN,
           NEW start \in 1..n, up => start = n /\ OrderUpTo(slots, n, n),
           ~up => OrderBelow(slots, n, start)
    PROVE  Sorted(N, slots, n, sift(up, slots, start, n, budget))
<1>1. PICK at : Sifts(N, up, slots, start, n, budget, at)
    <2>1. N \in Nat \ {0} /\ start \in 1..N
        OBVIOUS
    <2>. QED  BY <2>1, SiftIs
<1>2. at \in [0..N -> Loop(N)] /\ \A k \in 1..N : at[k] = sift_round(at[k - 1], up, n)
    BY <1>1 DEF Sifts
<1> DEFINE T == {k \in Nat : k <= N => Going(N, up, slots, n, k, at[k])}
<1>3. 0 \in T
    <2>1. at[0] = [i |-> start, slots |-> slots, left |-> budget, st |-> "run"]
        BY <1>1 DEF Sifts
    <2>2. PICK c : c = at[0]
        OBVIOUS
    <2>3. c \in Loop(N) /\ c.i = start /\ c.slots = slots /\ c.st = "run"
        BY <1>2, <2>1, <2>2
    <2>4. Going(N, up, slots, n, 0, c)
        BY <2>3 DEF Going
    <2>. QED  BY <2>2, <2>4
<1>4. ASSUME NEW k \in Nat, k \in T PROVE k + 1 \in T
    <2>1. SUFFICES ASSUME k + 1 <= N PROVE Going(N, up, slots, n, k + 1, at[k + 1])
        OBVIOUS
    <2>2. k + 1 \in 1..N /\ (k + 1) - 1 = k /\ Going(N, up, slots, n, k, at[k])
        BY <1>4, <2>1
    <2>3. at[k + 1] = sift_round(at[k], up, n)
        BY <1>2, <2>2
    <2>. QED  BY <2>2, <2>3, RoundKeeps
<1>5. N \in T
    <2>. HIDE DEF T
    <2>. QED  BY <1>3, <1>4, SetInduction
<1>6. PICK r : r = at[N]
    OBVIOUS
<1>7. Going(N, up, slots, n, N, r) /\ r = sift(up, slots, start, n, budget)
    BY <1>1, <1>5, <1>6 DEF Sifts
<1>8. r \in Loop(N)
    BY <1>7 DEF Going
<1>9. r.st \in {"run", "ok", "copy"} /\ r.slots \in [1..N -> Slot] /\ r.i \in 1..N
    BY <1>8 DEF Loop
<1>10. ASSUME r.st = "run" PROVE FALSE
    <2>1. r.i \in 1..n /\ (up = TRUE => r.i + N <= n) /\ (up = FALSE => r.i >= N + 1)
        BY <1>7, <1>10 DEF Going
    <2>. QED  BY <1>9, <2>1
<1>. QED  BY <1>7, <1>9, <1>10 DEF Going, Sorted

(***************************************************************************)
(* The priority queue: the calls                                           *)
(***************************************************************************)

\* A priority queue whose elements are a heap.
Store(x) ==
    /\ Members(x) /\ x.slots \in Seq(Slot) /\ x.size \in Nat
    /\ Filled(x.slots, Len(x.slots), x.size)
Heap(x) == Store(x) /\ HeapIn(x.slots, x.size)

LEMMA StoreIs ==
    ASSUME NEW x, Store(x)
    PROVE  /\ Len(x.slots) \in Nat /\ DOMAIN x.slots = 1..Len(x.slots) /\ x.size <= Len(x.slots)
           /\ \A i \in 1..x.size : x.slots[i] \in Element /\ x.slots[i] \in Nat
BY LenProperties, ArraysConstants DEF Store, Filled

\* The elements are the first slots.
LEMMA StoreElements ==
    ASSUME NEW x, NEW y, Store(x), Store(y), x.size = y.size,
           \A i \in 1..x.size : x.slots[i] = y.slots[i]
    PROVE  Elements(x) = Elements(y)
<1>1. ASSUME NEW z, Store(z) PROVE Vec(z)
    <2>1. z.slots \in [1..Len(z.slots) -> Slot] /\ Len(z.slots) \in Nat
        BY <1>1, StoreIs DEF Store, Filled
    <2>2. \A i \in 1..Len(z.slots) : z.slots[i] \in Cell
        BY <2>1 DEF Slot, Cell
    <2>3. z.slots = [i \in 1..Len(z.slots) |-> z.slots[i]]
        BY <2>1
    <2>4. z.slots \in Seq(Cell)
        BY <2>1, <2>2, <2>3, IsASeq
    <2>5. \A i \in 1..z.size : z.slots[i] # Dead
        BY <1>1, StoreIs, ArraysConstants
    <2>. QED  BY <1>1, <2>4, <2>5, StoreIs DEF Store, Vec
<1>2. PICK s : s = Elements(y)
    OBVIOUS
<1>3. Vec(y) /\ Vec(x)
    BY <1>1
<1>4. s \in Seq(Cell) /\ Len(s) = y.size /\ \A i \in 1..y.size : s[i] = y.slots[i]
    BY <1>2, <1>3, VecElements
<1>5. Elements(x) = s
    BY <1>3, <1>4, ElementsAre
<1>. QED  BY <1>2, <1>5

\* The same elements in other slots.
LEMMA HeapCopied ==
    ASSUME NEW x, Heap(x), NEW y, Members(y), NEW m \in Nat, y.size = x.size, x.size <= m,
           y.slots = [i \in 1..m |-> IF i <= x.size THEN x.slots[i] ELSE Dead]
    PROVE  /\ Heap(y) /\ Len(y.slots) = m /\ Elements(y) = Elements(x)
           /\ \A i \in 1..x.size : y.slots[i] = x.slots[i]
<1>1. x.size \in Nat /\ \A i \in 1..x.size : x.slots[i] \in Element
    BY StoreIs DEF Heap, Store
<1>2. PICK t : t = [i \in 1..m |-> IF i <= x.size THEN x.slots[i] ELSE Dead]
    OBVIOUS
<1>3. \A i \in 1..m : t[i] \in Slot
    BY <1>1, <1>2 DEF Slot
<1>4. t \in Seq(Slot) /\ Len(t) = m
    BY <1>2, <1>3, IsASeq, LenProperties
<1>5. \A i \in 1..x.size : t[i] = x.slots[i]
    BY <1>1, <1>2
<1>6. Filled(t, m, x.size)
    BY <1>1, <1>2, <1>3, <1>5 DEF Filled
<1>7. HeapIn(t, x.size)
    <2>1. ASSUME NEW j \in 2..x.size PROVE t[j \div 2] <= t[j]
        <3>1. j \in 1..x.size /\ j \div 2 \in 1..x.size
            BY <1>1
        <3>. QED  BY <1>5, <3>1 DEF Heap, HeapIn
    <2>. QED  BY <2>1 DEF HeapIn
<1>8. Store(y) /\ Heap(y)
    BY <1>1, <1>2, <1>4, <1>6, <1>7 DEF Heap, Store
<1>9. Elements(y) = Elements(x)
    BY <1>2, <1>5, <1>8, StoreElements DEF Heap
<1>. QED  BY <1>2, <1>4, <1>5, <1>8, <1>9

\* What growth to n slots may answer.
Grown(x, n, q) ==
    \/ q.foreign = TRUE /\ q.a = Closed /\ q.st # "ok"
    \/ /\ q.foreign = FALSE /\ q.torn = FALSE
       /\ Heap(q.a) /\ Elements(q.a) = Elements(x) /\ q.a.size = x.size
       /\ \A i \in 1..x.size : q.a.slots[i] = x.slots[i]
       /\ q.st = "ok" => n <= Len(q.a.slots) /\ q.left \in Int

\* grow and reserve of a priority queue.
LEMMA ReserveGrown ==
    ASSUME form.kind = "pqueue", NEW x, Heap(x), NEW n \in Nat, NEW f \in Int,
           NEW q \in reserve(x, n, f)
    PROVE  Grown(x, n, q)
<1>1. PICK m : m = grow_capacity(capacity(x), n)
    OBVIOUS
<1>2. Members(x) /\ x.size \in Nat /\ x.size <= Len(x.slots) /\ Len(x.slots) \in Nat
    BY StoreIs DEF Heap, Store
<1>3. CASE q = [Outcome("ok", x) EXCEPT !.left = f] /\ n <= Len(x.slots)
    BY <1>3 DEF Outcome, Grown
<1>4. ASSUME NEW st \in {"oom", "copy", "full"}, q = Outcome(st, x) PROVE Grown(x, n, q)
    BY <1>4 DEF Outcome, Grown
<1>5. CASE q = Undefined
    BY <1>5 DEF Undefined, Outcome, Grown
<1>6. ASSUME NEW b, NEW g \in Int, m \in Nat, m >= n, n > Len(x.slots), NEW y,
             y = Moved(x, m, b) \/ y = [Moved(x, m, b) EXCEPT !.flags = {"owns", "heap"}],
             q.st = "ok", q.a = y, q.foreign = FALSE, q.torn = FALSE, q.left = g
      PROVE  Grown(x, n, q)
    <2>1. PICK t : t = [i \in 1..m |-> IF i <= x.size THEN x.slots[i] ELSE Dead]
        OBVIOUS
    <2>2. \E e : y = [open |-> x.open, size |-> x.size, slots |-> t, kind |-> x.kind, flags |-> e, block |-> b]
        <3>1. PICK z : z = Moved(x, m, b)
            OBVIOUS
        <3>2. z = [open |-> x.open, size |-> x.size, slots |-> t, kind |-> x.kind, flags |-> x.flags, block |-> b]
            BY <1>2, <2>1, <3>1 DEF Moved, Members
        <3>3. CASE y = z
            BY <3>2, <3>3
        <3>4. CASE y = [z EXCEPT !.flags = {"owns", "heap"}]
            <4>1. y = [open |-> x.open, size |-> x.size, slots |-> t, kind |-> x.kind,
                       flags |-> {"owns", "heap"}, block |-> b]
                BY <3>2, <3>4
            <4>. QED  BY <4>1
        <3>. QED  BY <1>6, <3>1, <3>3, <3>4
    <2>3. Members(y) /\ y.size = x.size /\ y.slots = t
        BY <2>2 DEF Members
    <2>4. /\ Heap(y) /\ Len(y.slots) = m /\ Elements(y) = Elements(x)
          /\ \A i \in 1..x.size : y.slots[i] = x.slots[i]
        BY <1>2, <1>6, <2>1, <2>3, HeapCopied
    <2>. QED  BY <1>6, <2>3, <2>4 DEF Grown
<1>7. CASE q \in reallocate_pqueue(x, m, f) /\ n > Len(x.slots) /\ m \in n..MaxCapacity
    <2>1. m \in Nat /\ m >= n /\ f - x.size \in Int
        BY <1>2, <1>7
    <2>2. CASE q \in realloc(x, m, f)
        <3>1. ASSUME q = [Outcome("ok", Moved(x, m, "heap")) EXCEPT !.left = f] PROVE Grown(x, n, q)
            <4>1. PICK y : y = Moved(x, m, "heap")
                OBVIOUS
            <4>2. q.st = "ok" /\ q.a = y /\ q.foreign = FALSE /\ q.torn = FALSE /\ q.left = f
                BY <3>1, <4>1 DEF Outcome
            <4>. QED  BY <1>6, <1>7, <2>1, <4>1, <4>2
        <3>. QED  BY <1>4, <1>5, <2>2, <3>1 DEF realloc
    <2>3. CASE q \in arena_block(x, m, f)
        <3>1. ASSUME q = [Outcome("ok", Moved(x, m, "arena")) EXCEPT !.left = f - x.size] PROVE Grown(x, n, q)
            <4>1. PICK y : y = Moved(x, m, "arena")
                OBVIOUS
            <4>2. q.st = "ok" /\ q.a = y /\ q.foreign = FALSE /\ q.torn = FALSE /\ q.left = f - x.size
                BY <3>1, <4>1 DEF Outcome
            <4>. QED  BY <1>6, <1>7, <2>1, <4>1, <4>2
        <3>. QED  BY <1>4, <2>3, <3>1 DEF arena_block
    <2>4. CASE q = [Outcome("ok", [Moved(x, m, "heap") EXCEPT !.flags = {"owns", "heap"}])
                      EXCEPT !.heap = 1, !.left = f - x.size]
        <3>1. PICK y : y = [Moved(x, m, "heap") EXCEPT !.flags = {"owns", "heap"}]
            OBVIOUS
        <3>2. q.st = "ok" /\ q.a = y /\ q.foreign = FALSE /\ q.torn = FALSE /\ q.left = f - x.size
            BY <2>4, <3>1 DEF Outcome
        <3>. QED  BY <1>6, <1>7, <2>1, <3>1, <3>2
    <2>. QED  BY <1>4, <1>7, <2>2, <2>3, <2>4 DEF reallocate_pqueue
<1>. QED  BY <1>1, <1>2, <1>3, <1>4, <1>7 DEF reserve, capacity

\* What a call answers that changes the number of v by d: a heap; or a failure that has
\* changed nothing; or nothing is said of what a failed sift left.
Gives(x, r, v, d) ==
    \/ r.foreign = TRUE /\ r.a = Closed /\ r.st # "ok"
    \/ r.torn = TRUE /\ r.foreign = FALSE /\ r.st # "ok"
    \/ /\ r.foreign = FALSE /\ r.torn = FALSE /\ Heap(r.a)
       /\ r.st = "ok" => \A w : Occurrences(r.a, w) = Occurrences(x, w) + IF w = v THEN d ELSE 0
       /\ r.st # "ok" => Elements(r.a) = Elements(x)

\* A sift of the slots of y gives one of these, when the elements of y are to be left.
LEMMA SiftedGives ==
    ASSUME NEW x, NEW y, Members(y), NEW n \in Nat \ {0}, y.size = n, NEW N \in Nat,
           NEW s, Sorted(N, y.slots, n, s), NEW v, NEW d \in Int,
           \A w : Times(y.slots, n, w) = Occurrences(x, w) + IF w = v THEN d ELSE 0,
           NEW h, NEW r, r = [Sifted(y, s) EXCEPT !.heap = h]
    PROVE  Gives(x, r, v, d)
<1>1. PICK z : z = [y EXCEPT !.slots = s.slots]
    OBVIOUS
<1>2. z = [open |-> y.open, size |-> n, slots |-> s.slots, kind |-> y.kind, flags |-> y.flags, block |-> y.block]
    BY <1>1 DEF Members
<1>3. PICK u : u = (s.st # "ok") /\ u \in BOOLEAN
    OBVIOUS
<1>4. r = [st |-> s.st, a |-> z, heap |-> h, foreign |-> FALSE, torn |-> u, left |-> 0]
    BY <1>1, <1>3 DEF Sifted, Outcome
<1>5. CASE s.st # "ok"
    <2>1. u = TRUE
        BY <1>3, <1>5
    <2>2. r.torn = u /\ r.foreign = FALSE /\ r.st = s.st
        BY <1>4
    <2>. QED  BY <1>5, <2>1, <2>2, Zenon DEF Gives
<1>6. CASE s.st = "ok"
    <2>1. /\ Filled(s.slots, N, n) /\ HeapIn(s.slots, n)
          /\ \A w : Times(s.slots, n, w) = Times(y.slots, n, w)
        BY <1>6 DEF Sorted
    <2>2. s.slots \in Seq(Slot) /\ Len(s.slots) = N
        <3>1. s.slots \in [1..N -> Slot]
            BY DEF Sorted
        <3>2. s.slots = [i \in 1..N |-> s.slots[i]] /\ \A i \in 1..N : s.slots[i] \in Slot
            BY <3>1
        <3>. QED  BY <3>1, <3>2, IsASeq, LenProperties
    <2>3. Members(z) /\ z.size = n /\ z.slots = s.slots
        BY <1>2 DEF Members
    <2>4. Heap(z)
        BY <2>1, <2>2, <2>3 DEF Heap, Store
    <2>5. \A w : Occurrences(z, w) = Times(s.slots, n, w)
        BY <2>3, Zenon DEF Occurrences, Times
    <2>6. \A w : Occurrences(z, w) = Occurrences(x, w) + IF w = v THEN d ELSE 0
        BY <2>1, <2>5
    <2>7. u = FALSE
        BY <1>3, <1>6
    <2>8. r.a = z /\ r.torn = FALSE /\ r.foreign = FALSE /\ r.st = "ok"
        BY <1>4, <1>6, <2>7
    <2>. QED  BY <2>4, <2>6, <2>8, Zenon DEF Gives
<1>. QED  BY <1>5, <1>6

\* push appends the element, and takes it up.
LEMMA PushGives ==
    ASSUME form.kind = "pqueue", NEW x, Heap(x), NEW v \in Element, NEW f \in Int,
           NEW r \in push(x, v, f)
    PROVE  Gives(x, r, v, 1)
<1>1. x.size \in Nat /\ \A i \in 1..x.size : x.slots[i] \in Element
    BY StoreIs DEF Heap, Store
<1>2. PICK n : n = x.size + 1
    OBVIOUS
<1>3. PICK q \in reserve(x, n, f) :
              r \in IF q.st # "ok" THEN {q}
                    ELSE {[t EXCEPT !.heap = @ + q.heap] :
                            t \in LET y == [q.a EXCEPT !.slots[n] = v, !.size = @ + 1]
                                  IN  IF q.left = 0 THEN {Outcome("copy", q.a)}
                                      ELSE {Sifted(y, sift_up(y.slots, y.size, q.left - 1))}}
    BY <1>2 DEF push, After
<1>4. Grown(x, n, q)
    <2>1. n \in Nat
        BY <1>1, <1>2
    <2>. QED  BY <1>3, <2>1, ReserveGrown
<1>5. PICK y : y = [q.a EXCEPT !.slots[n] = v, !.size = @ + 1]
    OBVIOUS
<1>6. CASE q.st # "ok" /\ r = q
    BY <1>4, <1>6 DEF Grown, Gives
<1>7. CASE q.st = "ok" /\ r = [Outcome("copy", q.a) EXCEPT !.heap = @ + q.heap]
    <2>1. q.foreign = FALSE /\ Heap(q.a) /\ Elements(q.a) = Elements(x)
        BY <1>4, <1>7 DEF Grown
    <2>2. r.foreign = FALSE /\ r.torn = FALSE /\ r.a = q.a /\ r.st = "copy"
        BY <1>7 DEF Outcome
    <2>. QED  BY <2>1, <2>2 DEF Gives
<1>8. CASE q.st = "ok" /\ r = [Sifted(y, sift_up(y.slots, y.size, q.left - 1)) EXCEPT !.heap = @ + q.heap]
    <2>1. PICK z, N : z = q.a /\ N = Len(z.slots)
        OBVIOUS
    <2>2. /\ Heap(z) /\ z.size = x.size /\ n <= N /\ q.left \in Int
          /\ \A i \in 1..x.size : z.slots[i] = x.slots[i]
        BY <1>4, <1>8, <2>1 DEF Grown
    <2>3. /\ Members(z) /\ z.slots \in Seq(Slot) /\ N \in Nat /\ HeapIn(z.slots, z.size)
          /\ DOMAIN z.slots = 1..N
        BY <2>1, <2>2, StoreIs DEF Heap, Store
    <2>4. n \in 1..N /\ n \in Nat \ {0} /\ n - 1 = x.size
        BY <1>1, <1>2, <2>2, <2>3
    <2>5. PICK t : t = [z.slots EXCEPT ![n] = v]
        OBVIOUS
    <2>6. t \in Seq(Slot) /\ Len(t) = N /\ \A i \in 1..N : t[i] = IF i = n THEN v ELSE z.slots[i]
        <3>1. v \in Slot
            BY DEF Slot
        <3>. QED  BY <2>1, <2>3, <2>4, <2>5, <3>1, ExceptSeq
    <2>7. y = [open |-> z.open, size |-> n, slots |-> t, kind |-> z.kind, flags |-> z.flags, block |-> z.block]
        BY <1>2, <1>5, <2>1, <2>2, <2>3, <2>5 DEF Members
    <2>8. Members(y) /\ y.slots = t /\ y.size = n
        BY <2>7 DEF Members
    <2>9. \A i \in 1..x.size : i \in 1..N /\ i # n /\ t[i] = x.slots[i] /\ t[i] \in Element
        BY <1>1, <2>2, <2>4, <2>6
    <2>10. Filled(t, N, n)
        <3>1. t \in [1..N -> Slot]
            BY <2>6
        <3>2. \A i \in 1..n : t[i] \in Element
            BY <1>1, <2>4, <2>6, <2>9
        <3>. QED  BY <2>2, <3>1, <3>2 DEF Filled
    <2>11. OrderUpTo(t, n, n)
        <3>1. ASSUME NEW j \in 2..n, j # n PROVE t[j \div 2] <= t[j]
            <4>1. j \in 1..x.size /\ j \div 2 \in 1..x.size /\ j \in 2..z.size
                BY <1>1, <2>2, <2>4, <3>1
            <4>2. z.slots[j \div 2] <= z.slots[j]
                BY <2>3, <4>1 DEF HeapIn
            <4>. QED  BY <2>2, <2>9, <4>1, <4>2
        <3>2. \A j \in 2..n : j \div 2 # n
            BY <2>4
        <3>. QED  BY <3>1, <3>2 DEF OrderUpTo
    <2>12. PICK s, b : b = q.left - 1 /\ s = sift(TRUE, t, n, n, b)
        OBVIOUS
    <2>13. Sorted(N, t, n, s)
        <3>1. b \in Int /\ n \in 1..n /\ N \in Nat
            BY <2>2, <2>3, <2>4, <2>12
        <3>. QED  BY <2>4, <2>6, <2>10, <2>11, <2>12, <3>1, SiftSorts
    <2>14. sift_up(y.slots, y.size, q.left - 1) = s
        BY <2>8, <2>12 DEF sift_up
    <2>15. ASSUME NEW w PROVE Times(t, n, w) = Occurrences(x, w) + IF w = v THEN 1 ELSE 0
        <3>1. Times(t, n, w) = Times(t, x.size, w) + IF t[n] = w THEN 1 ELSE 0
            BY <2>4, CountLast
        <3>2. Times(t, x.size, w) = Times(x.slots, x.size, w)
            BY <2>9, CountSame
        <3>3. Times(x.slots, x.size, w) = Occurrences(x, w)
            BY Zenon DEF Times, Occurrences
        <3>4. t[n] = v
            BY <2>4, <2>6
        <3>. QED  BY <3>1, <3>2, <3>3, <3>4
    <2>16. PICK h : r = [Sifted(y, s) EXCEPT !.heap = h]
        BY <1>8, <2>14
    <2>17. /\ Sorted(N, y.slots, n, s) /\ 1 \in Int
           /\ \A w : Times(y.slots, n, w) = Occurrences(x, w) + IF w = v THEN 1 ELSE 0
        BY <2>8, <2>13, <2>15
    <2>. QED  BY <2>3, <2>4, <2>8, <2>16, <2>17, SiftedGives
<1>. QED  BY <1>3, <1>5, <1>6, <1>7, <1>8

\* The slots s, of which the first n are a heap, with the last one in place of the root.
Beheaded(s, n) == [s EXCEPT ![1] = s[n], ![n] = Dead]

\* The root is gone, and only the new one may be out of order.
LEMMA BeheadedIs ==
    ASSUME NEW N \in Nat, NEW n \in 1..N, NEW s \in Seq(Slot), Len(s) = N, Filled(s, N, n),
           HeapIn(s, n), NEW t, t = Beheaded(s, n), NEW k, k = n - 1
    PROVE  /\ t \in Seq(Slot) /\ Len(t) = N /\ Filled(t, N, k) /\ OrderBelow(t, k, 1)
           /\ \A w : Times(t, k, w) = Times(s, n, w) + IF w = s[1] THEN -1 ELSE 0
<1>1. s \in [1..N -> Slot] /\ \A i \in 1..n : s[i] \in Element
    BY DEF Filled
<1>2. 1 \in 1..N /\ n \in 1..n /\ k \in Nat /\ \A i \in 1..k : i \in 1..n /\ i \in 1..N /\ i # n
    OBVIOUS
<1>3. t \in [1..N -> Slot]
    BY <1>1, <1>2 DEF Beheaded, Slot
<1>4. t \in Seq(Slot) /\ Len(t) = N
    <2>1. t = [i \in 1..N |-> t[i]] /\ \A i \in 1..N : t[i] \in Slot
        BY <1>3
    <2>. QED  BY <1>3, <2>1, IsASeq, LenProperties
<1>5. \A i \in 1..k : t[i] = IF i = 1 THEN s[n] ELSE s[i]
    BY <1>1, <1>2 DEF Beheaded
<1>6. Filled(t, N, k)
    <2>1. \A i \in 1..k : t[i] \in Element
        BY <1>1, <1>2, <1>5
    <2>. QED  BY <1>2, <1>3, <2>1 DEF Filled
<1>7. OrderBelow(t, k, 1)
    <2>1. ASSUME NEW j \in 2..k, j \div 2 # 1 PROVE t[j \div 2] <= t[j]
        <3>1. j \in 1..k /\ j # 1 /\ j \div 2 \in 1..k /\ j \in 2..n
            BY <1>2, <2>1
        <3>. QED  BY <1>5, <2>1, <3>1 DEF HeapIn
    <2>. QED  BY <2>1 DEF OrderBelow
<1>8. ASSUME NEW w PROVE Times(t, k, w) = Times(s, n, w) + IF w = s[1] THEN -1 ELSE 0
    <2>1. n \in Nat \ {0} /\ n - 1 = k
        OBVIOUS
    <2>2. CASE n = 1
        <3>1. Times(s, n, w) = Times(s, k, w) + IF s[n] = w THEN 1 ELSE 0
            BY <2>1, CountLast
        <3>2. Times(s, k, w) \in Nat
            BY <2>1, CountLast
        <3>3. \A i \in 1..k : t[i] = s[i]
            BY <1>5, <2>2
        <3>4. Times(t, k, w) = Times(s, k, w)
            BY <3>3, CountSame
        <3>. QED  BY <2>2, <3>1, <3>2, <3>4
    <2>3. CASE n # 1
        <3>1. PICK u : u = [s EXCEPT ![1] = s[n], ![n] = s[1]]
            OBVIOUS
        <3>2. u[1] = s[n] /\ u[n] = s[1] /\ \A i \in 1..N : i # 1 /\ i # n => u[i] = s[i]
            BY <1>1, <1>2, <2>3, <3>1
        <3>3. Swapped(s, u, n, 1, n)
            BY <1>2, <2>3, <3>2 DEF Swapped
        <3>4. Times(s, n, w) = Times(u, n, w)
            BY <2>1, <3>3, CountSwap
        <3>5. Times(u, n, w) = Times(u, k, w) + IF u[n] = w THEN 1 ELSE 0
            BY <2>1, CountLast
        <3>8. Times(u, k, w) \in Nat
            BY <2>1, CountLast
        <3>6. \A i \in 1..k : t[i] = u[i]
            BY <1>2, <1>5, <3>2
        <3>7. Times(t, k, w) = Times(u, k, w)
            BY <3>6, CountSame
        <3>. QED  BY <3>2, <3>4, <3>5, <3>7, <3>8
    <2>. QED  BY <2>2, <2>3
<1>. QED  BY <1>4, <1>6, <1>7, <1>8

\* pop takes the root out, and takes the last element down from there.
LEMMA PopGives ==
    ASSUME NEW x, Heap(x), NEW o \in BOOLEAN, NEW f \in Int, NEW r \in pop(x, o, f)
    PROVE  Gives(x, r, x.slots[1], -1)
<1>1. PICK n, N, v : n = x.size /\ N = Len(x.slots) /\ v = x.slots[1]
    OBVIOUS
<1>2. /\ Members(x) /\ x.slots \in Seq(Slot) /\ N \in Nat /\ n \in Nat /\ n <= N
      /\ Filled(x.slots, N, n) /\ HeapIn(x.slots, n)
    BY <1>1, StoreIs DEF Heap, Store
<1>3. PICK g : g = (IF o THEN f - 1 ELSE f) /\ g \in Int
    OBVIOUS
<1>4. PICK y : y = [x EXCEPT !.size = @ - 1, !.slots[1] = x.slots[x.size], !.slots[x.size] = Dead]
    OBVIOUS
<1>5. r \in IF n = 0 THEN {Outcome("empty", x)}
            ELSE IF g < 0 THEN {Outcome("copy", x)}
            ELSE IF n = 1 THEN {Outcome("ok", y)}
            ELSE IF g = 0 THEN {IF o THEN Outcome("copy", x)
                                ELSE [Outcome("copy", [x EXCEPT !.slots[1] = Dead]) EXCEPT !.torn = TRUE]}
            ELSE {Sifted(y, sift_down(y.slots, y.size, g - 1))}
    BY <1>1, <1>3, <1>4, Zenon DEF pop
<1>6. ASSUME NEW st \in {"empty", "copy"}, r = Outcome(st, x) PROVE Gives(x, r, v, -1)
    <2>1. r.st = st /\ r.a = x /\ r.foreign = FALSE /\ r.torn = FALSE /\ st # "ok"
        BY <1>6 DEF Outcome
    <2>. QED  BY <2>1, Zenon DEF Gives
<1>7. CASE r = [Outcome("copy", [x EXCEPT !.slots[1] = Dead]) EXCEPT !.torn = TRUE]
    <2>1. r.st = "copy" /\ r.foreign = FALSE /\ r.torn = TRUE
        BY <1>7 DEF Outcome
    <2>2. r.st # "ok"
        BY <2>1
    <2>. QED  BY <1>1, <2>1, <2>2, Zenon DEF Gives
<1>8. ASSUME n # 0
      PROVE  \E k, t : /\ k = n - 1 /\ k \in Nat /\ t = Beheaded(x.slots, n)
                       /\ y = [open |-> x.open, size |-> k, slots |-> t, kind |-> x.kind,
                               flags |-> x.flags, block |-> x.block]
                       /\ t \in Seq(Slot) /\ Len(t) = N /\ Filled(t, N, k) /\ OrderBelow(t, k, 1)
                       /\ \A w : Times(t, k, w) = Occurrences(x, w) + IF w = v THEN -1 ELSE 0
    <2>1. PICK k, t : k = n - 1 /\ t = Beheaded(x.slots, n)
        OBVIOUS
    <2>2. k \in Nat /\ n \in 1..N
        BY <1>2, <1>8, <2>1
    <2>3. y = [open |-> x.open, size |-> k, slots |-> t, kind |-> x.kind, flags |-> x.flags, block |-> x.block]
        <3>1. t = [x.slots EXCEPT ![1] = x.slots[n], ![n] = Dead]
            BY <2>1 DEF Beheaded
        <3>. QED  BY <1>1, <1>2, <1>4, <2>1, <3>1 DEF Members
    <2>4. /\ t \in Seq(Slot) /\ Len(t) = N /\ Filled(t, N, k) /\ OrderBelow(t, k, 1)
          /\ \A w : Times(t, k, w) = Times(x.slots, n, w) + IF w = x.slots[1] THEN -1 ELSE 0
        BY <1>1, <1>2, <2>1, <2>2, BeheadedIs
    <2>5. \A w : Times(x.slots, n, w) = Occurrences(x, w)
        BY <1>1, Zenon DEF Times, Occurrences
    <2>. QED  BY <1>1, <2>1, <2>2, <2>3, <2>4, <2>5
<1>9. CASE n = 1 /\ r = Outcome("ok", y)
    <2>1. PICK k, t : /\ k = n - 1 /\ k \in Nat
                      /\ y = [open |-> x.open, size |-> k, slots |-> t, kind |-> x.kind,
                              flags |-> x.flags, block |-> x.block]
                      /\ t \in Seq(Slot) /\ Len(t) = N /\ Filled(t, N, k)
                      /\ \A w : Times(t, k, w) = Occurrences(x, w) + IF w = v THEN -1 ELSE 0
        BY <1>8, <1>9
    <2>2. Members(y) /\ y.slots = t /\ y.size = k /\ k = 0
        BY <1>9, <2>1 DEF Members
    <2>3. Heap(y)
        BY <2>1, <2>2 DEF Heap, Store, HeapIn
    <2>4. \A w : Occurrences(y, w) = Times(t, k, w)
        BY <2>2, Zenon DEF Times, Occurrences
    <2>5. \A w : Occurrences(y, w) = Occurrences(x, w) + IF w = v THEN -1 ELSE 0
        BY <2>1, <2>4
    <2>6. r.st = "ok" /\ r.a = y /\ r.foreign = FALSE /\ r.torn = FALSE
        BY <1>9 DEF Outcome
    <2>. QED  BY <1>1, <2>3, <2>5, <2>6, Zenon DEF Gives
<1>10. CASE n # 0 /\ n # 1 /\ r = Sifted(y, sift_down(y.slots, y.size, g - 1))
    <2>1. PICK k, t : /\ k = n - 1 /\ k \in Nat
                      /\ y = [open |-> x.open, size |-> k, slots |-> t, kind |-> x.kind,
                              flags |-> x.flags, block |-> x.block]
                      /\ t \in Seq(Slot) /\ Len(t) = N /\ Filled(t, N, k) /\ OrderBelow(t, k, 1)
                      /\ \A w : Times(t, k, w) = Occurrences(x, w) + IF w = v THEN -1 ELSE 0
        BY <1>8, <1>10
    <2>2. Members(y) /\ y.slots = t /\ y.size = k
        BY <2>1 DEF Members
    <2>3. k \in 1..N /\ 1 \in 1..k /\ k \in Nat \ {0} /\ g - 1 \in Int /\ FALSE \in BOOLEAN
        BY <1>2, <1>3, <1>10, <2>1
    <2>4. PICK s, b : b = g - 1 /\ s = sift(FALSE, t, 1, k, b)
        OBVIOUS
    <2>5. Sorted(N, t, k, s)
        BY <1>2, <2>1, <2>3, <2>4, SiftSorts
    <2>6. sift_down(y.slots, y.size, g - 1) = s
        BY <2>2, <2>4 DEF sift_down
    <2>7. \E h : r = [Sifted(y, s) EXCEPT !.heap = h]
        <3>1. PICK p : p = Sifted(y, s)
            OBVIOUS
        <3>2. r = [p EXCEPT !.heap = p.heap]
            BY <1>10, <2>6, <3>1 DEF Sifted, Outcome
        <3>. QED  BY <3>1, <3>2
    <2>8. PICK h : r = [Sifted(y, s) EXCEPT !.heap = h]
        BY <2>7
    <2>9. /\ Sorted(N, y.slots, k, s) /\ -1 \in Int
          /\ \A w : Times(y.slots, k, w) = Occurrences(x, w) + IF w = v THEN -1 ELSE 0
        BY <2>1, <2>2, <2>5
    <2>. QED  BY <1>1, <1>2, <2>2, <2>3, <2>8, <2>9, SiftedGives
<1>. QED  BY <1>1, <1>5, <1>6, <1>7, <1>9, <1>10

\* clear leaves the slots, without objects.
LEMMA ClearHeap ==
    ASSUME NEW x, Members(x), x.slots \in Seq(Slot)
    PROVE  Heap(clear(x)) /\ clear(x).open = x.open
<1>1. PICK N \in Nat : N = Len(x.slots) /\ DOMAIN x.slots = 1..N
    BY LenProperties
<1>2. PICK t : t = [i \in 1..N |-> Dead]
    OBVIOUS
<1>3. clear(x) = [open |-> x.open, size |-> 0, slots |-> t, kind |-> x.kind, flags |-> x.flags, block |-> x.block]
    <2>1. PICK s : s = [i \in DOMAIN x.slots |-> Dead]
        OBVIOUS
    <2>2. s = t
        BY <1>1, <1>2, <2>1
    <2>3. PICK y : y = [x EXCEPT !.size = 0, !.slots = s]
        OBVIOUS
    <2>4. clear(x) = y
        BY <2>1, <2>3 DEF clear
    <2>. QED  BY <2>2, <2>3, <2>4 DEF Members
<1>4. \A i \in 1..N : t[i] \in Slot
    BY <1>2 DEF Slot
<1>5. t \in Seq(Slot) /\ Len(t) = N
    BY <1>2, <1>4, IsASeq, LenProperties
<1>6. Filled(t, N, 0)
    BY <1>2, <1>4 DEF Filled
<1>7. HeapIn(t, 0)
    BY DEF HeapIn
<1>. QED  BY <1>3, <1>5, <1>6, <1>7 DEF Heap, Store, Members

\* The elements of every priority queue that is not torn are a heap.
PriorityInv == pqueue => Heap(array)

\* Then push, pop and reserve act as those of a priority queue.
LEMMA HeapActs ==
    ASSUME form.kind = "pqueue", Heap(array)
    PROVE  ActsAsPriorityQueue
<1> DEFINE Differs(r, v, d) ==
              \A w \in Element : Occurrences(r.a, w) = Occurrences(array, w) + IF w = v THEN d ELSE 0
           Fails(r) == r.foreign \/ r.torn \/ Elements(r.a) = Elements(array)
<1>1. array.size <= capacity(array)
    BY StoreIs DEF Heap, capacity
<1>2. \A i \in 1..array.size : array.slots[i] \in Element /\ array.slots[1] <= array.slots[i]
    <2>1. Len(array.slots) \in Nat /\ array.size \in Nat
          /\ Filled(array.slots, Len(array.slots), array.size) /\ HeapIn(array.slots, array.size)
        BY StoreIs DEF Heap, Store
    <2>. QED  BY <2>1, StoreIs, RootIsLeast DEF Heap
<1>3. ASSUME NEW r, NEW v, NEW d, Gives(array, r, v, d)
      PROVE  IF r.st = "ok" THEN Differs(r, v, d) ELSE Fails(r)
    BY <1>3 DEF Gives
<1>4. \A f \in Budget : f \in Int
    BY ArraysConstants DEF Budget
<1>5. ASSUME NEW f \in Budget, NEW v \in Element, NEW r \in push(array, v, f)
      PROVE  IF r.st = "ok" THEN Differs(r, v, 1) ELSE Fails(r)
    <2>1. Gives(array, r, v, 1)
        BY <1>4, <1>5, PushGives
    <2>. HIDE DEF Differs, Fails
    <2>. QED  BY <1>3, <2>1
<1>6. ASSUME NEW f \in Budget, NEW out \in BOOLEAN, NEW r \in pop(array, out, f)
      PROVE  IF r.st = "ok" THEN Differs(r, array.slots[1], -1) ELSE Fails(r)
    <2>1. Gives(array, r, array.slots[1], -1)
        BY <1>4, <1>6, PopGives
    <2>. HIDE DEF Differs, Fails
    <2>. QED  BY <1>3, <2>1
<1>7. ASSUME NEW f \in Budget, NEW n \in 1..MaxCapacity, NEW r \in reserve(array, n, f)
      PROVE  r.foreign \/ Elements(r.a) = Elements(array)
    <2>1. n \in Nat /\ f \in Int
        BY <1>4, ArraysConstants
    <2>2. Grown(array, n, r)
        BY <1>7, <2>1, ReserveGrown
    <2>. QED  BY <2>2 DEF Grown
<1>8. ASSUME NEW f \in Budget
      PROVE  /\ \A v \in Element : \A r \in push(array, v, f) :
                  IF r.st = "ok" THEN Differs(r, v, 1) ELSE Fails(r)
             /\ \A out \in BOOLEAN : \A r \in pop(array, out, f) :
                  IF r.st = "ok" THEN Differs(r, array.slots[1], -1) ELSE Fails(r)
             /\ \A n \in 1..MaxCapacity : \A r \in reserve(array, n, f) :
                  r.foreign \/ Elements(r.a) = Elements(array)
    <2>. HIDE DEF Differs, Fails
    <2>. QED  BY <1>5, <1>6, <1>7
<1>. QED  BY <1>1, <1>2, <1>8 DEF ActsAsPriorityQueue

\* A call of a priority queue that leaves a heap, says so, or ends it.
LEMMA PriorityReturn ==
    ASSUME NEW results, Return(results), pqueue,
           \A r \in results : \/ \E v, d : Gives(array, r, v, d)
                              \/ \E n : Grown(array, n, r)
    PROVE  PriorityInv'
<1>1. PICK r \in results : array' = r.a /\ torn' = (torn \/ r.torn)
    BY DEF Return
<1>2. array' = Closed \/ torn' = TRUE \/ Heap(array')
    <2>1. CASE \E v, d : Gives(array, r, v, d)
        BY <1>1, <2>1 DEF Gives
    <2>2. CASE \E n : Grown(array, n, r)
        BY <1>1, <2>2 DEF Grown
    <2>. QED  BY <2>1, <2>2
<1>3. CASE array' = Closed
    BY <1>3 DEF PriorityInv, pqueue, Closed
<1>4. CASE torn' = TRUE
    BY <1>4 DEF PriorityInv, pqueue
<1>5. CASE Heap(array')
    <2>1. (Heap(array))'
        BY <1>5 DEF Heap, Store, Members, Filled, HeapIn
    <2>. QED  BY <2>1 DEF PriorityInv
<1>. QED  BY <1>2, <1>3, <1>4, <1>5

\* Every call keeps the heap.
LEMMA PriorityStep == PriorityInv /\ [ArrayNext]_arrayVars => PriorityInv'
<1> SUFFICES ASSUME PriorityInv, [ArrayNext]_arrayVars PROVE PriorityInv'
    OBVIOUS
<1>1. ASSUME NEW c \in Forms, NEW n \in Capacities, Open(c, n) PROVE PriorityInv'
    <2>1. PICK s, own, flags : array' = [open |-> TRUE, size |-> 0, slots |-> s, kind |-> own, flags |-> flags,
                                         block |-> c.start] /\ s = [i \in 1..n |-> Dead]
        BY <1>1 DEF Open, opened
    <2>2. n \in Nat /\ \A i \in 1..n : s[i] \in Slot
        BY <2>1, ArraysConstants DEF Slot
    <2>3. s \in Seq(Slot) /\ Len(s) = n
        BY <2>1, <2>2, IsASeq, LenProperties
    <2>4. Filled(s, n, 0) /\ HeapIn(s, 0)
        BY <2>1, <2>2 DEF Filled, HeapIn
    <2>5. Members(array')
        BY <2>1 DEF Members
    <2>6. (Heap(array))'
        BY <2>1, <2>3, <2>4, <2>5 DEF Heap, Store, Members, Filled, HeapIn
    <2>. QED  BY <2>6 DEF PriorityInv
<1>2. ASSUME form' = form, form.kind # "pqueue" PROVE PriorityInv'
    BY <1>2 DEF PriorityInv, pqueue
<1>3. ASSUME pqueue PROVE Heap(array) /\ form.kind = "pqueue" /\ array.open /\ ~torn
    BY <1>3 DEF PriorityInv, pqueue
<1>4. \A f \in Budget : f \in Int
    BY ArraysConstants DEF Budget
<1>5. ASSUME NEW v \in Element, Push(v) PROVE PriorityInv'
    <2>1. PICK f \in Budget : pqueue /\ Return(push(array, v, f))
        BY <1>5 DEF Push
    <2>2. \A r \in push(array, v, f) : Gives(array, r, v, 1)
        BY <1>3, <1>4, <2>1, PushGives
    <2>. QED  BY <2>1, <2>2, PriorityReturn
<1>6. ASSUME NEW o \in BOOLEAN, Pop(o) PROVE PriorityInv'
    <2>1. PICK f \in Budget : pqueue /\ Return(pop(array, o, f))
        BY <1>6 DEF Pop
    <2>2. \A r \in pop(array, o, f) : Gives(array, r, array.slots[1], -1)
        BY <1>3, <1>4, <2>1, PopGives
    <2>. QED  BY <2>1, <2>2, PriorityReturn
<1>7. ASSUME NEW i \in 1..MaxCapacity, Reserve(i) PROVE PriorityInv'
    <2>1. PICK f \in Budget : array.open /\ ~torn /\ Return(reserve(array, i, f))
        BY <1>7 DEF Reserve
    <2>2. CASE form.kind = "pqueue"
        <3>1. pqueue /\ i \in Nat
            BY <2>1, <2>2, ArraysConstants DEF pqueue
        <3>2. \A r \in reserve(array, i, f) : Grown(array, i, r)
            BY <1>3, <1>4, <2>2, <3>1, ReserveGrown
        <3>. QED  BY <2>1, <3>1, <3>2, PriorityReturn
    <2>3. CASE form.kind # "pqueue"
        BY <1>2, <2>1, <2>3 DEF Return
    <2>. QED  BY <2>2, <2>3
<1>8. CASE ClearAll
    <2>1. array' = clear(array) /\ form' = form /\ array.open /\ torn' = (torn \/ FALSE)
        BY <1>8 DEF ClearAll, Return, Outcome
    <2>2. CASE pqueue
        <3>1. Members(array) /\ array.slots \in Seq(Slot)
            BY <1>3, <2>2 DEF Heap, Store
        <3>2. Heap(array')
            BY <2>1, <3>1, ClearHeap
        <3>3. (Heap(array))'
            BY <3>2 DEF Heap, Store, Members, Filled, HeapIn
        <3>. QED  BY <3>3 DEF PriorityInv
    <2>3. CASE ~pqueue
        <3>1. torn' \/ form'.kind # "pqueue"
            BY <2>1, <2>3 DEF pqueue
        <3>. QED  BY <3>1 DEF PriorityInv, pqueue
    <2>. QED  BY <2>2, <2>3
<1>9. ASSUME vector, form' = form PROVE PriorityInv'
    BY <1>2, <1>9 DEF vector
<1>10. CASE Release
    BY <1>10 DEF Release, PriorityInv, pqueue, Closed
<1>11. CASE UNCHANGED arrayVars
    BY <1>11 DEF arrayVars, PriorityInv, pqueue, Heap, Store, Members, Filled, HeapIn
<1>12. ASSUME NEW v \in Element, PushBack(v) PROVE PriorityInv'
    BY <1>9, <1>12 DEF PushBack, Return
<1>13. ASSUME NEW v \in Element, NEW i \in 1..MaxCapacity, SetAt(i, v) PROVE PriorityInv'
    BY <1>9, <1>13 DEF SetAt, Return
<1>14. ASSUME NEW i \in 1..MaxCapacity, PushOwn(i) PROVE PriorityInv'
    BY <1>9, <1>14 DEF PushOwn, Return
<1>15. ASSUME NEW o \in BOOLEAN, PopBack(o) PROVE PriorityInv'
    BY <1>9, <1>15 DEF PopBack, Return
<1>. QED  BY <1>1, <1>5, <1>6, <1>7, <1>8, <1>10, <1>11, <1>12, <1>13, <1>14, <1>15, Zenon DEF ArrayNext

\* The root is a least element, push adds one, pop takes the root out, and a call that
\* fails changes nothing, unless it is a sift that fails or the root was destroyed: for
\* all values, capacities, configurations, and wherever the copies begin to fail.
THEOREM PriorityQueueActs == ArraySpec => []ActsAsPriorityQueue
<1>1. PriorityInv => ActsAsPriorityQueue
    BY HeapActs DEF PriorityInv, ActsAsPriorityQueue, pqueue
<1>2. ArrayInit => PriorityInv
    BY DEF ArrayInit, PriorityInv, pqueue, Closed
<1>. QED  BY <1>1, <1>2, PriorityStep, PTL DEF ArraySpec

-----------------------------------------------------------------------------
(***************************************************************************)
(* Open addressing: what a probe finds                                     *)
(***************************************************************************)

SlotSet == [state: {"empty", "occupied", "deleted"}, key: Key \cup {NoItem}, val: Value \cup {NoItem}]

\* A table of N slots; an occupied slot holds an entry.
OpenTable(t, N) ==
    /\ N \in Nat \ {0}
    /\ t \in [0..(N - 1) -> SlotSet]
    /\ \A i \in 0..(N - 1) : t[i].state = "occupied" => t[i].key \in Key /\ t[i].val \in Value

\* The p-th slot a probe for k looks at.
At(k, p, N) == (hash(k) + p) % N

Holds(t, i, k) == t[i].state = "occupied" /\ t[i].key = k
Occupied(t) == {i \in DOMAIN t : t[i].state = "occupied"}
SomeEmpty(t) == \E i \in DOMAIN t : t[i].state = "empty"
NoTombs(t) == \A i \in DOMAIN t : t[i].state # "deleted"

\* No slot is empty that a probe meets before its p-th.
Busy(t, N, k, p) == \A q \in 0..(p - 1) : t[At(k, q, N)].state # "empty"

\* Every entry is met by the probe for its key, and no key is there twice.
Reached(t, N) == \A k \in Key : \A p \in 0..(N - 1) : Holds(t, At(k, p, N), k) => Busy(t, N, k, p)
Lone(t, N) == \A i, j \in 0..(N - 1) : \A k \in Key : Holds(t, i, k) /\ Holds(t, j, k) => i = j

LEMMA HashIs == ASSUME NEW k \in Key PROVE hash(k) \in Nat
<1>1. k \in Int /\ HashRange \in Nat \ {0}
    BY MapConstants
<1>. QED  BY <1>1, ModDef DEF hash

LEMMA CountIs ==
    ASSUME NEW N \in Nat, NEW t, DOMAIN t = 0..(N - 1)
    PROVE  Count(t) = N
<1>1. Cardinality(0..(N - 1)) = N
    BY FS_Interval
<1>. QED  BY <1>1 DEF Count

\* A probe looks at every slot once.
LEMMA AtCovers ==
    ASSUME NEW k \in Key, NEW N \in Nat \ {0}
    PROVE  /\ \A p \in 0..(N - 1) : At(k, p, N) \in 0..(N - 1)
           /\ \A p, q \in 0..(N - 1) : At(k, p, N) = At(k, q, N) => p = q
           /\ \A i \in 0..(N - 1) : \E p \in 0..(N - 1) : At(k, p, N) = i
<1>1. PICK h \in Nat : h = hash(k)
    BY HashIs
<1>2. ASSUME NEW p \in 0..(N - 1) PROVE At(k, p, N) \in 0..(N - 1)
    <2>1. h + p \in Int
        OBVIOUS
    <2>. QED  BY <1>1, <2>1, ModDef DEF At
<1>3. ASSUME NEW p \in 0..(N - 1), NEW q \in 0..(N - 1), At(k, p, N) = At(k, q, N) PROVE p = q
    <2>1. (h + p) % N = (h + q) % N
        BY <1>1, <1>3 DEF At
    <2>2. h + p \in Int /\ h + q \in Int
        OBVIOUS
    <2>3. CASE p < q
        <3>1. h + p < h + q /\ (h + q) - (h + p) < N
            BY <2>3
        <3>. QED  BY <2>1, <2>2, <3>1, ModNear
    <2>4. CASE q < p
        <3>1. h + q < h + p /\ (h + p) - (h + q) < N
            BY <2>4
        <3>. QED  BY <2>1, <2>2, <3>1, ModNear
    <2>. QED  BY <2>3, <2>4
<1>4. ASSUME NEW i \in 0..(N - 1) PROVE \E p \in 0..(N - 1) : At(k, p, N) = i
    <2>1. PICK p : p = (i - h) % N
        OBVIOUS
    <2>2. i - h \in Int /\ h \in Int
        OBVIOUS
    <2>3. p \in 0..(N - 1)
        BY <2>1, <2>2, ModDef
    <2>4. (((i - h) % N) + h) % N = ((i - h) + h) % N
        BY <2>2, ModAddMod
    <2>5. (i - h) + h = i /\ i % N = i
        BY ModSmall
    <2>6. p + h = h + p
        BY <2>3
    <2>7. (h + p) % N = i
        BY <2>1, <2>4, <2>5, <2>6
    <2>. QED  BY <1>1, <2>3, <2>7 DEF At
<1>. QED  BY <1>2, <1>3, <1>4

\* The least of some naturals.
LEMMA LeastIs ==
    ASSUME NEW T, T \subseteq Nat, T # {}
    PROVE  Least(T) \in T /\ \A x \in T : Least(T) <= x
BY SmallestOf DEF Least

\* What a probe says, when it stops at a slot and when it does not.
Ends(t, N, k, p) == t[At(k, p, N)].state = "empty" \/ Holds(t, At(k, p, N), k)
StopsAt(t, N, k, e) == e \in 0..(N - 1) /\ Ends(t, N, k, e) /\ \A q \in 0..(e - 1) : ~Ends(t, N, k, q)
Tomb(t, N, k, e, i) ==
    \E q \in 0..(e - 1) : i = At(k, q, N) /\ t[i].state = "deleted"
Says(t, N, k, ins, r) ==
    \/ /\ \A q \in 0..(N - 1) : ~Ends(t, N, k, q)
       /\ r.state = "occupied"
       /\ r.index = At(k, 0, N) \/ (ins /\ Tomb(t, N, k, N, r.index))
    \/ \E e \in 0..(N - 1) :
         /\ StopsAt(t, N, k, e)
         /\ r.state = t[At(k, e, N)].state
         /\ r.index = At(k, e, N) \/ (ins /\ r.state = "empty" /\ Tomb(t, N, k, e, r.index))

LEMMA ProbeSays ==
    ASSUME NEW t, NEW N, OpenTable(t, N), NEW k \in Key, NEW ins \in BOOLEAN
    PROVE  Says(t, N, k, ins, open_probe(t, k, ins))
<1>1. N \in Nat \ {0} /\ DOMAIN t = 0..(N - 1)
    BY DEF OpenTable
<1>2. Count(t) = N
    BY <1>1, CountIs
<1>3. PICK P : P = Probe(t, k)
    OBVIOUS
<1>4. P = [p \in 0..(N - 1) |-> At(k, p, N)]
    BY <1>2, <1>3 DEF Probe, At
<1>5. \A p \in 0..(N - 1) : P[p] = At(k, p, N)
    BY <1>4
<1>6. PICK S : S = Stops(t, k)
    OBVIOUS
<1>7. S = {p \in 0..(N - 1) : Ends(t, N, k, p)}
    BY <1>1, <1>3, <1>5, <1>6 DEF Stops, Ends, Holds
<1>8. PICK last : last = IF S = {} THEN N ELSE Least(S)
    OBVIOUS
<1>9. PICK tombs : tombs = {p \in 0..(N - 1) : p < last /\ t[P[p]].state = "deleted"}
    OBVIOUS
<1>10. PICK st : st = IF last = N THEN "occupied" ELSE t[P[last]].state
    OBVIOUS
<1>11. PICK at : at = IF last = N THEN P[0] ELSE P[last]
    OBVIOUS
<1>12. PICK reuse \in BOOLEAN : reuse = (ins /\ tombs # {} /\ (last = N \/ st = "empty"))
    OBVIOUS
<1>13. PICK r : r = open_probe(t, k, ins)
    OBVIOUS
<1>14. r = [state |-> st, index |-> IF reuse THEN P[Least(tombs)] ELSE at]
    BY <1>1, <1>2, <1>3, <1>6, <1>8, <1>9, <1>10, <1>11, <1>12, <1>13 DEF open_probe
<1>15. r.state = st /\ r.index = IF reuse THEN P[Least(tombs)] ELSE at
    BY <1>14
<1>16. ASSUME reuse, last \in 0..N PROVE Tomb(t, N, k, last, r.index)
    <2>0. tombs # {}
        BY <1>12, <1>16, Zenon
    <2>1. tombs \subseteq Nat /\ tombs # {}
        BY <1>1, <1>9, <2>0
    <2>2. PICK q : q = Least(tombs) /\ q \in tombs
        BY <2>1, LeastIs
    <2>3. q \in 0..(last - 1) /\ q \in 0..(N - 1) /\ t[P[q]].state = "deleted"
        BY <1>9, <1>16, <2>2
    <2>4. r.index = P[q] /\ P[q] = At(k, q, N)
        BY <1>5, <1>15, <1>16, <2>2, <2>3
    <2>. QED  BY <2>3, <2>4 DEF Tomb
<1>17. CASE S = {}
    <2>1. last = N /\ last \in 0..N
        BY <1>1, <1>8, <1>17
    <2>2. \A q \in 0..(N - 1) : ~Ends(t, N, k, q)
        BY <1>7, <1>17
    <2>3. r.state = "occupied" /\ (reuse => ins)
        BY <1>10, <1>12, <1>15, <2>1
    <2>4. ~reuse => r.index = At(k, 0, N)
        BY <1>1, <1>5, <1>11, <1>15, <2>1
    <2>5. r.index = At(k, 0, N) \/ (ins /\ Tomb(t, N, k, N, r.index))
        BY <1>16, <2>1, <2>3, <2>4
    <2>6. Says(t, N, k, ins, r)
        BY <2>2, <2>3, <2>5 DEF Says
    <2>. QED  BY <1>13, <2>6
<1>18. CASE S # {}
    <2>1. S \subseteq Nat
        BY <1>7
    <2>2. PICK e : e = Least(S) /\ e \in S /\ \A x \in S : e <= x
        BY <1>18, <2>1, LeastIs
    <2>3. e \in 0..(N - 1) /\ Ends(t, N, k, e) /\ last = e /\ last # N /\ last \in 0..N
        BY <1>1, <1>7, <1>8, <1>18, <2>2
    <2>4. ASSUME NEW q \in 0..(e - 1) PROVE ~Ends(t, N, k, q)
        BY <1>1, <1>7, <2>2, <2>3, <2>4
    <2>5. StopsAt(t, N, k, e)
        BY <2>3, <2>4 DEF StopsAt
    <2>6. P[e] = At(k, e, N)
        BY <1>5, <2>3
    <2>7. r.state = t[At(k, e, N)].state /\ (reuse => ins /\ r.state = "empty")
        BY <1>10, <1>12, <1>15, <2>3, <2>6
    <2>8. ~reuse => r.index = At(k, e, N)
        BY <1>11, <1>15, <2>3, <2>6
    <2>9. r.index = At(k, e, N) \/ (ins /\ r.state = "empty" /\ Tomb(t, N, k, e, r.index))
        BY <1>16, <2>3, <2>7, <2>8
    <2>10. Says(t, N, k, ins, r)
        BY <2>3, <2>5, <2>7, <2>9 DEF Says
    <2>. QED  BY <1>13, <2>10
<1>. QED  BY <1>17, <1>18

\* Whatever the table, a probe names a slot, and says "empty" only when one is.
LEMMA ProbeTyped ==
    ASSUME NEW t, NEW N, OpenTable(t, N), NEW k \in Key, NEW ins \in BOOLEAN, NEW r,
           r = open_probe(t, k, ins)
    PROVE  /\ r.index \in 0..(N - 1)
           /\ r.state \in {"occupied", "empty"}
           /\ r.state = "empty" => SomeEmpty(t) /\ t[r.index].state # "occupied"
<1>1. N \in Nat \ {0} /\ DOMAIN t = 0..(N - 1)
    BY DEF OpenTable
<1>2. Says(t, N, k, ins, r)
    BY ProbeSays
<1>3. \A p \in 0..(N - 1) : At(k, p, N) \in 0..(N - 1)
    BY <1>1, AtCovers
<1>4. CASE \A q \in 0..(N - 1) : ~Ends(t, N, k, q)
    <2>1. \A e \in 0..(N - 1) : ~StopsAt(t, N, k, e)
        BY <1>4 DEF StopsAt
    <2>2. r.state = "occupied" /\ (r.index = At(k, 0, N) \/ Tomb(t, N, k, N, r.index))
        BY <1>2, <2>1 DEF Says
    <2>3. At(k, 0, N) \in 0..(N - 1)
        BY <1>1, <1>3
    <2>4. CASE Tomb(t, N, k, N, r.index)
        <3>1. PICK q \in 0..(N - 1) : r.index = At(k, q, N)
            BY <2>4 DEF Tomb
        <3>. QED  BY <1>3, <2>2, <3>1
    <2>. QED  BY <2>2, <2>3, <2>4
<1>5. CASE \E q \in 0..(N - 1) : Ends(t, N, k, q)
    <2>1. PICK e \in 0..(N - 1) :
            /\ StopsAt(t, N, k, e)
            /\ r.state = t[At(k, e, N)].state
            /\ r.index = At(k, e, N) \/ (ins /\ r.state = "empty" /\ Tomb(t, N, k, e, r.index))
        BY <1>2, <1>5 DEF Says
    <2>2. r.state \in {"occupied", "empty"}
        BY <2>1 DEF StopsAt, Ends, Holds
    <2>3. At(k, e, N) \in 0..(N - 1)
        BY <1>3
    <2>4. r.state = "empty" => SomeEmpty(t)
        BY <1>1, <2>1, <2>3 DEF SomeEmpty
    <2>5. CASE r.index = At(k, e, N)
        BY <2>1, <2>2, <2>3, <2>4, <2>5
    <2>6. CASE Tomb(t, N, k, e, r.index)
        <3>1. PICK q \in 0..(e - 1) : r.index = At(k, q, N) /\ t[r.index].state = "deleted"
            BY <2>6 DEF Tomb
        <3>2. q \in 0..(N - 1)
            BY <1>1
        <3>3. r.index \in 0..(N - 1)
            BY <1>3, <3>1, <3>2
        <3>. QED  BY <2>2, <2>4, <3>1, <3>3
    <2>. QED  BY <2>1, <2>5, <2>6
<1>. QED  BY <1>4, <1>5

\* In a table with an empty slot a probe finds its key, or the slot to put it in.
Finds(t, N, k, r) ==
    \/ r.state = "occupied" /\ r.index \in 0..(N - 1) /\ Holds(t, r.index, k)
    \/ /\ r.state = "empty" /\ r.index \in 0..(N - 1) /\ t[r.index].state # "occupied"
       /\ \A i \in 0..(N - 1) : ~Holds(t, i, k)
       /\ \E p \in 0..(N - 1) : r.index = At(k, p, N) /\ Busy(t, N, k, p)

LEMMA ProbeFinds ==
    ASSUME NEW t, NEW N, OpenTable(t, N), SomeEmpty(t), Reached(t, N),
           NEW k \in Key, NEW ins \in BOOLEAN, NEW r, r = open_probe(t, k, ins)
    PROVE  Finds(t, N, k, r)
<1>1. N \in Nat \ {0} /\ DOMAIN t = 0..(N - 1)
    BY DEF OpenTable
<1>2. Says(t, N, k, ins, r)
    BY ProbeSays
<1>3. /\ \A p \in 0..(N - 1) : At(k, p, N) \in 0..(N - 1)
      /\ \A i \in 0..(N - 1) : \E p \in 0..(N - 1) : At(k, p, N) = i
    BY <1>1, AtCovers
<1>4. \E q \in 0..(N - 1) : Ends(t, N, k, q)
    <2>1. PICK i \in 0..(N - 1) : t[i].state = "empty"
        BY <1>1 DEF SomeEmpty
    <2>2. PICK q \in 0..(N - 1) : At(k, q, N) = i
        BY <1>3
    <2>. QED  BY <2>1, <2>2 DEF Ends
<1>5. PICK e \in 0..(N - 1) :
            /\ StopsAt(t, N, k, e)
            /\ r.state = t[At(k, e, N)].state
            /\ r.index = At(k, e, N) \/ (ins /\ r.state = "empty" /\ Tomb(t, N, k, e, r.index))
    BY <1>2, <1>4 DEF Says
<1>6. r.index \in 0..(N - 1) /\ (r.state = "empty" => t[r.index].state # "occupied")
    BY ProbeTyped
<1>7. \A q \in 0..(e - 1) : q \in 0..(N - 1) /\ ~Ends(t, N, k, q)
    BY <1>1, <1>5 DEF StopsAt
<1>8. Busy(t, N, k, e)
    BY <1>7 DEF Busy, Ends
<1>9. CASE Holds(t, At(k, e, N), k)
    <2>1. r.state = "occupied" /\ r.index = At(k, e, N)
        BY <1>5, <1>9 DEF Holds
    <2>. QED  BY <1>6, <1>9, <2>1 DEF Finds
<1>10. CASE t[At(k, e, N)].state = "empty"
    <2>1. r.state = "empty"
        BY <1>5, <1>10
    <2>2. ASSUME NEW i \in 0..(N - 1), Holds(t, i, k) PROVE FALSE
        <3>1. PICK p \in 0..(N - 1) : At(k, p, N) = i
            BY <1>3
        <3>2. Busy(t, N, k, p)
            BY <2>2, <3>1 DEF Reached
        <3>3. ~(e \in 0..(p - 1))
            BY <1>10, <3>2 DEF Busy
        <3>4. p # e
            BY <1>10, <2>2, <3>1 DEF Holds
        <3>5. p \in 0..(e - 1)
            BY <3>3, <3>4
        <3>6. Ends(t, N, k, p)
            BY <2>2, <3>1 DEF Ends
        <3>. QED  BY <1>7, <3>5, <3>6
    <2>3. \E p \in 0..(N - 1) : r.index = At(k, p, N) /\ Busy(t, N, k, p)
        <3>1. CASE r.index = At(k, e, N)
            BY <1>8, <3>1
        <3>2. CASE Tomb(t, N, k, e, r.index)
            <4>1. PICK q \in 0..(e - 1) : r.index = At(k, q, N)
                BY <3>2 DEF Tomb
            <4>2. q \in 0..(N - 1) /\ \A x \in 0..(q - 1) : x \in 0..(e - 1)
                BY <1>1
            <4>3. Busy(t, N, k, q)
                BY <1>8, <4>2 DEF Busy
            <4>. QED  BY <4>1, <4>2, <4>3
        <3>. QED  BY <1>5, <3>1, <3>2
    <2>. QED  BY <1>6, <2>1, <2>2, <2>3 DEF Finds
<1>. QED  BY <1>5, <1>9, <1>10 DEF StopsAt, Ends

(***************************************************************************)
(* Open addressing: one slot is written                                    *)
(***************************************************************************)

\* What foreach visits in an open table.
OpenEntries(t) == {<<t[i].key, t[i].val>> : i \in Occupied(t)}

\* The table u is t with slot i written.
Wrote(t, N, i, s, u) ==
    /\ i \in 0..(N - 1)
    /\ DOMAIN u = 0..(N - 1) /\ u[i] = s
    /\ \A j \in 0..(N - 1) : j # i => u[j] = t[j]

LEMMA WriteIs ==
    ASSUME NEW t, NEW N, OpenTable(t, N), NEW i \in 0..(N - 1), NEW s \in SlotSet,
           s.state = "occupied" => s.key \in Key /\ s.val \in Value,
           NEW u, u = [t EXCEPT ![i] = s]
    PROVE  OpenTable(u, N) /\ Wrote(t, N, i, s, u)
<1>1. N \in Nat \ {0} /\ t \in [0..(N - 1) -> SlotSet]
    BY DEF OpenTable
<1>2. u \in [0..(N - 1) -> SlotSet] /\ Wrote(t, N, i, s, u)
    BY <1>1 DEF Wrote
<1>3. ASSUME NEW j \in 0..(N - 1), u[j].state = "occupied" PROVE u[j].key \in Key /\ u[j].val \in Value
    BY <1>2, <1>3 DEF OpenTable, Wrote
<1>. QED  BY <1>1, <1>2, <1>3 DEF OpenTable

\* Keys and states stay where they are.
LEMMA SameShape ==
    ASSUME NEW t, NEW N, NEW u,
           \A j \in 0..(N - 1) : \A k \in Key : Holds(u, j, k) => Holds(t, j, k),
           \A j \in 0..(N - 1) : u[j].state = "empty" => t[j].state = "empty",
           N \in Nat \ {0}
    PROVE  /\ Reached(t, N) => Reached(u, N)
           /\ Lone(t, N) => Lone(u, N)
<1>1. ASSUME Reached(t, N) PROVE Reached(u, N)
    <2>1. SUFFICES ASSUME NEW k \in Key, NEW p \in 0..(N - 1), Holds(u, At(k, p, N), k)
                   PROVE  Busy(u, N, k, p)
        BY DEF Reached
    <2>2. \A q \in 0..(N - 1) : At(k, q, N) \in 0..(N - 1)
        BY AtCovers
    <2>3. Busy(t, N, k, p)
        BY <1>1, <2>1, <2>2 DEF Reached
    <2>4. \A q \in 0..(p - 1) : q \in 0..(N - 1)
        OBVIOUS
    <2>. QED  BY <2>2, <2>3, <2>4 DEF Busy
<1>2. ASSUME Lone(t, N) PROVE Lone(u, N)
    BY <1>2 DEF Lone
<1>. QED  BY <1>1, <1>2

\* A key that is not there is put where its probe ended.
LEMMA WriteNew ==
    ASSUME NEW t, NEW N, OpenTable(t, N), Reached(t, N), Lone(t, N), NEW i, NEW s, NEW u,
           Wrote(t, N, i, s, u), t[i].state # "occupied", s.state = "occupied", NEW k \in Key, s.key = k,
           \A j \in 0..(N - 1) : ~Holds(t, j, k),
           \E p \in 0..(N - 1) : i = At(k, p, N) /\ Busy(t, N, k, p)
    PROVE  /\ Reached(u, N) /\ Lone(u, N)
           /\ i \notin Occupied(t) /\ Occupied(u) = Occupied(t) \cup {i}
           /\ OpenEntries(u) = OpenEntries(t) \cup {<<k, s.val>>}
           /\ NoTombs(t) => NoTombs(u)
<1>1. N \in Nat \ {0} /\ DOMAIN t = 0..(N - 1) /\ DOMAIN u = 0..(N - 1)
    BY DEF OpenTable, Wrote
<1>2. /\ i \in 0..(N - 1) /\ u[i] = s
      /\ \A j \in 0..(N - 1) : j # i => u[j] = t[j]
    BY DEF Wrote
<1>3. Reached(u, N)
    <2>1. SUFFICES ASSUME NEW h \in Key, NEW p \in 0..(N - 1), Holds(u, At(h, p, N), h),
                          NEW q \in 0..(p - 1), u[At(h, q, N)].state = "empty"
                   PROVE  FALSE
        BY DEF Reached, Busy
    <2>2. q \in 0..(N - 1)
        BY <1>1
    <2>3. /\ \A x \in 0..(N - 1) : At(h, x, N) \in 0..(N - 1)
          /\ \A x, y \in 0..(N - 1) : At(h, x, N) = At(h, y, N) => x = y
        BY <1>1, AtCovers
    <2>4. At(h, q, N) # i /\ t[At(h, q, N)].state = "empty"
        BY <1>2, <2>1, <2>2, <2>3
    <2>5. CASE At(h, p, N) # i
        <3>1. Holds(t, At(h, p, N), h)
            BY <1>2, <2>1, <2>3, <2>5 DEF Holds
        <3>2. Busy(t, N, h, p)
            BY <3>1 DEF Reached
        <3>. QED  BY <2>4, <3>2 DEF Busy
    <2>6. CASE At(h, p, N) = i
        <3>1. h = k
            BY <1>2, <2>1, <2>6 DEF Holds
        <3>2. PICK x \in 0..(N - 1) : i = At(k, x, N) /\ Busy(t, N, k, x)
            OBVIOUS
        <3>3. x = p
            BY <2>3, <2>6, <3>1, <3>2
        <3>. QED  BY <2>4, <3>1, <3>2, <3>3 DEF Busy
    <2>. QED  BY <2>5, <2>6
<1>4. Lone(u, N)
    <2>1. SUFFICES ASSUME NEW a \in 0..(N - 1), NEW b \in 0..(N - 1), NEW h \in Key,
                          Holds(u, a, h), Holds(u, b, h)
                   PROVE  a = b
        BY DEF Lone
    <2>2. CASE a # i /\ b # i
        <3>1. Holds(t, a, h) /\ Holds(t, b, h)
            BY <1>2, <2>1, <2>2 DEF Holds
        <3>. QED  BY <3>1 DEF Lone
    <2>3. ASSUME a = i \/ b = i, a # b PROVE FALSE
        <3>1. h = k
            BY <1>2, <2>1, <2>3 DEF Holds
        <3>2. Holds(t, a, k) \/ Holds(t, b, k)
            BY <1>2, <2>1, <2>3, <3>1 DEF Holds
        <3>. QED  BY <3>2
    <2>. QED  BY <2>2, <2>3
<1>5. i \notin Occupied(t) /\ Occupied(u) = Occupied(t) \cup {i}
    BY <1>1, <1>2 DEF Occupied
<1>6. OpenEntries(u) = OpenEntries(t) \cup {<<k, s.val>>}
    <2>1. \A j \in Occupied(t) : u[j] = t[j]
        BY <1>1, <1>2 DEF Occupied
    <2>. QED  BY <1>2, <1>5, <2>1 DEF OpenEntries
<1>7. NoTombs(t) => NoTombs(u)
    BY <1>1, <1>2 DEF NoTombs
<1>. QED  BY <1>3, <1>4, <1>5, <1>6, <1>7

\* The value of a key that is there is replaced.
LEMMA WriteValue ==
    ASSUME NEW t, NEW N, OpenTable(t, N), Reached(t, N), Lone(t, N), NEW i, NEW s, NEW u,
           Wrote(t, N, i, s, u), NEW k \in Key, Holds(t, i, k), s.state = "occupied", s.key = k
    PROVE  /\ Reached(u, N) /\ Lone(u, N)
           /\ Occupied(u) = Occupied(t)
           /\ OpenEntries(u) = {e \in OpenEntries(t) : e[1] # k} \cup {<<k, s.val>>}
           /\ NoTombs(t) => NoTombs(u)
<1>1. N \in Nat \ {0} /\ DOMAIN t = 0..(N - 1) /\ DOMAIN u = 0..(N - 1)
    BY DEF OpenTable, Wrote
<1>2. /\ i \in 0..(N - 1) /\ u[i] = s
      /\ \A j \in 0..(N - 1) : j # i => u[j] = t[j]
    BY DEF Wrote
<1>3. Reached(u, N) /\ Lone(u, N)
    <2>1. \A j \in 0..(N - 1) : \A h \in Key : Holds(u, j, h) => Holds(t, j, h)
        BY <1>2 DEF Holds
    <2>2. \A j \in 0..(N - 1) : u[j].state = "empty" => t[j].state = "empty"
        BY <1>2
    <2>. QED  BY <1>1, <2>1, <2>2, SameShape
<1>4. Occupied(u) = Occupied(t) /\ i \in Occupied(t)
    BY <1>1, <1>2 DEF Occupied, Holds
<1>5. \A j \in Occupied(t) : j # i => u[j] = t[j] /\ t[j].key # k
    <2>1. \A j \in Occupied(t) : j \in 0..(N - 1) /\ t[j].state = "occupied"
        BY <1>1 DEF Occupied
    <2>2. \A j \in Occupied(t) : j # i => ~Holds(t, j, k)
        BY <1>2, <2>1 DEF Lone
    <2>. QED  BY <1>2, <2>1, <2>2 DEF Holds
<1>6. OpenEntries(u) = {e \in OpenEntries(t) : e[1] # k} \cup {<<k, s.val>>}
    BY <1>2, <1>4, <1>5 DEF OpenEntries, Holds
<1>7. NoTombs(t) => NoTombs(u)
    BY <1>1, <1>2 DEF NoTombs
<1>. QED  BY <1>3, <1>4, <1>6, <1>7

\* An entry becomes a tombstone.
LEMMA WriteTomb ==
    ASSUME NEW t, NEW N, OpenTable(t, N), Reached(t, N), Lone(t, N), NEW i, NEW s, NEW u,
           Wrote(t, N, i, s, u), NEW k \in Key, Holds(t, i, k), s.state = "deleted"
    PROVE  /\ Reached(u, N) /\ Lone(u, N)
           /\ i \in Occupied(t) /\ Occupied(u) = Occupied(t) \ {i}
           /\ OpenEntries(u) = {e \in OpenEntries(t) : e[1] # k}
<1>1. N \in Nat \ {0} /\ DOMAIN t = 0..(N - 1) /\ DOMAIN u = 0..(N - 1)
    BY DEF OpenTable, Wrote
<1>2. /\ i \in 0..(N - 1) /\ u[i] = s
      /\ \A j \in 0..(N - 1) : j # i => u[j] = t[j]
    BY DEF Wrote
<1>3. Reached(u, N) /\ Lone(u, N)
    <2>1. \A j \in 0..(N - 1) : \A h \in Key : Holds(u, j, h) => Holds(t, j, h)
        BY <1>2 DEF Holds
    <2>2. \A j \in 0..(N - 1) : u[j].state = "empty" => t[j].state = "empty"
        BY <1>2
    <2>. QED  BY <1>1, <2>1, <2>2, SameShape
<1>4. Occupied(u) = Occupied(t) \ {i} /\ i \in Occupied(t)
    BY <1>1, <1>2 DEF Occupied, Holds
<1>5. \A j \in Occupied(t) : j # i => u[j] = t[j] /\ t[j].key # k
    <2>1. \A j \in Occupied(t) : j \in 0..(N - 1) /\ t[j].state = "occupied"
        BY <1>1 DEF Occupied
    <2>2. \A j \in Occupied(t) : j # i => ~Holds(t, j, k)
        BY <1>2, <2>1 DEF Lone
    <2>. QED  BY <1>2, <2>1, <2>2 DEF Holds
<1>6. OpenEntries(u) = {e \in OpenEntries(t) : e[1] # k}
    BY <1>2, <1>4, <1>5 DEF OpenEntries, Holds
<1>. QED  BY <1>3, <1>4, <1>6

\* A slot that holds no entry is emptied, or written with no entry.
LEMMA WriteEmpty ==
    ASSUME NEW t, NEW N, OpenTable(t, N), NEW i, NEW s, NEW u,
           Wrote(t, N, i, s, u), t[i].state # "occupied", s.state # "occupied"
    PROVE  /\ t[i].state = "empty" => (Reached(t, N) => Reached(u, N)) /\ (Lone(t, N) => Lone(u, N))
           /\ Occupied(u) = Occupied(t)
           /\ OpenEntries(u) = OpenEntries(t)
           /\ NoTombs(t) /\ s.state = "empty" => NoTombs(u)
<1>1. N \in Nat \ {0} /\ DOMAIN t = 0..(N - 1) /\ DOMAIN u = 0..(N - 1)
    BY DEF OpenTable, Wrote
<1>2. /\ i \in 0..(N - 1) /\ u[i] = s
      /\ \A j \in 0..(N - 1) : j # i => u[j] = t[j]
    BY DEF Wrote
<1>3. ASSUME t[i].state = "empty" PROVE (Reached(t, N) => Reached(u, N)) /\ (Lone(t, N) => Lone(u, N))
    <2>1. \A j \in 0..(N - 1) : \A h \in Key : Holds(u, j, h) => Holds(t, j, h)
        BY <1>2 DEF Holds
    <2>2. \A j \in 0..(N - 1) : u[j].state = "empty" => t[j].state = "empty"
        BY <1>2, <1>3
    <2>. QED  BY <1>1, <2>1, <2>2, SameShape
<1>4. Occupied(u) = Occupied(t) /\ \A j \in Occupied(t) : u[j] = t[j]
    BY <1>1, <1>2 DEF Occupied
<1>5. OpenEntries(u) = OpenEntries(t)
    BY <1>4 DEF OpenEntries
<1>6. NoTombs(t) /\ s.state = "empty" => NoTombs(u)
    BY <1>1, <1>2 DEF NoTombs
<1>. QED  BY <1>3, <1>4, <1>5, <1>6

(***************************************************************************)
(* Open addressing: the entries are counted                                *)
(***************************************************************************)

LEMMA OccupiedFinite ==
    ASSUME NEW t, NEW N, OpenTable(t, N)
    PROVE  /\ IsFiniteSet(Occupied(t)) /\ Cardinality(Occupied(t)) \in Nat
           /\ NoTombs(t) /\ Cardinality(Occupied(t)) < N => SomeEmpty(t)
<1>1. N \in Nat \ {0} /\ t \in [0..(N - 1) -> SlotSet] /\ DOMAIN t = 0..(N - 1)
    BY DEF OpenTable
<1>2. IsFiniteSet(0..(N - 1)) /\ Cardinality(0..(N - 1)) = N
    BY <1>1, FS_Interval
<1>3. Occupied(t) \in SUBSET (0..(N - 1))
    BY <1>1 DEF Occupied
<1>4. IsFiniteSet(Occupied(t))
    BY <1>2, <1>3, FS_Subset
<1>5. Cardinality(Occupied(t)) \in Nat
    BY <1>4, FS_CardinalityType
<1>6. ASSUME NoTombs(t), Cardinality(Occupied(t)) < N, ~SomeEmpty(t) PROVE FALSE
    <2>1. \A i \in 0..(N - 1) : t[i].state \in {"empty", "occupied", "deleted"}
        BY <1>1 DEF SlotSet
    <2>2. \A i \in 0..(N - 1) : t[i].state = "occupied"
        BY <1>1, <1>6, <2>1 DEF NoTombs, SomeEmpty
    <2>3. Occupied(t) = 0..(N - 1)
        BY <1>1, <2>2 DEF Occupied
    <2>. QED  BY <1>1, <1>2, <1>6, <2>3
<1>. QED  BY <1>4, <1>5, <1>6

\* As many entries as occupied slots.
LEMMA EntriesCounted ==
    ASSUME NEW t, NEW N, OpenTable(t, N), Lone(t, N)
    PROVE  Cardinality(OpenEntries(t)) = Cardinality(Occupied(t))
<1>1. N \in Nat \ {0} /\ DOMAIN t = 0..(N - 1)
    BY DEF OpenTable
<1>2. PICK f : f = [i \in Occupied(t) |-> <<t[i].key, t[i].val>>]
    OBVIOUS
<1>3. \A i \in Occupied(t) : i \in 0..(N - 1) /\ t[i].state = "occupied" /\ t[i].key \in Key
    BY <1>1 DEF Occupied, OpenTable
<1>4. ASSUME NEW i \in Occupied(t), NEW j \in Occupied(t), f[i] = f[j] PROVE i = j
    <2>1. t[i].key = t[j].key
        BY <1>2, <1>4
    <2>2. Holds(t, i, t[i].key) /\ Holds(t, j, t[i].key)
        BY <1>3, <2>1 DEF Holds
    <2>. QED  BY <1>3, <2>2 DEF Lone
<1>5. f \in [Occupied(t) -> OpenEntries(t)] /\ \A e \in OpenEntries(t) : \E i \in Occupied(t) : f[i] = e
    BY <1>2 DEF OpenEntries
<1>6. f \in Bijection(Occupied(t), OpenEntries(t))
    BY <1>2, <1>4, <1>5 DEF Bijection, Injection, Surjection, IsInjective
<1>7. ExistsBijection(Occupied(t), OpenEntries(t))
    BY <1>6 DEF ExistsBijection
<1>. QED  BY <1>7, OccupiedFinite, FS_Bijection

(***************************************************************************)
(* Open addressing: the calls                                              *)
(***************************************************************************)

\* The entries can be found and are counted in n.
Sound(t, N, n) == Reached(t, N) /\ Lone(t, N) /\ n = Cardinality(Occupied(t))

\* Fewer than three of four slots are in use.
Tight(t, N, n) == NoTombs(t) /\ SomeEmpty(t) /\ n * 4 < N * 3

\* The state of an open table: scar, when a tombstone was turned into an empty
\* slot; roomy, when nothing has been removed from a growable map.
OpenState(t, N, n, scar, roomy) ==
    /\ OpenTable(t, N) /\ n \in Nat
    /\ SomeEmpty(t) /\ ~scar => Sound(t, N, n)
    /\ roomy => ~scar /\ Tight(t, N, n)

\* No call makes an empty slot in a table that has none.
LEMMA EmptyStays ==
    ASSUME NEW t, NEW N, OpenTable(t, N), NEW i, NEW s, NEW u, Wrote(t, N, i, s, u), SomeEmpty(u),
           s.state = "empty" => t[i].state = "empty"
    PROVE  SomeEmpty(t)
<1>1. DOMAIN t = 0..(N - 1) /\ DOMAIN u = 0..(N - 1)
    BY DEF OpenTable, Wrote
<1>2. PICK j \in 0..(N - 1) : u[j].state = "empty"
    BY <1>1 DEF SomeEmpty
<1>3. t[j].state = "empty"
    BY <1>2 DEF Wrote
<1>. QED  BY <1>1, <1>3 DEF SomeEmpty

\* The outcomes of open_put.
PutNothing(t, n, r) ==
    /\ r.table = t /\ r.size = n /\ r.scar = FALSE
    /\ r.st # "ok" \/ r.ignored
PutValue(t, N, n, k, v, i, r) ==
    /\ Wrote(t, N, i, [t[i] EXCEPT !.val = v], r.table) /\ t[i].key = k
    /\ r.size = n /\ r.scar = FALSE /\ r.st = "ok" /\ r.ignored = FALSE
PutEntry(t, N, n, k, v, i, r) ==
    /\ Wrote(t, N, i, [state |-> "occupied", key |-> k, val |-> v], r.table)
    /\ r.size = n + 1 /\ r.scar = FALSE /\ r.st = "ok" /\ r.ignored = FALSE
PutFailed(t, N, n, i, r) ==
    /\ Wrote(t, N, i, EmptySlot, r.table)
    /\ r.size = n /\ r.scar = (t[i].state = "deleted") /\ r.st = "copy" /\ r.ignored = FALSE

LEMMA PutCases ==
    ASSUME NEW t, NEW N, OpenTable(t, N), NEW n \in Nat, NEW k \in Key, NEW v \in Value,
           NEW r \in open_put(t, n, k, v), NEW p, p = open_probe(t, k, TRUE)
    PROVE  /\ OpenTable(r.table, N)
           /\ \/ PutNothing(t, n, r)
              \/ p.state = "occupied" /\ PutValue(t, N, n, k, v, p.index, r)
              \/ p.state = "empty" /\ PutEntry(t, N, n, k, v, p.index, r)
              \/ p.state = "empty" /\ PutFailed(t, N, n, p.index, r)
<1>1. p.index \in 0..(N - 1) /\ p.state \in {"occupied", "empty"}
    BY ProbeTyped
<1>2. PICK i : i = p.index
    OBVIOUS
<1>3. PICK s : s = t[i]
    OBVIOUS
<1>4. N \in Nat \ {0} /\ t \in [0..(N - 1) -> SlotSet] /\ s \in SlotSet
    BY <1>1, <1>2, <1>3 DEF OpenTable
<1>5. CASE p.state = "occupied" /\ s.key = k
    <2>1. r \in {Result("ok", [t EXCEPT ![i].val = v], n), Ignored(t, n)}
        BY <1>2, <1>3, <1>5 DEF open_put
    <2>2. CASE r = Ignored(t, n)
        BY <2>2 DEF PutNothing, Ignored, Result
    <2>3. CASE r = Result("ok", [t EXCEPT ![i].val = v], n)
        <3>1. PICK u : u = [t EXCEPT ![i].val = v]
            OBVIOUS
        <3>2. PICK w : w = [s EXCEPT !.val = v]
            OBVIOUS
        <3>3. u = [t EXCEPT ![i] = w]
            BY <1>1, <1>2, <1>3, <1>4, <3>1, <3>2
        <3>4. w \in SlotSet /\ w.state = s.state /\ w.key = s.key /\ w.val = v
            BY <1>4, <3>2 DEF SlotSet
        <3>5. w.state = "occupied" => w.key \in Key /\ w.val \in Value
            BY <1>5, <3>4
        <3>6. OpenTable(u, N) /\ Wrote(t, N, i, w, u)
            BY <1>1, <1>2, <3>3, <3>4, <3>5, WriteIs
        <3>7. r.table = u /\ r.size = n /\ r.scar = FALSE /\ r.st = "ok" /\ r.ignored = FALSE
            BY <2>3, <3>1 DEF Result
        <3>8. PutValue(t, N, n, k, v, p.index, r)
            BY <1>2, <1>3, <1>5, <3>2, <3>6, <3>7 DEF PutValue
        <3>. QED  BY <1>5, <3>6, <3>7, <3>8
    <2>. QED  BY <2>1, <2>2, <2>3
<1>6. CASE p.state = "occupied" /\ s.key # k
    <2>1. r = Result("full", t, n)
        BY <1>2, <1>3, <1>6 DEF open_put
    <2>2. PutNothing(t, n, r) /\ r.table = t
        BY <2>1 DEF PutNothing, Result
    <2>. QED  BY <2>2
<1>7. CASE p.state = "empty"
    <2>1. PICK w : w = [state |-> "occupied", key |-> k, val |-> v]
        OBVIOUS
    <2>2. \/ r = Result("ok", [t EXCEPT ![i] = w], n + 1)
          \/ r = Result("copy", t, n)
          \/ r = [Result("copy", [t EXCEPT ![i] = EmptySlot], n) EXCEPT !.scar = s.state = "deleted"]
        BY <1>2, <1>3, <1>7, <2>1 DEF open_put
    <2>3. CASE r = Result("ok", [t EXCEPT ![i] = w], n + 1)
        <3>1. PICK u : u = [t EXCEPT ![i] = w]
            OBVIOUS
        <3>2. w \in SlotSet /\ w.key \in Key /\ w.val \in Value
            BY <2>1 DEF SlotSet
        <3>3. OpenTable(u, N) /\ Wrote(t, N, i, w, u)
            BY <1>1, <1>2, <3>1, <3>2, WriteIs
        <3>4. r.table = u /\ r.size = n + 1 /\ r.scar = FALSE /\ r.st = "ok" /\ r.ignored = FALSE
            BY <2>3, <3>1 DEF Result
        <3>5. PutEntry(t, N, n, k, v, p.index, r)
            BY <1>2, <2>1, <3>3, <3>4 DEF PutEntry
        <3>. QED  BY <1>7, <3>3, <3>4, <3>5
    <2>4. CASE r = Result("copy", t, n)
        <3>1. PutNothing(t, n, r) /\ r.table = t
            BY <2>4 DEF PutNothing, Result
        <3>. QED  BY <3>1
    <2>5. CASE r = [Result("copy", [t EXCEPT ![i] = EmptySlot], n) EXCEPT !.scar = s.state = "deleted"]
        <3>1. PICK u : u = [t EXCEPT ![i] = EmptySlot]
            OBVIOUS
        <3>2. EmptySlot \in SlotSet /\ EmptySlot.state = "empty"
            BY DEF SlotSet, EmptySlot
        <3>3. OpenTable(u, N) /\ Wrote(t, N, i, EmptySlot, u)
            BY <1>1, <1>2, <3>1, <3>2, WriteIs
        <3>4. r.table = u /\ r.size = n /\ r.scar = (s.state = "deleted") /\ r.st = "copy" /\ r.ignored = FALSE
            BY <2>5, <3>1 DEF Result
        <3>5. PutFailed(t, N, n, p.index, r)
            BY <1>2, <1>3, <3>3, <3>4 DEF PutFailed
        <3>. QED  BY <1>7, <3>3, <3>4, <3>5
    <2>. QED  BY <2>2, <2>3, <2>4, <2>5
<1>. QED  BY <1>1, <1>5, <1>6, <1>7

\* A sound table has room when it should.
LEMMA StateFrom ==
    ASSUME NEW t, NEW N, OpenTable(t, N), NEW n \in Nat, NEW scar \in BOOLEAN, NEW roomy \in BOOLEAN,
           Sound(t, N, n), roomy => NoTombs(t) /\ ~scar /\ n * 4 < N * 3
    PROVE  OpenState(t, N, n, scar, roomy)
<1>1. N \in Nat \ {0}
    BY DEF OpenTable
<1>2. roomy => n < N
    BY <1>1
<1>3. roomy => SomeEmpty(t)
    BY <1>2, OccupiedFinite DEF Sound
<1>. QED  BY <1>3 DEF OpenState, Tight

\* open_put keeps what can be trusted.
LEMMA OpenPut ==
    ASSUME NEW t, NEW N, NEW n, NEW scar \in BOOLEAN, NEW roomy \in BOOLEAN,
           OpenState(t, N, n, scar, roomy), roomy => (n + 1) * 4 < N * 3,
           NEW k \in Key, NEW v \in Value, NEW r \in open_put(t, n, k, v)
    PROVE  r.scar \in BOOLEAN /\ OpenState(r.table, N, r.size, scar \/ r.scar, roomy)
<1>1. OpenTable(t, N) /\ n \in Nat /\ (roomy => ~scar /\ Tight(t, N, n))
    BY DEF OpenState
<1>2. PICK p : p = open_probe(t, k, TRUE)
    OBVIOUS
<1>3. PICK i : i = p.index
    OBVIOUS
<1>4. /\ OpenTable(r.table, N)
      /\ \/ PutNothing(t, n, r)
         \/ p.state = "occupied" /\ PutValue(t, N, n, k, v, i, r)
         \/ p.state = "empty" /\ PutEntry(t, N, n, k, v, i, r)
         \/ p.state = "empty" /\ PutFailed(t, N, n, i, r)
    BY <1>1, <1>2, <1>3, PutCases
<1>5. i \in 0..(N - 1) /\ (p.state = "empty" => SomeEmpty(t) /\ t[i].state # "occupied")
    BY <1>1, <1>2, <1>3, ProbeTyped
<1>6. N \in Nat \ {0} /\ t[i] \in SlotSet
    BY <1>1, <1>5 DEF OpenTable
<1>7. SomeEmpty(t) /\ ~scar => Sound(t, N, n) /\ Finds(t, N, k, p)
    BY <1>1, <1>2, ProbeFinds DEF OpenState, Sound
<1>8. CASE PutNothing(t, n, r)
    <2>1. r.table = t /\ r.size = n /\ r.scar = FALSE
        BY <1>8 DEF PutNothing
    <2>2. (scar \/ r.scar) = scar
        BY <2>1
    <2>. QED  BY <2>1, <2>2
<1>9. CASE p.state = "occupied" /\ PutValue(t, N, n, k, v, i, r)
    <2>1. PICK s : s = [t[i] EXCEPT !.val = v]
        OBVIOUS
    <2>2. Wrote(t, N, i, s, r.table) /\ r.size = n /\ r.scar = FALSE
        BY <1>9, <2>1 DEF PutValue
    <2>3. s.state = t[i].state /\ s.key = t[i].key
        BY <1>6, <2>1 DEF SlotSet
    <2>4. (scar \/ r.scar) = scar
        BY <2>2
    <2>5. SomeEmpty(r.table) => SomeEmpty(t)
        BY <1>1, <2>2, <2>3, EmptyStays
    <2>6. CASE SomeEmpty(t) /\ ~scar
        <3>1. Holds(t, i, k) /\ Reached(t, N) /\ Lone(t, N) /\ n = Cardinality(Occupied(t))
            BY <1>3, <1>7, <1>9, <2>6 DEF Finds, Sound
        <3>2. s.state = "occupied" /\ s.key = k
            BY <2>3, <3>1 DEF Holds
        <3>3. /\ Reached(r.table, N) /\ Lone(r.table, N) /\ Occupied(r.table) = Occupied(t)
              /\ NoTombs(t) => NoTombs(r.table)
            BY <1>1, <2>2, <3>1, <3>2, WriteValue
        <3>4. Sound(r.table, N, n)
            BY <3>1, <3>3 DEF Sound
        <3>5. roomy => NoTombs(r.table) /\ ~scar /\ n * 4 < N * 3
            BY <1>1, <3>3 DEF Tight
        <3>6. OpenState(r.table, N, n, scar, roomy)
            BY <1>1, <1>4, <3>4, <3>5, StateFrom
        <3>. QED  BY <2>2, <2>4, <3>6
    <2>7. CASE ~(SomeEmpty(t) /\ ~scar)
        <3>1. ~roomy
            BY <1>1, <2>7 DEF Tight
        <3>2. OpenState(r.table, N, n, scar, roomy)
            BY <1>1, <1>4, <2>5, <2>7, <3>1 DEF OpenState
        <3>. QED  BY <2>2, <2>4, <3>2
    <2>. QED  BY <2>6, <2>7
<1>10. CASE p.state = "empty" /\ PutEntry(t, N, n, k, v, i, r)
    <2>1. PICK s : s = [state |-> "occupied", key |-> k, val |-> v]
        OBVIOUS
    <2>2. Wrote(t, N, i, s, r.table) /\ r.size = n + 1 /\ r.scar = FALSE
        BY <1>10, <2>1 DEF PutEntry
    <2>3. s.state = "occupied" /\ s.key = k
        BY <2>1
    <2>4. (scar \/ r.scar) = scar
        BY <2>2
    <2>5. SomeEmpty(t) /\ t[i].state # "occupied"
        BY <1>5, <1>10
    <2>6. CASE ~scar
        <3>1. /\ Reached(t, N) /\ Lone(t, N) /\ n = Cardinality(Occupied(t))
              /\ \A j \in 0..(N - 1) : ~Holds(t, j, k)
              /\ \E x \in 0..(N - 1) : i = At(k, x, N) /\ Busy(t, N, k, x)
            BY <1>3, <1>7, <1>10, <2>5, <2>6 DEF Finds, Sound
        <3>2. /\ Reached(r.table, N) /\ Lone(r.table, N)
              /\ i \notin Occupied(t) /\ Occupied(r.table) = Occupied(t) \cup {i}
              /\ NoTombs(t) => NoTombs(r.table)
            BY <1>1, <2>2, <2>3, <2>5, <3>1, WriteNew
        <3>3. IsFiniteSet(Occupied(t))
            BY <1>1, OccupiedFinite
        <3>4. Cardinality(Occupied(r.table)) = n + 1
            BY <3>1, <3>2, <3>3, FS_AddElement
        <3>5. Sound(r.table, N, n + 1)
            BY <3>2, <3>4 DEF Sound
        <3>6. roomy => NoTombs(r.table) /\ ~scar /\ (n + 1) * 4 < N * 3
            BY <1>1, <3>2 DEF Tight
        <3>7. n + 1 \in Nat
            BY <1>1
        <3>8. OpenState(r.table, N, n + 1, scar, roomy)
            BY <1>4, <3>5, <3>6, <3>7, StateFrom
        <3>. QED  BY <2>2, <2>4, <3>8
    <2>7. CASE scar
        <3>1. ~roomy
            BY <1>1, <2>7
        <3>2. OpenState(r.table, N, n + 1, scar, roomy)
            BY <1>1, <1>4, <2>7, <3>1 DEF OpenState
        <3>. QED  BY <2>2, <2>4, <3>2
    <2>. QED  BY <2>6, <2>7
<1>11. CASE p.state = "empty" /\ PutFailed(t, N, n, i, r)
    <2>1. Wrote(t, N, i, EmptySlot, r.table) /\ r.size = n /\ r.scar = (t[i].state = "deleted")
        BY <1>11 DEF PutFailed
    <2>2. EmptySlot.state = "empty" /\ EmptySlot.state # "occupied"
        BY DEF EmptySlot
    <2>3. SomeEmpty(t) /\ t[i].state # "occupied" /\ DOMAIN t = 0..(N - 1)
        BY <1>1, <1>5, <1>11 DEF OpenTable
    <2>4. CASE scar \/ r.scar
        <3>1. ~roomy
            BY <1>1, <1>5, <2>1, <2>3, <2>4 DEF Tight, NoTombs
        <3>2. OpenState(r.table, N, n, TRUE, FALSE)
            BY <1>1, <1>4 DEF OpenState
        <3>3. (scar \/ r.scar) = TRUE /\ roomy = FALSE /\ r.scar \in BOOLEAN
            BY <2>1, <2>4, <3>1
        <3>. QED  BY <2>1, <3>2, <3>3
    <2>5. CASE ~(scar \/ r.scar)
        <3>1. t[i].state = "empty"
            BY <1>6, <2>1, <2>3, <2>5 DEF SlotSet
        <3>2. Reached(t, N) /\ Lone(t, N) /\ n = Cardinality(Occupied(t))
            BY <1>7, <2>3, <2>5 DEF Sound
        <3>3. /\ Reached(r.table, N) /\ Lone(r.table, N) /\ Occupied(r.table) = Occupied(t)
              /\ NoTombs(t) => NoTombs(r.table)
            <4>1. PICK w : w = EmptySlot
                OBVIOUS
            <4>2. Wrote(t, N, i, w, r.table) /\ w.state = "empty" /\ w.state # "occupied"
                BY <2>1, <2>2, <4>1
            <4>3. /\ t[i].state = "empty" => (Reached(t, N) => Reached(r.table, N)) /\ (Lone(t, N) => Lone(r.table, N))
                  /\ Occupied(r.table) = Occupied(t)
                  /\ OpenEntries(r.table) = OpenEntries(t)
                  /\ NoTombs(t) /\ w.state = "empty" => NoTombs(r.table)
                BY <1>1, <2>3, <4>2, WriteEmpty
            <4>. QED  BY <3>1, <3>2, <4>2, <4>3
        <3>4. Sound(r.table, N, n)
            BY <3>2, <3>3 DEF Sound
        <3>5. roomy => NoTombs(r.table) /\ ~FALSE /\ n * 4 < N * 3
            BY <1>1, <3>3 DEF Tight
        <3>6. OpenState(r.table, N, n, FALSE, roomy)
            BY <1>1, <1>4, <3>4, <3>5, StateFrom
        <3>7. (scar \/ r.scar) = FALSE /\ r.scar \in BOOLEAN
            BY <2>1, <2>5
        <3>. QED  BY <2>1, <3>6, <3>7
    <2>. QED  BY <2>4, <2>5
<1>. QED  BY <1>4, <1>8, <1>9, <1>10, <1>11

\* A key has an entry when a slot holds it.
LEMMA EntryHeld ==
    ASSUME NEW t, NEW N, OpenTable(t, N), NEW k \in Key
    PROVE  (\E e \in OpenEntries(t) : e[1] = k) <=> \E i \in 0..(N - 1) : Holds(t, i, k)
<1>1. DOMAIN t = 0..(N - 1)
    BY DEF OpenTable
<1>2. ASSUME NEW e \in OpenEntries(t), e[1] = k PROVE \E i \in 0..(N - 1) : Holds(t, i, k)
    <2>1. PICK i \in Occupied(t) : e = <<t[i].key, t[i].val>>
        BY DEF OpenEntries
    <2>. QED  BY <1>1, <1>2, <2>1 DEF Occupied, Holds
<1>3. ASSUME NEW i \in 0..(N - 1), Holds(t, i, k) PROVE \E e \in OpenEntries(t) : e[1] = k
    <2>1. i \in Occupied(t) /\ <<t[i].key, t[i].val>>[1] = k
        BY <1>1, <1>3 DEF Occupied, Holds
    <2>. QED  BY <2>1 DEF OpenEntries
<1>. QED  BY <1>2, <1>3

\* The entries after a put.
LEMMA OpenPutMeans ==
    ASSUME NEW t, NEW N, OpenTable(t, N), SomeEmpty(t), Reached(t, N), Lone(t, N), NEW n \in Nat,
           NEW k \in Key, NEW v \in Value, NEW r \in open_put(t, n, k, v)
    PROVE  OpenEntries(r.table) = IF r.st = "ok" /\ ~r.ignored
                                  THEN {e \in OpenEntries(t) : e[1] # k} \cup {<<k, v>>}
                                  ELSE OpenEntries(t)
<1>2. PICK p : p = open_probe(t, k, TRUE)
    OBVIOUS
<1>3. PICK i : i = p.index
    OBVIOUS
<1>4. \/ PutNothing(t, n, r)
      \/ p.state = "occupied" /\ PutValue(t, N, n, k, v, i, r)
      \/ p.state = "empty" /\ PutEntry(t, N, n, k, v, i, r)
      \/ p.state = "empty" /\ PutFailed(t, N, n, i, r)
    BY <1>2, <1>3, PutCases
<1>5. i \in 0..(N - 1) /\ (p.state = "empty" => SomeEmpty(t) /\ t[i].state # "occupied")
    BY <1>2, <1>3, ProbeTyped
<1>6. t[i] \in SlotSet
    BY <1>5 DEF OpenTable
<1>7. Finds(t, N, k, p)
    BY <1>2, ProbeFinds
<1>8. CASE PutNothing(t, n, r)
    BY <1>8 DEF PutNothing
<1>9. CASE p.state = "occupied" /\ PutValue(t, N, n, k, v, i, r)
    <2>1. PICK s : s = [t[i] EXCEPT !.val = v]
        OBVIOUS
    <2>2. Wrote(t, N, i, s, r.table) /\ r.st = "ok" /\ r.ignored = FALSE
        BY <1>9, <2>1 DEF PutValue
    <2>3. s.state = t[i].state /\ s.key = t[i].key /\ s.val = v
        BY <1>6, <2>1 DEF SlotSet
    <2>4. Holds(t, i, k)
        BY <1>3, <1>7, <1>9 DEF Finds
    <2>5. s.state = "occupied" /\ s.key = k
        BY <2>3, <2>4 DEF Holds
    <2>6. OpenEntries(r.table) = {e \in OpenEntries(t) : e[1] # k} \cup {<<k, s.val>>}
        BY <2>2, <2>4, <2>5, WriteValue
    <2>. QED  BY <2>2, <2>3, <2>6
<1>10. CASE p.state = "empty" /\ PutEntry(t, N, n, k, v, i, r)
    <2>1. PICK s : s = [state |-> "occupied", key |-> k, val |-> v]
        OBVIOUS
    <2>2. Wrote(t, N, i, s, r.table) /\ r.st = "ok" /\ r.ignored = FALSE
        BY <1>10, <2>1 DEF PutEntry
    <2>3. s.state = "occupied" /\ s.key = k /\ s.val = v /\ t[i].state # "occupied"
        BY <1>5, <1>10, <2>1
    <2>4. /\ \A j \in 0..(N - 1) : ~Holds(t, j, k)
          /\ \E x \in 0..(N - 1) : i = At(k, x, N) /\ Busy(t, N, k, x)
        BY <1>3, <1>7, <1>10 DEF Finds
    <2>5. OpenEntries(r.table) = OpenEntries(t) \cup {<<k, s.val>>}
        BY <2>2, <2>3, <2>4, WriteNew
    <2>6. \A e \in OpenEntries(t) : e[1] # k
        BY <2>4, EntryHeld
    <2>7. {e \in OpenEntries(t) : e[1] # k} = OpenEntries(t)
        BY <2>6
    <2>. QED  BY <2>2, <2>3, <2>5, <2>7
<1>11. CASE p.state = "empty" /\ PutFailed(t, N, n, i, r)
    <2>1. PICK s : s = EmptySlot
        OBVIOUS
    <2>2. Wrote(t, N, i, s, r.table) /\ r.st = "copy"
        BY <1>11, <2>1 DEF PutFailed
    <2>3. s.state # "occupied" /\ t[i].state # "occupied"
        BY <1>5, <1>11, <2>1 DEF EmptySlot
    <2>4. /\ t[i].state = "empty" => (Reached(t, N) => Reached(r.table, N)) /\ (Lone(t, N) => Lone(r.table, N))
          /\ Occupied(r.table) = Occupied(t)
          /\ OpenEntries(r.table) = OpenEntries(t)
          /\ NoTombs(t) /\ s.state = "empty" => NoTombs(r.table)
        BY <2>2, <2>3, WriteEmpty
    <2>. QED  BY <2>2, <2>4
<1>. QED  BY <1>4, <1>8, <1>9, <1>10, <1>11

\* The outcomes of open_remove.
RemoveEntry(t, N, n, i, r) ==
    /\ Wrote(t, N, i, [t[i] EXCEPT !.state = "deleted", !.val = NoItem], r.table)
    /\ r.size = n - 1 /\ r.st = "ok"

RemoveNothing(t, n, r) == r.table = t /\ r.size = n /\ r.st = "not_found"

LEMMA RemoveCases ==
    ASSUME NEW t, NEW N, OpenTable(t, N), NEW n \in Nat, NEW k \in Key,
           NEW r \in open_remove(t, n, k), NEW p, p = open_probe(t, k, FALSE)
    PROVE  /\ OpenTable(r.table, N)
           /\ \/ p.state = "empty" /\ RemoveNothing(t, n, r)
              \/ p.state = "occupied" /\ RemoveEntry(t, N, n, p.index, r)
<1>1. p.index \in 0..(N - 1) /\ p.state \in {"occupied", "empty"}
    BY ProbeTyped
<1>2. PICK i : i = p.index
    OBVIOUS
<1>3. PICK s : s = t[i]
    OBVIOUS
<1>4. N \in Nat \ {0} /\ t \in [0..(N - 1) -> SlotSet] /\ s \in SlotSet
    BY <1>1, <1>2, <1>3 DEF OpenTable
<1>5. CASE p.state = "empty"
    <2>1. r = Result("not_found", t, n)
        BY <1>5 DEF open_remove
    <2>. QED  BY <1>5, <2>1 DEF Result, RemoveNothing
<1>6. CASE p.state = "occupied"
    <2>1. PICK u : u = [t EXCEPT ![i].state = "deleted", ![i].val = NoItem]
        OBVIOUS
    <2>2. r = Result("ok", u, n - 1)
        BY <1>2, <1>6, <2>1 DEF open_remove
    <2>3. PICK w : w = [s EXCEPT !.state = "deleted", !.val = NoItem]
        OBVIOUS
    <2>4. w \in SlotSet /\ w.state = "deleted"
        BY <1>4, <2>3 DEF SlotSet
    <2>5. u = [t EXCEPT ![i] = w]
        BY <1>1, <1>2, <1>3, <1>4, <2>1, <2>3
    <2>6. OpenTable(u, N) /\ Wrote(t, N, i, w, u)
        BY <1>1, <1>2, <2>4, <2>5, WriteIs
    <2>7. r.table = u /\ r.size = n - 1 /\ r.st = "ok"
        BY <2>2 DEF Result
    <2>8. RemoveEntry(t, N, n, p.index, r)
        BY <1>2, <1>3, <2>3, <2>6, <2>7 DEF RemoveEntry
    <2>. QED  BY <1>6, <2>6, <2>7, <2>8
<1>. QED  BY <1>1, <1>5, <1>6

\* open_remove keeps what can be trusted.
LEMMA OpenRemove ==
    ASSUME NEW t, NEW N, NEW n, NEW scar \in BOOLEAN, NEW roomy \in BOOLEAN,
           OpenState(t, N, n, scar, roomy),
           NEW k \in Key, NEW r \in open_remove(t, n, k), r.st = "ok" => n > 0
    PROVE  OpenState(r.table, N, r.size, scar, roomy /\ r.st # "ok")
<1>1. OpenTable(t, N) /\ n \in Nat
    BY DEF OpenState
<1>2. PICK p : p = open_probe(t, k, FALSE)
    OBVIOUS
<1>3. PICK i : i = p.index
    OBVIOUS
<1>4. /\ OpenTable(r.table, N)
      /\ \/ p.state = "empty" /\ RemoveNothing(t, n, r)
         \/ p.state = "occupied" /\ RemoveEntry(t, N, n, i, r)
    BY <1>1, <1>2, <1>3, RemoveCases
<1>5. CASE RemoveNothing(t, n, r)
    <2>1. r.table = t /\ r.size = n /\ (roomy /\ r.st # "ok") = roomy
        BY <1>5 DEF RemoveNothing
    <2>. QED  BY <2>1
<1>6. CASE p.state = "occupied" /\ RemoveEntry(t, N, n, i, r)
    <2>1. PICK s : s = [t[i] EXCEPT !.state = "deleted", !.val = NoItem]
        OBVIOUS
    <2>2. Wrote(t, N, i, s, r.table) /\ r.size = n - 1 /\ r.st = "ok"
        BY <1>6, <2>1 DEF RemoveEntry
    <2>3. t[i] \in SlotSet
        BY <1>1, <2>2 DEF Wrote, OpenTable
    <2>4. s.state = "deleted"
        BY <2>1, <2>3 DEF SlotSet
    <2>5. SomeEmpty(r.table) => SomeEmpty(t)
        BY <1>1, <2>2, <2>4, EmptyStays
    <2>6. n - 1 \in Nat
        BY <1>1, <2>2
    <2>7. ASSUME SomeEmpty(t), ~scar PROVE Sound(r.table, N, n - 1)
        <3>1. Reached(t, N) /\ Lone(t, N) /\ n = Cardinality(Occupied(t))
            BY <2>7 DEF OpenState, Sound
        <3>2. Holds(t, i, k)
            BY <1>1, <1>2, <1>3, <1>6, <2>7, <3>1, ProbeFinds DEF Finds
        <3>3. /\ Reached(r.table, N) /\ Lone(r.table, N)
              /\ i \in Occupied(t) /\ Occupied(r.table) = Occupied(t) \ {i}
            BY <1>1, <2>2, <2>4, <3>1, <3>2, WriteTomb
        <3>4. Cardinality(Occupied(r.table)) = n - 1
            BY <1>1, <3>1, <3>3, OccupiedFinite, FS_RemoveElement
        <3>. QED  BY <3>3, <3>4 DEF Sound
    <2>8. OpenState(r.table, N, n - 1, scar, FALSE)
        BY <1>4, <2>5, <2>6, <2>7 DEF OpenState
    <2>9. (roomy /\ r.st # "ok") = FALSE
        BY <2>2
    <2>. QED  BY <2>2, <2>8, <2>9
<1>. QED  BY <1>4, <1>5, <1>6

\* The entries after a remove, and what a get returns.
LEMMA OpenRemoveMeans ==
    ASSUME NEW t, NEW N, OpenTable(t, N), SomeEmpty(t), Reached(t, N), Lone(t, N), NEW n \in Nat,
           NEW k \in Key, NEW r \in open_remove(t, n, k)
    PROVE  /\ r.st = IF \E e \in OpenEntries(t) : e[1] = k THEN "ok" ELSE "not_found"
           /\ OpenEntries(r.table) = {e \in OpenEntries(t) : e[1] # k}
<1>1. PICK p : p = open_probe(t, k, FALSE)
    OBVIOUS
<1>2. PICK i : i = p.index
    OBVIOUS
<1>3. \/ p.state = "empty" /\ RemoveNothing(t, n, r)
      \/ p.state = "occupied" /\ RemoveEntry(t, N, n, i, r)
    BY <1>1, <1>2, RemoveCases
<1>4. Finds(t, N, k, p)
    BY <1>1, ProbeFinds
<1>5. CASE p.state = "empty" /\ RemoveNothing(t, n, r)
    <2>0. r.table = t /\ r.st = "not_found"
        BY <1>5 DEF RemoveNothing
    <2>1. \A j \in 0..(N - 1) : ~Holds(t, j, k)
        BY <1>4, <1>5 DEF Finds
    <2>2. \A e \in OpenEntries(t) : e[1] # k
        BY <2>1, EntryHeld
    <2>. QED  BY <2>0, <2>2
<1>6. CASE p.state = "occupied" /\ RemoveEntry(t, N, n, i, r)
    <2>1. PICK s : s = [t[i] EXCEPT !.state = "deleted", !.val = NoItem]
        OBVIOUS
    <2>2. Wrote(t, N, i, s, r.table) /\ r.st = "ok"
        BY <1>6, <2>1 DEF RemoveEntry
    <2>3. t[i] \in SlotSet /\ i \in 0..(N - 1)
        BY <2>2 DEF Wrote, OpenTable
    <2>4. s.state = "deleted"
        BY <2>1, <2>3 DEF SlotSet
    <2>5. Holds(t, i, k)
        BY <1>2, <1>4, <1>6 DEF Finds
    <2>6. OpenEntries(r.table) = {e \in OpenEntries(t) : e[1] # k}
        BY <2>2, <2>4, <2>5, WriteTomb
    <2>7. \E e \in OpenEntries(t) : e[1] = k
        BY <2>3, <2>5, EntryHeld
    <2>. QED  BY <2>2, <2>6, <2>7
<1>. QED  BY <1>3, <1>5, <1>6

LEMMA OpenGetMeans ==
    ASSUME NEW t, NEW N, OpenTable(t, N), SomeEmpty(t), Reached(t, N), NEW n,
           NEW k \in Key, NEW r \in open_get(t, n, k)
    PROVE  IF \E e \in OpenEntries(t) : e[1] = k
           THEN r.st = "ok" /\ <<k, r.val>> \in OpenEntries(t) ELSE r.st = "not_found"
<1>1. PICK p : p = open_probe(t, k, FALSE)
    OBVIOUS
<1>2. Finds(t, N, k, p)
    BY <1>1, ProbeFinds
<1>3. CASE p.state = "empty"
    <2>1. r = Result("not_found", t, n)
        BY <1>1, <1>3 DEF open_get
    <2>2. r.st = "not_found"
        BY <2>1 DEF Result
    <2>3. \A j \in 0..(N - 1) : ~Holds(t, j, k)
        BY <1>2, <1>3 DEF Finds
    <2>4. ~ \E e \in OpenEntries(t) : e[1] = k
        BY <2>3, EntryHeld
    <2>. QED  BY <2>2, <2>4
<1>4. CASE p.state = "occupied"
    <2>1. r = Found(t[p.index].val, t, n)
        BY <1>1, <1>4 DEF open_get
    <2>2. r.st = "ok" /\ r.val = t[p.index].val
        BY <2>1 DEF Found, Result
    <2>3. p.index \in 0..(N - 1) /\ Holds(t, p.index, k)
        BY <1>2, <1>4 DEF Finds
    <2>4. p.index \in Occupied(t) /\ t[p.index].key = k
        BY <2>3 DEF OpenTable, Occupied, Holds
    <2>5. <<k, r.val>> \in OpenEntries(t)
        BY <2>2, <2>4 DEF OpenEntries
    <2>6. \E e \in OpenEntries(t) : e[1] = k
        BY <2>5
    <2>. QED  BY <2>2, <2>5, <2>6
<1>. QED  BY <1>2, <1>3, <1>4 DEF Finds

(***************************************************************************)
(* Open addressing: rehashing                                              *)
(***************************************************************************)

\* One slot of the old table is put into the new one.
PutStep(t, i, x) ==
    IF t[i - 1].state # "occupied" THEN x
    ELSE [x EXCEPT ![open_probe(x, t[i - 1].key, TRUE).index] = t[i - 1]]

\* The new table x of m slots after the first i slots of t.
Rehashed(t, m, i, x) ==
    /\ OpenTable(x, m) /\ NoTombs(x) /\ Reached(x, m) /\ Lone(x, m)
    /\ Cardinality(Occupied(x)) <= i
    /\ OpenEntries(x) \subseteq {<<t[j].key, t[j].val>> : j \in {h \in Occupied(t) : h < i}}
    /\ Lone(t, Count(t)) => OpenEntries(x) = {<<t[j].key, t[j].val>> : j \in {h \in Occupied(t) : h < i}}

LEMMA PutStepTyped ==
    ASSUME NEW t, NEW N, OpenTable(t, N), NEW m, NEW x, OpenTable(x, m), NEW i \in 1..N
    PROVE  OpenTable(PutStep(t, i, x), m)
<1>1. CASE t[i - 1].state # "occupied"
    BY <1>1 DEF PutStep
<1>2. CASE t[i - 1].state = "occupied"
    <2>1. PICK s : s = t[i - 1]
        OBVIOUS
    <2>2. i - 1 \in 0..(N - 1)
        BY DEF OpenTable
    <2>3. s \in SlotSet /\ s.key \in Key /\ s.val \in Value
        BY <1>2, <2>1, <2>2 DEF OpenTable
    <2>4. PICK p : p = open_probe(x, s.key, TRUE)
        OBVIOUS
    <2>5. p.index \in 0..(m - 1)
        BY <2>3, <2>4, ProbeTyped
    <2>6. PutStep(t, i, x) = [x EXCEPT ![p.index] = s]
        BY <1>2, <2>1, <2>4 DEF PutStep
    <2>. QED  BY <2>3, <2>5, <2>6, WriteIs
<1>. QED  BY <1>1, <1>2

LEMMA PutStepKeeps ==
    ASSUME NEW t, NEW N, OpenTable(t, N), NEW m, N < m, NEW i \in 1..N, NEW x, Rehashed(t, m, i - 1, x)
    PROVE  Rehashed(t, m, i, PutStep(t, i, x))
<1> DEFINE Old(a) == {<<t[j].key, t[j].val>> : j \in {h \in Occupied(t) : h < a}}
<1>1. N \in Nat \ {0} /\ DOMAIN t = 0..(N - 1) /\ Count(t) = N /\ i - 1 \in 0..(N - 1) /\ m \in Nat \ {0}
    BY CountIs DEF OpenTable, Rehashed
<1>2. /\ OpenTable(x, m) /\ NoTombs(x) /\ Reached(x, m) /\ Lone(x, m)
      /\ Cardinality(Occupied(x)) <= i - 1
      /\ OpenEntries(x) \subseteq Old(i - 1)
      /\ Lone(t, N) => OpenEntries(x) = Old(i - 1)
    BY <1>1 DEF Rehashed
<1>3. IsFiniteSet(Occupied(x)) /\ Cardinality(Occupied(x)) \in Nat
    BY <1>2, OccupiedFinite
<1>4. CASE t[i - 1].state # "occupied"
    <2>1. PutStep(t, i, x) = x
        BY <1>4 DEF PutStep
    <2>2. \A h \in Occupied(t) : h < i <=> h < i - 1
        BY <1>1, <1>4 DEF Occupied
    <2>3. {h \in Occupied(t) : h < i} = {h \in Occupied(t) : h < i - 1}
        BY <2>2
    <2>4. Old(i) = Old(i - 1)
        BY <2>3
    <2>5. Cardinality(Occupied(x)) <= i
        BY <1>2, <1>3
    <2>. QED  BY <1>1, <1>2, <2>1, <2>4, <2>5 DEF Rehashed
<1>5. CASE t[i - 1].state = "occupied"
    <2>1. PICK s : s = t[i - 1]
        OBVIOUS
    <2>2. PICK k : k = s.key
        OBVIOUS
    <2>3. s \in SlotSet /\ k \in Key /\ s.val \in Value /\ s.state = "occupied"
        BY <1>1, <1>5, <2>1, <2>2 DEF OpenTable
    <2>4. PICK p : p = open_probe(x, k, TRUE)
        OBVIOUS
    <2>5. PICK b : b = p.index
        OBVIOUS
    <2>6. PICK u : u = PutStep(t, i, x)
        OBVIOUS
    <2>7. u = [x EXCEPT ![b] = s]
        BY <1>5, <2>1, <2>2, <2>4, <2>5, <2>6 DEF PutStep
    <2>8. SomeEmpty(x)
        <3>1. Cardinality(Occupied(x)) < m
            BY <1>1, <1>2, <1>3
        <3>. QED  BY <1>2, <3>1, OccupiedFinite
    <2>9. Finds(x, m, k, p)
        BY <1>2, <2>3, <2>4, <2>8, ProbeFinds
    <2>10. b \in 0..(m - 1)
        BY <2>5, <2>9 DEF Finds
    <2>11. OpenTable(u, m) /\ Wrote(x, m, b, s, u)
        BY <1>2, <2>2, <2>3, <2>7, <2>10, WriteIs
    <2>12. Old(i) = Old(i - 1) \cup {<<k, s.val>>}
        <3>1. \A h \in Occupied(t) : h < i <=> h < i - 1 \/ h = i - 1
            BY <1>1 DEF Occupied
        <3>2. i - 1 \in Occupied(t)
            BY <1>1, <1>5 DEF Occupied
        <3>3. {h \in Occupied(t) : h < i} = {h \in Occupied(t) : h < i - 1} \cup {i - 1}
            BY <1>1, <3>1, <3>2
        <3>. QED  BY <2>1, <2>2, <3>3
    <2>13. CASE p.state = "occupied"
        <3>1. Holds(x, b, k)
            BY <2>5, <2>9, <2>13 DEF Finds
        <3>2. /\ Reached(u, m) /\ Lone(u, m) /\ Occupied(u) = Occupied(x)
              /\ OpenEntries(u) = {e \in OpenEntries(x) : e[1] # k} \cup {<<k, s.val>>}
              /\ NoTombs(x) => NoTombs(u)
            BY <1>2, <2>2, <2>3, <2>11, <3>1, WriteValue
        <3>3. OpenEntries(u) \subseteq Old(i)
            BY <1>2, <2>12, <3>2
        <3>4. ~Lone(t, N)
            <4>1. PICK e \in OpenEntries(x) : e[1] = k
                BY <1>2, <2>3, <2>10, <3>1, EntryHeld
            <4>2. PICK j \in Occupied(t) : j < i - 1 /\ e = <<t[j].key, t[j].val>>
                BY <1>2, <4>1
            <4>3. j \in 0..(N - 1) /\ Holds(t, j, k) /\ j # i - 1
                BY <1>1, <4>1, <4>2 DEF Occupied, Holds
            <4>4. Holds(t, i - 1, k)
                BY <1>5, <2>1, <2>2 DEF Holds
            <4>. QED  BY <1>1, <2>3, <4>3, <4>4 DEF Lone
        <3>5. Cardinality(Occupied(u)) <= i
            BY <1>2, <1>3, <3>2
        <3>6. Rehashed(t, m, i, u)
            BY <1>1, <1>2, <2>11, <3>2, <3>3, <3>4, <3>5 DEF Rehashed
        <3>. QED  BY <2>6, <3>6
    <2>14. CASE p.state = "empty"
        <3>1. /\ \A j \in 0..(m - 1) : ~Holds(x, j, k)
              /\ \E y \in 0..(m - 1) : b = At(k, y, m) /\ Busy(x, m, k, y)
              /\ x[b].state # "occupied"
            BY <2>5, <2>9, <2>14 DEF Finds
        <3>2. /\ Reached(u, m) /\ Lone(u, m)
              /\ b \notin Occupied(x) /\ Occupied(u) = Occupied(x) \cup {b}
              /\ OpenEntries(u) = OpenEntries(x) \cup {<<k, s.val>>}
              /\ NoTombs(x) => NoTombs(u)
            BY <1>2, <2>2, <2>3, <2>11, <3>1, WriteNew
        <3>3. OpenEntries(u) \subseteq Old(i) /\ (Lone(t, N) => OpenEntries(u) = Old(i))
            BY <1>2, <2>12, <3>2
        <3>4. Cardinality(Occupied(u)) = Cardinality(Occupied(x)) + 1
            BY <1>3, <3>2, FS_AddElement
        <3>5. Cardinality(Occupied(u)) <= i
            BY <1>2, <1>3, <3>4
        <3>6. Rehashed(t, m, i, u)
            BY <1>1, <1>2, <2>11, <3>2, <3>3, <3>5 DEF Rehashed
        <3>. QED  BY <2>6, <3>6
    <2>. QED  BY <2>9, <2>13, <2>14 DEF Finds
<1>. QED  BY <1>4, <1>5

LEMMA FreshOpen ==
    ASSUME open, NEW m \in Nat \ {0}, NEW x, x = fresh(m)
    PROVE  /\ OpenTable(x, m) /\ NoTombs(x) /\ Reached(x, m) /\ Lone(x, m) /\ SomeEmpty(x)
           /\ Occupied(x) = {} /\ OpenEntries(x) = {} /\ Cardinality(Occupied(x)) = 0
<1>1. x = [i \in 0..(m - 1) |-> EmptySlot]
    BY DEF fresh
<1>2. EmptySlot \in SlotSet /\ EmptySlot.state = "empty"
    BY DEF EmptySlot, SlotSet
<1>3. /\ x \in [0..(m - 1) -> SlotSet] /\ DOMAIN x = 0..(m - 1)
      /\ \A i \in 0..(m - 1) : x[i].state = "empty"
    BY <1>1, <1>2
<1>4. OpenTable(x, m) /\ NoTombs(x)
    BY <1>3 DEF OpenTable, NoTombs
<1>5. Occupied(x) = {}
    BY <1>3 DEF Occupied
<1>6. \A k \in Key : \A i \in 0..(m - 1) : ~Holds(x, i, k)
    BY <1>3 DEF Holds
<1>7. Lone(x, m) /\ Reached(x, m)
    BY <1>6, AtCovers DEF Lone, Reached
<1>8. SomeEmpty(x)
    BY <1>3 DEF SomeEmpty
<1>. QED  BY <1>4, <1>5, <1>7, <1>8, FS_EmptySet DEF OpenEntries

\* The new table after all the slots of the old one.
LEMMA OpenRehash ==
    ASSUME open, NEW t, NEW N, OpenTable(t, N), NEW m \in Nat, N < m
    PROVE  Rehashed(t, m, N, open_rehash(t, m))
<1>1. N \in Nat \ {0} /\ DOMAIN t = 0..(N - 1) /\ Count(t) = N /\ m \in Nat \ {0}
    BY CountIs DEF OpenTable
<1> DEFINE S == {x \in [0..(m - 1) -> SlotSet] : OpenTable(x, m)}
           Body(f) == [i \in 0..Count(t) |->
                         IF i = 0 THEN fresh(m)
                         ELSE IF t[i - 1].state # "occupied" THEN f[i - 1]
                         ELSE [f[i - 1] EXCEPT ![open_probe(f[i - 1], t[i - 1].key, TRUE).index] = t[i - 1]]]
           filled == CHOOSE f : f = Body(f)
<1>2. OpenTable(fresh(m), m) /\ fresh(m) \in S
    BY <1>1, FreshOpen DEF OpenTable
<1>3. \E f : f = Body(f)
    <2>1. PICK step : step = [i \in 1..N |-> [x \in S |-> PutStep(t, i, x)]]
        OBVIOUS
    <2>2. ASSUME NEW i \in 1..N, NEW x \in S PROVE step[i][x] = PutStep(t, i, x) /\ step[i][x] \in S
        <3>1. OpenTable(PutStep(t, i, x), m)
            BY PutStepTyped
        <3>. QED  BY <2>1, <3>1 DEF OpenTable
    <2>. HIDE DEF S
    <2>9. PICK c \in S : c = fresh(m)
        BY <1>2
    <2>10. N \in Nat /\ StepsIn(S, N, step)
        BY <1>1, <2>2 DEF StepsIn
    <2>11. PICK f : FollowsSteps(S, N, c, step, f)
        BY <2>10, StepsExist
    <2>3. f \in [0..N -> S] /\ f[0] = fresh(m) /\ \A i \in 1..N : f[i] = step[i][f[i - 1]]
        BY <2>9, <2>11 DEF FollowsSteps
    <2>4. ASSUME NEW i \in 1..N PROVE f[i] = PutStep(t, i, f[i - 1])
        <3>1. f[i - 1] \in S
            BY <1>1, <2>3
        <3>. QED  BY <2>2, <2>3, <3>1
    <2>5. \A i \in 0..N : f[i] = IF i = 0 THEN fresh(m) ELSE PutStep(t, i, f[i - 1])
        BY <1>1, <2>3, <2>4
    <2>6. DOMAIN f = 0..N
        BY <2>3
    <2>7. f = [i \in 0..N |-> IF i = 0 THEN fresh(m) ELSE PutStep(t, i, f[i - 1])]
        BY <2>3, <2>5, <2>6
    <2>8. f = Body(f)
        BY <1>1, <2>7 DEF PutStep
    <2>. QED  BY <2>8
<1>4. filled = Body(filled)
    BY <1>3, Zenon
<1>5. open_rehash(t, m) = filled[N]
    BY <1>1 DEF open_rehash
<1>6. \A i \in 0..N : filled[i] = IF i = 0 THEN fresh(m) ELSE PutStep(t, i, filled[i - 1])
    BY <1>1, <1>4, Zenon DEF PutStep
<1>. HIDE DEF filled
<1> DEFINE T == {i \in Nat : i <= N => Rehashed(t, m, i, filled[i])}
<1>7. 0 \in T
    <2>1. filled[0] = fresh(m)
        BY <1>1, <1>6
    <2>2. PICK x : x = filled[0]
        OBVIOUS
    <2>3. /\ OpenTable(x, m) /\ NoTombs(x) /\ Reached(x, m) /\ Lone(x, m)
          /\ OpenEntries(x) = {} /\ Cardinality(Occupied(x)) = 0
        BY <1>1, <2>1, <2>2, FreshOpen
    <2>4. {h \in Occupied(t) : h < 0} = {}
        BY <1>1 DEF Occupied
    <2>5. Rehashed(t, m, 0, x)
        BY <2>3, <2>4 DEF Rehashed
    <2>. QED  BY <2>2, <2>5
<1>8. ASSUME NEW j \in Nat, j \in T PROVE j + 1 \in T
    <2>1. SUFFICES ASSUME j + 1 <= N PROVE Rehashed(t, m, j + 1, filled[j + 1])
        OBVIOUS
    <2>2. PICK i \in 1..N : i = j + 1
        BY <1>1, <2>1
    <2>6. i - 1 = j /\ j <= N
        BY <1>1, <2>1, <2>2
    <2>7. Rehashed(t, m, j, filled[j])
        BY <1>8, <2>6
    <2>3. Rehashed(t, m, i - 1, filled[i - 1])
        BY <2>6, <2>7
    <2>4. filled[i] = PutStep(t, i, filled[i - 1])
        BY <1>1, <1>6, <2>2
    <2>5. Rehashed(t, m, i, filled[i])
        BY <2>3, <2>4, PutStepKeeps
    <2>. QED  BY <2>2, <2>5
<1>9. N \in T
    <2>. HIDE DEF T
    <2>. QED  BY <1>1, <1>7, <1>8, SetInduction
<1>. QED  BY <1>5, <1>9

\* A rehashed table can be trusted, and has kept the entries of one that could.
LEMMA OpenRehashMeans ==
    ASSUME open, NEW t, NEW N, OpenTable(t, N), NEW m \in Nat, N < m, NEW u, u = open_rehash(t, m)
    PROVE  /\ OpenTable(u, m) /\ NoTombs(u) /\ SomeEmpty(u)
           /\ Reached(u, m) /\ Lone(u, m)
           /\ Lone(t, N) => OpenEntries(u) = OpenEntries(t)
<1>1. N \in Nat \ {0} /\ DOMAIN t = 0..(N - 1) /\ Count(t) = N
    BY CountIs DEF OpenTable
<1>2. /\ OpenTable(u, m) /\ NoTombs(u) /\ Reached(u, m) /\ Lone(u, m)
      /\ Cardinality(Occupied(u)) <= N
      /\ Lone(t, N) => OpenEntries(u) = {<<t[j].key, t[j].val>> : j \in {h \in Occupied(t) : h < N}}
    BY <1>1, OpenRehash DEF Rehashed
<1>3. Cardinality(Occupied(u)) < m
    BY <1>1, <1>2, OccupiedFinite
<1>4. SomeEmpty(u)
    BY <1>2, <1>3, OccupiedFinite
<1>5. {h \in Occupied(t) : h < N} = Occupied(t)
    BY <1>1 DEF Occupied
<1>. QED  BY <1>2, <1>4, <1>5 DEF OpenEntries

(***************************************************************************)
(* Separate chaining: one chain is written                                 *)
(***************************************************************************)

Visited(c) == {c[j] : j \in DOMAIN c}
ChainEntries(t) == UNION {Visited(t[i]) : i \in DOMAIN t}

\* No key is twice in a chain.
Apart(c) == \A i, j \in DOMAIN c : c[i][1] = c[j][1] => i = j

\* A table of N chains; every entry is in the chain of its key.
ChainTable(t, N) ==
    /\ N \in Nat \ {0}
    /\ t \in [0..(N - 1) -> Seq(Key \X Value)]
    /\ \A b \in 0..(N - 1) : Apart(t[b]) /\ \A e \in Visited(t[b]) : hash(e[1]) % N = b

LEMMA HomeIs ==
    ASSUME NEW k \in Key, NEW N \in Nat \ {0}
    PROVE  hash(k) % N \in 0..(N - 1)
<1>1. hash(k) \in Int
    BY HashIs
<1>. QED  BY <1>1, ModDef

LEMMA VisitedTyped ==
    ASSUME NEW c \in Seq(Key \X Value), NEW e \in Visited(c)
    PROVE  e \in Key \X Value /\ e[1] \in Key /\ e[2] \in Value
<1>1. PICK j \in 1..Len(c) : e = c[j]
    BY DEF Visited
<1>2. e \in Key \X Value
    BY <1>1
<1>. QED  BY <1>2

\* The entries with a key are in the chain of that key.
LEMMA EntryHome ==
    ASSUME NEW t, NEW N, ChainTable(t, N), NEW k \in Key, NEW b, b = hash(k) % N
    PROVE  /\ b \in 0..(N - 1) /\ t[b] \in Seq(Key \X Value) /\ Apart(t[b]) /\ Count(t) = N
           /\ Visited(t[b]) \subseteq ChainEntries(t)
           /\ \A e \in ChainEntries(t) : e[1] = k => e \in Visited(t[b])
           /\ \A e \in ChainEntries(t) : e \in Key \X Value /\ e[1] \in Key
<1>1. N \in Nat \ {0} /\ t \in [0..(N - 1) -> Seq(Key \X Value)] /\ DOMAIN t = 0..(N - 1)
    BY DEF ChainTable
<1>2. b \in 0..(N - 1)
    BY <1>1, HomeIs
<1>3. t[b] \in Seq(Key \X Value) /\ Apart(t[b]) /\ Visited(t[b]) \subseteq ChainEntries(t)
    BY <1>1, <1>2 DEF ChainTable, ChainEntries
<1>4. Count(t) = N
    BY <1>1, CountIs
<1>5. ASSUME NEW e \in ChainEntries(t) PROVE e \in Key \X Value /\ e[1] \in Key /\ (e[1] = k => e \in Visited(t[b]))
    <2>1. PICK i \in 0..(N - 1) : e \in Visited(t[i])
        BY <1>1 DEF ChainEntries
    <2>2. hash(e[1]) % N = i
        BY <2>1 DEF ChainTable
    <2>3. t[i] \in Seq(Key \X Value)
        BY <1>1
    <2>4. e \in Key \X Value /\ e[1] \in Key
        BY <2>1, <2>3, VisitedTyped
    <2>. QED  BY <2>1, <2>2, <2>4
<1>. QED  BY <1>2, <1>3, <1>4, <1>5

\* One chain is replaced by another for the same bucket.
ChainFor(c, N, b) == c \in Seq(Key \X Value) /\ Apart(c) /\ \A e \in Visited(c) : hash(e[1]) % N = b
Rechained(t, N, b, c, u) ==
    ChainTable(u, N) /\ ChainEntries(u) = (ChainEntries(t) \ Visited(t[b])) \cup Visited(c)

LEMMA ChainWrite ==
    ASSUME NEW t, NEW N, ChainTable(t, N), NEW b \in 0..(N - 1), NEW c, ChainFor(c, N, b),
           NEW u, u = [t EXCEPT ![b] = c]
    PROVE  Rechained(t, N, b, c, u)
<1>0. c \in Seq(Key \X Value) /\ Apart(c) /\ \A e \in Visited(c) : hash(e[1]) % N = b
    BY DEF ChainFor
<1>1. N \in Nat \ {0} /\ t \in [0..(N - 1) -> Seq(Key \X Value)] /\ DOMAIN t = 0..(N - 1)
    BY DEF ChainTable
<1>2. /\ u \in [0..(N - 1) -> Seq(Key \X Value)] /\ DOMAIN u = 0..(N - 1)
      /\ u[b] = c /\ \A i \in 0..(N - 1) : i # b => u[i] = t[i]
    BY <1>0, <1>1
<1>3. ASSUME NEW i \in 0..(N - 1) PROVE Apart(u[i]) /\ \A e \in Visited(u[i]) : hash(e[1]) % N = i
    BY <1>0, <1>2 DEF ChainTable
<1>4. ChainTable(u, N)
    BY <1>1, <1>2, <1>3 DEF ChainTable
<1>5. ASSUME NEW i \in 0..(N - 1), i # b, NEW e \in Visited(t[i]) PROVE e \notin Visited(t[b])
    BY <1>5 DEF ChainTable
<1>6. \A e : e \in ChainEntries(u) <=> \E i \in 0..(N - 1) : e \in Visited(u[i])
    BY <1>2 DEF ChainEntries
<1>7. \A e : e \in ChainEntries(t) <=> \E i \in 0..(N - 1) : e \in Visited(t[i])
    BY <1>1 DEF ChainEntries
<1>8. ASSUME NEW e PROVE e \in ChainEntries(u) <=> e \in (ChainEntries(t) \ Visited(t[b])) \cup Visited(c)
    <2>1. ASSUME e \in ChainEntries(u) PROVE e \in (ChainEntries(t) \ Visited(t[b])) \cup Visited(c)
        <3>1. PICK i \in 0..(N - 1) : e \in Visited(u[i])
            BY <1>6, <2>1
        <3>. QED  BY <1>2, <1>5, <1>7, <3>1
    <2>2. ASSUME e \in Visited(c) PROVE e \in ChainEntries(u)
        BY <1>2, <1>6, <2>2
    <2>3. ASSUME e \in ChainEntries(t), e \notin Visited(t[b]) PROVE e \in ChainEntries(u)
        <3>1. PICK i \in 0..(N - 1) : e \in Visited(t[i])
            BY <1>7, <2>3
        <3>2. i # b
            BY <2>3, <3>1
        <3>. QED  BY <1>2, <1>6, <3>1, <3>2
    <2>. QED  BY <2>1, <2>2, <2>3
<1>9. ChainEntries(u) = (ChainEntries(t) \ Visited(t[b])) \cup Visited(c)
    BY <1>8
<1>. QED  BY <1>4, <1>9 DEF Rechained

\* A new entry at the front of a chain.
LEMMA FrontIs ==
    ASSUME NEW c \in Seq(Key \X Value), NEW e \in Key \X Value, Apart(c),
           \A d \in Visited(c) : d[1] # e[1], NEW w, w = <<e>> \o c
    PROVE  w \in Seq(Key \X Value) /\ Apart(w) /\ Visited(w) = Visited(c) \cup {e}
<1>1. w \in Seq(Key \X Value) /\ Len(w) = Len(c) + 1 /\ Len(c) \in Nat
    OBVIOUS
<1>2. w[1] = e /\ \A i \in 1..Len(c) : w[i + 1] = c[i]
    OBVIOUS
<1>3. DOMAIN w = 1..(Len(c) + 1) /\ DOMAIN c = 1..Len(c)
    BY <1>1
<1>4. \A i \in 1..(Len(c) + 1) : i # 1 => i - 1 \in 1..Len(c) /\ w[i] = c[i - 1]
    <2>1. SUFFICES ASSUME NEW i \in 1..(Len(c) + 1), i # 1 PROVE i - 1 \in 1..Len(c) /\ w[i] = c[i - 1]
        OBVIOUS
    <2>2. i - 1 \in 1..Len(c) /\ (i - 1) + 1 = i
        BY <1>1, <2>1
    <2>. QED  BY <1>2, <2>2
<1>5. Visited(w) = Visited(c) \cup {e}
    <2>1. ASSUME NEW d \in Visited(w) PROVE d \in Visited(c) \cup {e}
        BY <1>2, <1>3, <1>4 DEF Visited
    <2>2. e \in Visited(w)
        BY <1>1, <1>2, <1>3 DEF Visited
    <2>3. ASSUME NEW d \in Visited(c) PROVE d \in Visited(w)
        <3>1. PICK i \in 1..Len(c) : d = c[i]
            BY <1>3 DEF Visited
        <3>2. i + 1 \in 1..(Len(c) + 1) /\ d = w[i + 1]
            BY <1>1, <1>2, <3>1
        <3>. QED  BY <1>3, <3>2 DEF Visited
    <2>. QED  BY <2>1, <2>2, <2>3
<1>6. Apart(w)
    <2>1. SUFFICES ASSUME NEW i \in 1..(Len(c) + 1), NEW j \in 1..(Len(c) + 1), w[i][1] = w[j][1]
                   PROVE  i = j
        BY <1>3 DEF Apart
    <2>2. CASE i = 1 \/ j = 1
        <3>1. \A x \in 1..Len(c) : c[x][1] # e[1]
            BY <1>3 DEF Visited
        <3>. QED  BY <1>2, <1>4, <2>1, <2>2, <3>1
    <2>3. CASE i # 1 /\ j # 1
        <3>1. i - 1 \in 1..Len(c) /\ j - 1 \in 1..Len(c) /\ c[i - 1][1] = c[j - 1][1]
            BY <1>4, <2>1, <2>3
        <3>2. i - 1 = j - 1
            BY <1>3, <3>1 DEF Apart
        <3>. QED  BY <3>2
    <2>. QED  BY <2>2, <2>3
<1>. QED  BY <1>1, <1>5, <1>6

\* The value of a key is replaced.
Revalued(c, k, v, w) ==
    w \in Seq(Key \X Value) /\ Apart(w) /\ Visited(w) = {d \in Visited(c) : d[1] # k} \cup {<<k, v>>}

LEMMA OverIs ==
    ASSUME NEW c \in Seq(Key \X Value), Apart(c), NEW k \in Key, NEW v \in Value, NEW j \in DOMAIN c, c[j][1] = k,
           NEW w, w = [c EXCEPT ![j] = <<k, v>>]
    PROVE  Revalued(c, k, v, w)
<1>1. w \in Seq(Key \X Value) /\ DOMAIN w = DOMAIN c
    OBVIOUS
<1>2. w[j] = <<k, v>> /\ \A i \in DOMAIN c : i # j => w[i] = c[i]
    OBVIOUS
<1>3. \A i \in DOMAIN c : w[i][1] = c[i][1]
    BY <1>2
<1>4. Apart(w)
    BY <1>1, <1>3 DEF Apart
<1>5. \A i \in DOMAIN c : c[i][1] = k => i = j
    BY DEF Apart
<1>6. Visited(w) = {d \in Visited(c) : d[1] # k} \cup {<<k, v>>}
    <2>1. ASSUME NEW d \in Visited(w) PROVE d \in {x \in Visited(c) : x[1] # k} \cup {<<k, v>>}
        <3>1. PICK i \in DOMAIN c : d = w[i]
            BY <1>1 DEF Visited
        <3>2. CASE i = j
            BY <1>2, <3>1, <3>2
        <3>3. CASE i # j
            BY <1>2, <1>5, <3>1, <3>3 DEF Visited
        <3>. QED  BY <3>2, <3>3
    <2>2. <<k, v>> \in Visited(w)
        BY <1>1, <1>2 DEF Visited
    <2>3. ASSUME NEW d \in Visited(c), d[1] # k PROVE d \in Visited(w)
        <3>1. PICK i \in DOMAIN c : d = c[i]
            BY DEF Visited
        <3>2. i # j
            BY <2>3, <3>1
        <3>. QED  BY <1>1, <1>2, <3>1, <3>2 DEF Visited
    <2>. QED  BY <2>1, <2>2, <2>3
<1>. QED  BY <1>1, <1>4, <1>6 DEF Revalued

\* An entry is unlinked.
LEMMA UnlinkedIs ==
    ASSUME NEW c \in Seq(Key \X Value), Apart(c), NEW j \in DOMAIN c, NEW w, w = Unlinked(c, j)
    PROVE  w \in Seq(Key \X Value) /\ Apart(w) /\ Visited(w) = {d \in Visited(c) : d[1] # c[j][1]}
<1>1. Len(c) \in Nat /\ DOMAIN c = 1..Len(c) /\ j \in 1..Len(c)
    OBVIOUS
<1>2. PICK a : a = SubSeq(c, 1, j - 1)
    OBVIOUS
<1>3. a \in Seq(Key \X Value) /\ Len(a) = j - 1 /\ \A i \in 1..(j - 1) : a[i] = c[i]
    BY <1>1, <1>2
<1>4. PICK z : z = SubSeq(c, j + 1, Len(c))
    OBVIOUS
<1>5. z \in Seq(Key \X Value) /\ Len(z) = Len(c) - j /\ \A i \in 1..(Len(c) - j) : z[i] = c[j + i]
    BY <1>1, <1>4
<1>6. w = a \o z
    BY <1>2, <1>4 DEF Unlinked
<1>7. w \in Seq(Key \X Value) /\ Len(w) = Len(c) - 1 /\ DOMAIN w = 1..(Len(c) - 1)
    <2>1. PICK E : E = Key \X Value
        OBVIOUS
    <2>2. a \in Seq(E) /\ z \in Seq(E)
        BY <1>3, <1>5, <2>1
    <2>3. a \o z \in Seq(E) /\ Len(a \o z) = Len(a) + Len(z)
        BY <2>2
    <2>4. w \in Seq(E) /\ Len(w) = Len(c) - 1
        BY <1>1, <1>3, <1>5, <1>6, <2>3
    <2>. QED  BY <1>1, <2>1, <2>4
<1>8. ASSUME NEW i \in 1..(Len(c) - 1) PROVE w[i] = IF i < j THEN c[i] ELSE c[i + 1]
    <2>1. CASE i < j
        BY <1>1, <1>3, <1>5, <1>6, <2>1
    <2>2. CASE ~(i < j)
        <3>1. w[i] = z[i - (j - 1)] /\ i - (j - 1) \in 1..(Len(c) - j)
            BY <1>1, <1>3, <1>5, <1>6, <2>2
        <3>2. j + (i - (j - 1)) = i + 1
            BY <1>1
        <3>. QED  BY <1>5, <2>2, <3>1, <3>2
    <2>. QED  BY <2>1, <2>2
<1>9. Apart(w)
    <2>1. SUFFICES ASSUME NEW x \in 1..(Len(c) - 1), NEW y \in 1..(Len(c) - 1), w[x][1] = w[y][1]
                   PROVE  x = y
        BY <1>7 DEF Apart
    <2>2. PICK p \in 1..Len(c) : w[x] = c[p] /\ p = IF x < j THEN x ELSE x + 1
        BY <1>1, <1>8
    <2>3. PICK q \in 1..Len(c) : w[y] = c[q] /\ q = IF y < j THEN y ELSE y + 1
        BY <1>1, <1>8
    <2>4. p = q
        BY <1>1, <2>1, <2>2, <2>3 DEF Apart
    <2>. QED  BY <1>1, <2>2, <2>3, <2>4
<1>10. ASSUME NEW d \in Visited(w) PROVE d \in Visited(c) /\ d[1] # c[j][1]
    <2>1. PICK x \in 1..(Len(c) - 1) : d = w[x]
        BY <1>7 DEF Visited
    <2>2. PICK p \in 1..Len(c) : w[x] = c[p] /\ p = IF x < j THEN x ELSE x + 1
        BY <1>1, <1>8
    <2>3. p # j
        BY <1>1, <2>2
    <2>. QED  BY <1>1, <2>1, <2>2, <2>3 DEF Visited, Apart
<1>11. ASSUME NEW d \in Visited(c), d[1] # c[j][1] PROVE d \in Visited(w)
    <2>1. PICK p \in 1..Len(c) : d = c[p]
        BY <1>1 DEF Visited
    <2>2. p # j
        BY <1>11, <2>1
    <2>3. CASE p < j
        <3>1. p \in 1..(Len(c) - 1)
            BY <1>1, <2>3
        <3>. QED  BY <1>7, <1>8, <2>1, <2>3, <3>1 DEF Visited
    <2>4. CASE p > j
        <3>1. p - 1 \in 1..(Len(c) - 1) /\ ~(p - 1 < j) /\ (p - 1) + 1 = p
            BY <1>1, <2>4
        <3>2. w[p - 1] = c[p]
            BY <1>8, <3>1
        <3>. QED  BY <1>7, <2>1, <3>1, <3>2 DEF Visited
    <2>. QED  BY <1>1, <2>2, <2>3, <2>4
<1>12. Visited(w) = {d \in Visited(c) : d[1] # c[j][1]}
    BY <1>10, <1>11
<1>. QED  BY <1>7, <1>9, <1>12

(***************************************************************************)
(* Separate chaining: the calls                                            *)
(***************************************************************************)

ChainState(t, N, n) ==
    ChainTable(t, N) /\ IsFiniteSet(ChainEntries(t)) /\ n = Cardinality(ChainEntries(t))

\* Every key has one entry.
LEMMA ChainUnique ==
    ASSUME NEW t, NEW N, ChainTable(t, N), NEW d \in ChainEntries(t), NEW e \in ChainEntries(t), d[1] = e[1]
    PROVE  d = e
<1>1. PICK k : k = d[1]
    OBVIOUS
<1>2. N \in Nat \ {0} /\ DOMAIN t = 0..(N - 1)
    BY DEF ChainTable
<1>3. PICK i \in 0..(N - 1) : d \in Visited(t[i])
    BY <1>2 DEF ChainEntries
<1>4. PICK j \in 0..(N - 1) : e \in Visited(t[j])
    BY <1>2 DEF ChainEntries
<1>5. i = j
    BY <1>3, <1>4 DEF ChainTable
<1>. QED  BY <1>3, <1>4, <1>5 DEF ChainTable, Apart, Visited

\* Where chain_find finds a key.
LEMMA FindIs ==
    ASSUME NEW t, NEW N, ChainTable(t, N), NEW k \in Key, NEW b, b = hash(k) % N
    PROVE  /\ chain_find(t, k) = {j \in DOMAIN t[b] : t[b][j][1] = k}
           /\ chain_find(t, k) # {} <=> \E e \in ChainEntries(t) : e[1] = k
           /\ chain_find(t, k) # {} => Least(chain_find(t, k)) \in DOMAIN t[b] /\ t[b][Least(chain_find(t, k))][1] = k
<1>1. /\ b \in 0..(N - 1) /\ t[b] \in Seq(Key \X Value) /\ Count(t) = N
      /\ Visited(t[b]) \subseteq ChainEntries(t)
      /\ \A e \in ChainEntries(t) : e[1] = k => e \in Visited(t[b])
    BY EntryHome
<1>2. PICK H : H = chain_find(t, k)
    OBVIOUS
<1>3. H = {j \in DOMAIN t[b] : t[b][j][1] = k}
    BY <1>1, <1>2 DEF chain_find
<1>4. H # {} <=> \E e \in ChainEntries(t) : e[1] = k
    BY <1>1, <1>3 DEF Visited
<1>5. H \subseteq Nat
    BY <1>1, <1>3
<1>6. H # {} => Least(H) \in H
    BY <1>5, LeastIs
<1>. QED  BY <1>2, <1>3, <1>4, <1>6

\* What chain_put does to the table and the count.
ChainedPut(t, N, n, k, v, r) ==
    /\ ChainTable(r.table, N) /\ r.scar = FALSE
    /\ ChainEntries(r.table) = IF r.st = "ok" /\ ~r.ignored
                               THEN {e \in ChainEntries(t) : e[1] # k} \cup {<<k, v>>}
                               ELSE ChainEntries(t)
    /\ r.size = IF r.st = "ok" /\ ~r.ignored /\ ~ \E e \in ChainEntries(t) : e[1] = k THEN n + 1 ELSE n

LEMMA ChainPutMeans ==
    ASSUME NEW t, NEW N, ChainTable(t, N), NEW n, NEW k \in Key, NEW v \in Value,
           NEW r \in chain_put(t, n, k, v)
    PROVE  ChainedPut(t, N, n, k, v, r)
<1>1. PICK b : b = hash(k) % N
    OBVIOUS
<1>2. /\ b \in 0..(N - 1) /\ t[b] \in Seq(Key \X Value) /\ Apart(t[b]) /\ Count(t) = N
      /\ Visited(t[b]) \subseteq ChainEntries(t)
      /\ \A e \in ChainEntries(t) : e[1] = k => e \in Visited(t[b])
    BY <1>1, EntryHome
<1>3. PICK H : H = chain_find(t, k)
    OBVIOUS
<1>4. /\ H # {} <=> \E e \in ChainEntries(t) : e[1] = k
      /\ H # {} => Least(H) \in DOMAIN t[b] /\ t[b][Least(H)][1] = k
    BY <1>1, <1>3, FindIs
<1>5. t \in [0..(N - 1) -> Seq(Key \X Value)] /\ \A e \in Visited(t[b]) : hash(e[1]) % N = b
    BY <1>2 DEF ChainTable
<1>6. CASE H # {}
    <2>1. PICK j : j = Least(H)
        OBVIOUS
    <2>2. r \in {Result("ok", [t EXCEPT ![b][j] = <<k, v>>], n), Ignored(t, n)}
        BY <1>1, <1>2, <1>3, <1>6, <2>1 DEF chain_put
    <2>3. CASE r = Ignored(t, n)
        BY <2>3 DEF Ignored, Result, ChainedPut
    <2>4. CASE r = Result("ok", [t EXCEPT ![b][j] = <<k, v>>], n)
        <3>1. PICK w : w = [t[b] EXCEPT ![j] = <<k, v>>]
            OBVIOUS
        <3>2. PICK u : u = [t EXCEPT ![b] = w]
            OBVIOUS
        <3>3. r = Result("ok", u, n)
            BY <1>2, <1>5, <2>4, <3>1, <3>2
        <3>4. r.table = u /\ r.st = "ok" /\ r.ignored = FALSE /\ r.scar = FALSE /\ r.size = n
            BY <3>3 DEF Result
        <3>5. PICK c \in Seq(Key \X Value) : c = t[b]
            BY <1>2
        <3>10. Apart(c) /\ j \in DOMAIN c /\ c[j][1] = k /\ w = [c EXCEPT ![j] = <<k, v>>]
            BY <1>2, <1>4, <1>6, <2>1, <3>1, <3>5
        <3>6. w \in Seq(Key \X Value) /\ Apart(w) /\ Visited(w) = {d \in Visited(c) : d[1] # k} \cup {<<k, v>>}
            <4>1. Revalued(c, k, v, w)
                BY <3>10, OverIs
            <4>. QED  BY <4>1 DEF Revalued
        <3>7. ChainFor(w, N, b)
            BY <1>1, <1>5, <3>5, <3>6 DEF ChainFor
        <3>11. Rechained(t, N, b, w, u)
            BY <1>2, <3>2, <3>7, ChainWrite
        <3>8. ChainTable(u, N) /\ ChainEntries(u) = (ChainEntries(t) \ Visited(c)) \cup Visited(w)
            BY <3>5, <3>11 DEF Rechained
        <3>9. ChainEntries(u) = {e \in ChainEntries(t) : e[1] # k} \cup {<<k, v>>}
            BY <1>2, <3>5, <3>6, <3>8
        <3>. QED  BY <1>4, <1>6, <3>4, <3>8, <3>9 DEF ChainedPut
    <2>. QED  BY <2>2, <2>3, <2>4
<1>7. CASE H = {}
    <2>0. PICK e : e = <<k, v>>
        OBVIOUS
    <2>1. e = <<k, v>> /\ e \in Key \X Value /\ e[1] = k
        BY <2>0
    <2>2. PICK w : w = <<e>> \o t[b]
        OBVIOUS
    <2>3. PICK u : u = [t EXCEPT ![b] = w]
        OBVIOUS
    <2>4. \/ r = Result("ok", u, n + 1)
          \/ r = Result("oom", t, n)
          \/ r = Result("copy", t, n)
        BY <1>1, <1>2, <1>3, <1>7, <2>1, <2>2, <2>3 DEF chain_put
    <2>5. CASE r = Result("oom", t, n)
        BY <2>5 DEF Result, ChainedPut
    <2>6. CASE r = Result("copy", t, n)
        BY <2>6 DEF Result, ChainedPut
    <2>7. CASE r = Result("ok", u, n + 1)
        <3>1. r.table = u /\ r.st = "ok" /\ r.ignored = FALSE /\ r.scar = FALSE /\ r.size = n + 1
            BY <2>7 DEF Result
        <3>2. \A d \in Visited(t[b]) : d[1] # e[1]
            BY <1>2, <1>4, <1>7, <2>1
        <3>3. w \in Seq(Key \X Value) /\ Apart(w) /\ Visited(w) = Visited(t[b]) \cup {e}
            BY <1>2, <2>1, <2>2, <3>2, FrontIs
        <3>4. ChainFor(w, N, b)
            BY <1>1, <1>5, <2>1, <3>3 DEF ChainFor
        <3>5. ChainTable(u, N) /\ ChainEntries(u) = (ChainEntries(t) \ Visited(t[b])) \cup Visited(w)
            <4>1. Rechained(t, N, b, w, u)
                BY <1>2, <2>3, <3>4, ChainWrite
            <4>. QED  BY <4>1 DEF Rechained
        <3>6. ChainEntries(u) = {d \in ChainEntries(t) : d[1] # k} \cup {<<k, v>>}
            BY <1>2, <1>4, <1>7, <2>1, <3>3, <3>5
        <3>. QED  BY <1>4, <1>7, <3>1, <3>5, <3>6 DEF ChainedPut
    <2>. QED  BY <2>4, <2>5, <2>6, <2>7
<1>. QED  BY <1>6, <1>7

\* chain_put keeps the count.
LEMMA ChainPut ==
    ASSUME NEW t, NEW N, NEW n, ChainState(t, N, n), NEW k \in Key, NEW v \in Value,
           NEW r \in chain_put(t, n, k, v)
    PROVE  r.scar = FALSE /\ ChainState(r.table, N, r.size)
<1>1. ChainTable(t, N) /\ IsFiniteSet(ChainEntries(t)) /\ n = Cardinality(ChainEntries(t)) /\ n \in Nat
    BY FS_CardinalityType DEF ChainState
<1>2. /\ ChainTable(r.table, N) /\ r.scar = FALSE
      /\ ChainEntries(r.table) = IF r.st = "ok" /\ ~r.ignored
                                 THEN {e \in ChainEntries(t) : e[1] # k} \cup {<<k, v>>}
                                 ELSE ChainEntries(t)
      /\ r.size = IF r.st = "ok" /\ ~r.ignored /\ ~ \E e \in ChainEntries(t) : e[1] = k THEN n + 1 ELSE n
    <2>1. ChainedPut(t, N, n, k, v, r)
        BY <1>1, ChainPutMeans
    <2>. QED  BY <2>1 DEF ChainedPut
<1>3. CASE ~(r.st = "ok" /\ ~r.ignored)
    <2>1. ChainEntries(r.table) = ChainEntries(t) /\ r.size = n
        BY <1>2, <1>3
    <2>. QED  BY <1>1, <1>2, <2>1 DEF ChainState
<1>4. CASE (r.st = "ok" /\ ~r.ignored) /\ \E e \in ChainEntries(t) : e[1] = k
    <2>1. PICK e \in ChainEntries(t) : e[1] = k
        BY <1>4
    <2>2. {d \in ChainEntries(t) : d[1] # k} = ChainEntries(t) \ {e}
        BY <1>1, <2>1, ChainUnique
    <2>3. PICK X : X = ChainEntries(t) \ {e}
        OBVIOUS
    <2>4. IsFiniteSet(X) /\ Cardinality(X) = n - 1
        BY <1>1, <2>1, <2>3, FS_RemoveElement
    <2>5. <<k, v>> \notin X
        BY <2>2, <2>3
    <2>6. IsFiniteSet(X \cup {<<k, v>>}) /\ Cardinality(X \cup {<<k, v>>}) = (n - 1) + 1
        BY <2>4, <2>5, FS_AddElement
    <2>7. ChainEntries(r.table) = X \cup {<<k, v>>} /\ r.size = n
        BY <1>2, <1>4, <2>2, <2>3
    <2>8. IsFiniteSet(ChainEntries(r.table)) /\ Cardinality(ChainEntries(r.table)) = n
        BY <1>1, <2>6, <2>7
    <2>. QED  BY <1>2, <2>7, <2>8 DEF ChainState
<1>5. CASE (r.st = "ok" /\ ~r.ignored) /\ ~ \E e \in ChainEntries(t) : e[1] = k
    <2>1. {d \in ChainEntries(t) : d[1] # k} = ChainEntries(t) /\ <<k, v>> \notin ChainEntries(t)
        BY <1>5
    <2>2. ChainEntries(r.table) = ChainEntries(t) \cup {<<k, v>>} /\ r.size = n + 1
        BY <1>2, <1>5, <2>1
    <2>3. IsFiniteSet(ChainEntries(r.table)) /\ Cardinality(ChainEntries(r.table)) = n + 1
        BY <1>1, <2>1, <2>2, FS_AddElement
    <2>. QED  BY <1>2, <2>2, <2>3 DEF ChainState
<1>. QED  BY <1>3, <1>4, <1>5

LEMMA ChainRemoveMeans ==
    ASSUME NEW t, NEW N, NEW n, ChainState(t, N, n), NEW k \in Key, NEW r \in chain_remove(t, n, k)
    PROVE  /\ ChainState(r.table, N, r.size)
           /\ r.st = IF \E e \in ChainEntries(t) : e[1] = k THEN "ok" ELSE "not_found"
           /\ ChainEntries(r.table) = {e \in ChainEntries(t) : e[1] # k}
<1>0. ChainTable(t, N) /\ IsFiniteSet(ChainEntries(t)) /\ n = Cardinality(ChainEntries(t)) /\ n \in Nat
    BY FS_CardinalityType DEF ChainState
<1>1. PICK b : b = hash(k) % N
    OBVIOUS
<1>2. /\ b \in 0..(N - 1) /\ t[b] \in Seq(Key \X Value) /\ Apart(t[b]) /\ Count(t) = N
      /\ Visited(t[b]) \subseteq ChainEntries(t)
      /\ \A e \in ChainEntries(t) : e[1] = k => e \in Visited(t[b])
    BY <1>0, <1>1, EntryHome
<1>3. PICK H : H = chain_find(t, k)
    OBVIOUS
<1>4. /\ H # {} <=> \E e \in ChainEntries(t) : e[1] = k
      /\ H # {} => Least(H) \in DOMAIN t[b] /\ t[b][Least(H)][1] = k
    BY <1>0, <1>1, <1>3, FindIs
<1>5. t \in [0..(N - 1) -> Seq(Key \X Value)] /\ \A e \in Visited(t[b]) : hash(e[1]) % N = b
    BY <1>0, <1>2 DEF ChainTable
<1>6. CASE H = {}
    <2>1. r = Result("not_found", t, n)
        BY <1>3, <1>6 DEF chain_remove
    <2>2. r.table = t /\ r.size = n /\ r.st = "not_found"
        BY <2>1 DEF Result
    <2>. QED  BY <1>4, <1>6, <2>2
<1>7. CASE H # {}
    <2>1. PICK j : j = Least(H) /\ j \in DOMAIN t[b] /\ t[b][j][1] = k
        BY <1>4, <1>7
    <2>2. PICK w : w = Unlinked(t[b], j)
        OBVIOUS
    <2>3. PICK u : u = [t EXCEPT ![b] = w]
        OBVIOUS
    <2>4. r = Result("ok", u, n - 1)
        BY <1>1, <1>2, <1>3, <1>5, <1>7, <2>1, <2>2, <2>3 DEF chain_remove
    <2>5. r.table = u /\ r.st = "ok" /\ r.size = n - 1
        BY <2>4 DEF Result
    <2>6. w \in Seq(Key \X Value) /\ Apart(w) /\ Visited(w) = {d \in Visited(t[b]) : d[1] # k}
        BY <1>2, <2>1, <2>2, UnlinkedIs
    <2>7. ChainFor(w, N, b)
        BY <1>5, <2>6 DEF ChainFor
    <2>8. ChainTable(u, N) /\ ChainEntries(u) = (ChainEntries(t) \ Visited(t[b])) \cup Visited(w)
        <3>1. Rechained(t, N, b, w, u)
            BY <1>0, <1>2, <2>3, <2>7, ChainWrite
        <3>. QED  BY <3>1 DEF Rechained
    <2>9. ChainEntries(u) = {e \in ChainEntries(t) : e[1] # k}
        BY <1>2, <2>6, <2>8
    <2>10. PICK e \in ChainEntries(t) : e[1] = k
        BY <1>4, <1>7
    <2>11. ChainEntries(u) = ChainEntries(t) \ {e}
        BY <1>0, <2>9, <2>10, ChainUnique
    <2>12. IsFiniteSet(ChainEntries(u)) /\ Cardinality(ChainEntries(u)) = n - 1
        BY <1>0, <2>10, <2>11, FS_RemoveElement
    <2>. QED  BY <2>5, <2>8, <2>9, <2>10, <2>12 DEF ChainState
<1>. QED  BY <1>6, <1>7

LEMMA ChainGetMeans ==
    ASSUME NEW t, NEW N, ChainTable(t, N), NEW n, NEW k \in Key, NEW r \in chain_get(t, n, k)
    PROVE  IF \E e \in ChainEntries(t) : e[1] = k
           THEN r.st = "ok" /\ <<k, r.val>> \in ChainEntries(t) ELSE r.st = "not_found"
<1>1. PICK b : b = hash(k) % N
    OBVIOUS
<1>2. /\ b \in 0..(N - 1) /\ t[b] \in Seq(Key \X Value) /\ Count(t) = N
      /\ Visited(t[b]) \subseteq ChainEntries(t)
      /\ \A e \in ChainEntries(t) : e \in Key \X Value
    BY <1>1, EntryHome
<1>3. /\ chain_find(t, k) = {j \in DOMAIN t[b] : t[b][j][1] = k}
      /\ chain_find(t, k) # {} <=> \E e \in ChainEntries(t) : e[1] = k
    BY <1>1, FindIs
<1>4. CASE chain_find(t, k) = {}
    <2>1. r = Result("not_found", t, n)
        BY <1>4 DEF chain_get
    <2>2. r.st = "not_found"
        BY <2>1 DEF Result
    <2>. QED  BY <1>3, <1>4, <2>2
<1>5. CASE chain_find(t, k) # {}
    <2>1. PICK j \in chain_find(t, k) : r = Found(t[b][j][2], t, n)
        BY <1>1, <1>2, <1>5 DEF chain_get
    <2>2. r.st = "ok" /\ r.val = t[b][j][2]
        BY <2>1 DEF Found, Result
    <2>3. PICK e : e = t[b][j]
        OBVIOUS
    <2>4. e \in ChainEntries(t) /\ e[1] = k /\ r.val = e[2] /\ e \in Key \X Value
        BY <1>2, <1>3, <2>1, <2>2, <2>3 DEF Visited
    <2>5. e = <<k, r.val>>
        BY <2>4
    <2>. QED  BY <1>3, <1>5, <2>2, <2>4, <2>5
<1>. QED  BY <1>4, <1>5

(***************************************************************************)
(* Separate chaining: rehashing                                            *)
(***************************************************************************)

\* A node is moved to the front of its new chain.
LinkStep(c, m, j, x) ==
    [b \in DOMAIN x |-> (IF b = hash(c[j][1]) % m THEN <<c[j]>> ELSE <<>>) \o x[b]]

Linked(x, m, e, y) == ChainTable(y, m) /\ ChainEntries(y) = ChainEntries(x) \cup {e}

LEMMA LinkStepKeeps ==
    ASSUME NEW c \in Seq(Key \X Value), NEW m, NEW j \in DOMAIN c, NEW x, ChainTable(x, m),
           \A d \in ChainEntries(x) : d[1] # c[j][1]
    PROVE  Linked(x, m, c[j], LinkStep(c, m, j, x))
<1>1. m \in Nat \ {0} /\ x \in [0..(m - 1) -> Seq(Key \X Value)] /\ DOMAIN x = 0..(m - 1)
    BY DEF ChainTable
<1>2. PICK e \in Key \X Value : e = c[j] /\ e[1] \in Key
    OBVIOUS
<1>3. PICK k \in Key : k = e[1]
    BY <1>2
<1>4. PICK b : b = hash(k) % m
    OBVIOUS
<1>5. /\ b \in 0..(m - 1) /\ x[b] \in Seq(Key \X Value) /\ Apart(x[b])
      /\ Visited(x[b]) \subseteq ChainEntries(x)
    BY <1>4, EntryHome
<1>6. PICK w : w = <<e>> \o x[b]
    OBVIOUS
<1>7. PICK u : u = [x EXCEPT ![b] = w]
    OBVIOUS
<1>8. u = LinkStep(c, m, j, x)
    <2>1. ASSUME NEW a \in 0..(m - 1)
          PROVE  u[a] = (IF a = hash(c[j][1]) % m THEN <<c[j]>> ELSE <<>>) \o x[a]
        <3>1. CASE a = b
            BY <1>1, <1>2, <1>3, <1>4, <1>6, <1>7, <3>1
        <3>2. CASE a # b
            <4>1. u[a] = x[a] /\ x[a] \in Seq(Key \X Value)
                BY <1>1, <1>7, <3>2
            <4>2. <<>> \o x[a] = x[a]
                BY <4>1
            <4>. QED  BY <1>2, <1>3, <1>4, <3>2, <4>1, <4>2
        <3>. QED  BY <3>1, <3>2
    <2>2. DOMAIN u = 0..(m - 1) /\ u = [a \in 0..(m - 1) |-> u[a]]
        BY <1>1, <1>7
    <2>. QED  BY <1>1, <2>1, <2>2 DEF LinkStep
<1>9. \A d \in Visited(x[b]) : d[1] # e[1]
    BY <1>2, <1>5
<1>10. w \in Seq(Key \X Value) /\ Apart(w) /\ Visited(w) = Visited(x[b]) \cup {e}
    BY <1>5, <1>6, <1>9, FrontIs
<1>11. ChainFor(w, m, b)
    <2>1. \A d \in Visited(x[b]) : hash(d[1]) % m = b
        BY <1>5 DEF ChainTable
    <2>. QED  BY <1>3, <1>4, <1>10, <2>1 DEF ChainFor
<1>12. Rechained(x, m, b, w, u)
    BY <1>5, <1>7, <1>11, ChainWrite
<1>13. ChainTable(u, m) /\ ChainEntries(u) = (ChainEntries(x) \ Visited(x[b])) \cup Visited(w)
    BY <1>12 DEF Rechained
<1>14. ChainEntries(u) = ChainEntries(x) \cup {e}
    BY <1>5, <1>10, <1>13
<1>. QED  BY <1>2, <1>8, <1>13, <1>14 DEF Linked

\* All tables of m chains, and the tables that Relinked goes through.
ChainTables(m) == [0..(m - 1) -> Seq(Key \X Value)]
LinksUp(u, c, m, g) ==
    /\ g \in [0..Len(c) -> ChainTables(m)]
    /\ g[0] = u /\ \A j \in 1..Len(c) : g[j] = LinkStep(c, m, j, g[j - 1])
    /\ Relinked(u, c, m) = g[Len(c)]

LEMMA RelinkedBy ==
    ASSUME NEW c \in Seq(Key \X Value), NEW m, NEW u \in ChainTables(m)
    PROVE  \E g : LinksUp(u, c, m, g)
<1>0. PICK N : N = Len(c)
    OBVIOUS
<1> DEFINE U == ChainTables(m)
           Body(f) == [j \in 0..N |->
                         IF j = 0 THEN u
                         ELSE [b \in DOMAIN u |->
                                 (IF b = hash(c[j][1]) % m THEN <<c[j]>> ELSE <<>>) \o f[j - 1][b]]]
           moved == CHOOSE f : f = Body(f)
<1>1. N \in Nat /\ DOMAIN c = 1..N /\ u \in U /\ DOMAIN u = 0..(m - 1)
    BY <1>0 DEF ChainTables
<1>2. ASSUME NEW j \in 1..N, NEW x \in U PROVE LinkStep(c, m, j, x) \in U
    <2>1. c[j] \in Key \X Value
        BY <1>1
    <2>2. ASSUME NEW b \in 0..(m - 1)
          PROVE (IF b = hash(c[j][1]) % m THEN <<c[j]>> ELSE <<>>) \o x[b] \in Seq(Key \X Value)
        <3>1. PICK E : E = Key \X Value
            OBVIOUS
        <3>2. x[b] \in Seq(E) /\ c[j] \in E
            BY <2>1, <3>1 DEF ChainTables
        <3>3. <<c[j]>> \o x[b] \in Seq(E) /\ <<>> \o x[b] \in Seq(E)
            BY <3>2
        <3>. QED  BY <3>1, <3>3
    <2>. QED  BY <2>2 DEF LinkStep, ChainTables
<1>3. \E f : f = Body(f)
    <2>1. PICK step : step = [j \in 1..N |-> [x \in U |-> LinkStep(c, m, j, x)]]
        OBVIOUS
    <2>2. ASSUME NEW j \in 1..N, NEW x \in U PROVE step[j][x] = LinkStep(c, m, j, x) /\ step[j][x] \in U
        BY <1>2, <2>1
    <2>3. DOMAIN u = 0..(m - 1) /\ \A x \in U : DOMAIN x = 0..(m - 1)
        BY <1>1 DEF ChainTables
    <2>. HIDE DEF U
    <2>4. N \in Nat /\ StepsIn(U, N, step) /\ u \in U
        BY <1>1, <2>2 DEF StepsIn
    <2>5. PICK f : FollowsSteps(U, N, u, step, f)
        BY <2>4, StepsExist
    <2>6. f \in [0..N -> U] /\ f[0] = u /\ \A j \in 1..N : f[j] = step[j][f[j - 1]]
        BY <2>5 DEF FollowsSteps
    <2>7. ASSUME NEW j \in 1..N PROVE f[j] = LinkStep(c, m, j, f[j - 1]) /\ DOMAIN f[j - 1] = DOMAIN u
        <3>1. f[j - 1] \in U
            BY <2>4, <2>6
        <3>. QED  BY <2>2, <2>3, <2>6, <3>1
    <2>8. \A j \in 0..N : f[j] = IF j = 0 THEN u
                                 ELSE [b \in DOMAIN u |->
                                         (IF b = hash(c[j][1]) % m THEN <<c[j]>> ELSE <<>>) \o f[j - 1][b]]
        <3>1. ASSUME NEW j \in 0..N, j # 0
              PROVE  f[j] = [b \in DOMAIN u |->
                               (IF b = hash(c[j][1]) % m THEN <<c[j]>> ELSE <<>>) \o f[j - 1][b]]
            <4>1. j \in 1..N
                BY <2>4, <3>1
            <4>. QED  BY <2>7, <4>1 DEF LinkStep
        <3>. QED  BY <2>6, <3>1
    <2>9. f = [j \in 0..N |-> f[j]]
        BY <2>6
    <2>10. f = Body(f)
        BY <2>8, <2>9
    <2>. QED  BY <2>10
<1>4. moved = Body(moved)
    BY <1>3, Zenon
<1>5. Relinked(u, c, m) = moved[N]
    BY <1>0 DEF Relinked
<1>6. \A j \in 0..N : moved[j] = IF j = 0 THEN u
                                 ELSE [b \in DOMAIN u |->
                                         (IF b = hash(c[j][1]) % m THEN <<c[j]>> ELSE <<>>) \o moved[j - 1][b]]
    BY <1>4, Zenon
<1>. HIDE DEF moved
<1> DEFINE T == {j \in Nat : j <= N => moved[j] \in U}
<1>7. moved[0] = u
    <2>1. 0 \in 0..N
        BY <1>1
    <2>. QED  BY <1>6, <2>1, Zenon
<1>8. ASSUME NEW j \in 1..N, moved[j - 1] \in U PROVE moved[j] = LinkStep(c, m, j, moved[j - 1])
    <2>1. DOMAIN moved[j - 1] = DOMAIN u
        BY <1>1, <1>8 DEF ChainTables
    <2>2. j \in 0..N /\ j # 0
        BY <1>1
    <2>. QED  BY <1>6, <2>1, <2>2 DEF LinkStep
<1>9. ASSUME NEW j \in Nat, j \in T PROVE j + 1 \in T
    <2>1. SUFFICES ASSUME j + 1 <= N PROVE moved[j + 1] \in U
        OBVIOUS
    <2>2. PICK a \in 1..N : a = j + 1
        BY <1>1, <2>1
    <2>3. a - 1 = j /\ j <= N
        BY <1>1, <2>1, <2>2
    <2>4. moved[a - 1] \in U
        BY <1>9, <2>3
    <2>5. moved[a] \in U
        BY <1>2, <1>8, <2>4
    <2>. QED  BY <2>2, <2>5
<1>10. 0 \in T
    BY <1>1, <1>7
<1>11. \A j \in Nat : j \in T
    <2>. HIDE DEF T
    <2>. QED  BY <1>9, <1>10, SetInduction
<1>12. \A j \in 0..N : moved[j] \in U
    BY <1>1, <1>11
<1>13. \A j \in 1..N : moved[j] = LinkStep(c, m, j, moved[j - 1])
    <2>1. SUFFICES ASSUME NEW j \in 1..N PROVE moved[j] = LinkStep(c, m, j, moved[j - 1])
        OBVIOUS
    <2>2. j - 1 \in 0..N
        BY <1>1
    <2>. QED  BY <1>8, <1>12, <2>2
<1>14. DOMAIN moved = 0..N /\ moved = [j \in 0..N |-> moved[j]]
    <2>1. PICK g : g = moved
        BY Zenon
    <2>2. g = Body(g)
        BY <1>4, <2>1
    <2>. QED  BY <2>1, <2>2
<1>15. moved \in [0..N -> U]
    <2>. HIDE DEF U
    <2>. QED  BY <1>12, <1>14
<1>. QED  BY <1>0, <1>5, <1>7, <1>13, <1>15 DEF LinksUp

\* All nodes of a chain are moved to the table u.
Relinks(u, c, m, x) == ChainTable(x, m) /\ ChainEntries(x) = ChainEntries(u) \cup Visited(c)

LEMMA RelinkedIs ==
    ASSUME NEW c \in Seq(Key \X Value), Apart(c), NEW m, NEW u, ChainTable(u, m),
           \A d \in ChainEntries(u) : \A e \in Visited(c) : d[1] # e[1]
    PROVE  Relinks(u, c, m, Relinked(u, c, m))
<1>0. PICK N : N = Len(c)
    OBVIOUS
<1>1. N \in Nat /\ DOMAIN c = 1..N /\ u \in ChainTables(m)
    BY <1>0 DEF ChainTable, ChainTables
<1>2. PICK moved : LinksUp(u, c, m, moved)
    BY <1>1, RelinkedBy
<1>3. moved[0] = u /\ \A j \in 1..N : moved[j] = LinkStep(c, m, j, moved[j - 1])
    BY <1>0, <1>2 DEF LinksUp
<1>5. Relinked(u, c, m) = moved[N]
    BY <1>0, <1>2 DEF LinksUp
<1> DEFINE Done(j, x) == ChainTable(x, m) /\ ChainEntries(x) = ChainEntries(u) \cup {c[i] : i \in 1..j}
           T == {j \in Nat : j <= N => Done(j, moved[j])}
<1>7. 0 \in T
    <2>1. moved[0] = u
        BY <1>3
    <2>2. Done(0, u)
        OBVIOUS
    <2>. QED  BY <2>1, <2>2
<1>8. ASSUME NEW j \in Nat, j \in T PROVE j + 1 \in T
    <2>1. SUFFICES ASSUME j + 1 <= N PROVE Done(j + 1, moved[j + 1])
        OBVIOUS
    <2>2. PICK x : x = moved[j]
        OBVIOUS
    <2>3. PICK a \in 1..N : a = j + 1
        BY <1>1, <2>1
    <2>4. a - 1 = j /\ a \in 0..N /\ a # 0 /\ a \in DOMAIN c /\ j <= N
        BY <1>1, <2>1, <2>3
    <2>5. Done(j, x)
        BY <1>8, <2>2, <2>4
    <2>8. moved[a] = LinkStep(c, m, a, x)
        BY <1>3, <2>2, <2>4
    <2>9. ASSUME NEW d \in ChainEntries(x) PROVE d[1] # c[a][1]
        <3>1. CASE d \in ChainEntries(u)
            BY <2>4, <3>1 DEF Visited
        <3>2. CASE \E i \in 1..j : d = c[i]
            <4>1. PICK i \in 1..j : d = c[i]
                BY <3>2
            <4>2. i \in DOMAIN c /\ i # a
                BY <1>1, <2>3, <2>4
            <4>. QED  BY <2>4, <4>1, <4>2 DEF Apart
        <3>. QED  BY <2>5, <3>1, <3>2
    <2>10. ChainTable(moved[a], m) /\ ChainEntries(moved[a]) = ChainEntries(x) \cup {c[a]}
        <3>1. Linked(x, m, c[a], LinkStep(c, m, a, x))
            BY <2>4, <2>5, <2>9, LinkStepKeeps
        <3>. QED  BY <2>8, <3>1 DEF Linked
    <2>11. {c[i] : i \in 1..j} \cup {c[a]} = {c[i] : i \in 1..a}
        <3>1. 1..a = 1..j \cup {a}
            BY <2>3
        <3>. QED  BY <3>1
    <2>12. Done(a, moved[a])
        BY <2>5, <2>10, <2>11
    <2>. QED  BY <2>3, <2>12
<1>9. N \in T
    <2>. HIDE DEF T
    <2>. QED  BY <1>1, <1>7, <1>8, SetInduction
<1>10. {c[i] : i \in 1..N} = Visited(c)
    BY <1>1 DEF Visited
<1>11. Done(N, moved[N])
    <2>1. N <= N
        BY <1>1
    <2>. HIDE DEF Done
    <2>. QED  BY <1>9, <2>1
<1>. QED  BY <1>5, <1>10, <1>11 DEF Relinks

LEMMA FreshChains ==
    ASSUME ~open, NEW m \in Nat \ {0}, NEW x, x = fresh(m)
    PROVE  ChainTable(x, m) /\ ChainEntries(x) = {}
<1>1. x = [i \in 0..(m - 1) |-> <<>>]
    BY DEF fresh
<1>2. /\ x \in [0..(m - 1) -> Seq(Key \X Value)] /\ DOMAIN x = 0..(m - 1)
      /\ \A i \in 0..(m - 1) : x[i] = <<>>
    BY <1>1
<1>3. Visited(<<>>) = {} /\ Apart(<<>>)
    BY DEF Visited, Apart
<1>. QED  BY <1>2, <1>3 DEF ChainTable, ChainEntries

\* Rehashing keeps the entries of a table of chains.
LEMMA ChainRehash ==
    ASSUME ~open, NEW t, NEW N, ChainTable(t, N), NEW m \in Nat \ {0}
    PROVE  ChainTable(chain_rehash(t, m), m) /\ ChainEntries(chain_rehash(t, m)) = ChainEntries(t)
<1>1. /\ N \in Nat /\ DOMAIN t = 0..(N - 1) /\ Count(t) = N
      /\ \A i \in 1..N : i - 1 \in 0..(N - 1) /\ t[i - 1] \in Seq(Key \X Value)
    BY CountIs DEF ChainTable
<1> DEFINE U == ChainTables(m)
           Body(f) == [i \in 0..Count(t) |->
                         IF i = 0 THEN fresh(m) ELSE Relinked(f[i - 1], t[i - 1], m)]
           after == CHOOSE f : f = Body(f)
<1>2. ChainTable(fresh(m), m) /\ ChainEntries(fresh(m)) = {} /\ fresh(m) \in U
    BY FreshChains DEF ChainTable, ChainTables
<1>3. ASSUME NEW i \in 1..N, NEW x \in U PROVE Relinked(x, t[i - 1], m) \in U
    <2>1. PICK c \in Seq(Key \X Value) : c = t[i - 1]
        BY <1>1
    <2>2. PICK g : LinksUp(x, c, m, g)
        BY RelinkedBy
    <2>3. g[Len(c)] \in U
        BY <2>2 DEF LinksUp
    <2>. QED  BY <2>1, <2>2, <2>3 DEF LinksUp
<1>4. \E f : f = Body(f)
    <2>1. PICK step : step = [i \in 1..N |-> [x \in U |-> Relinked(x, t[i - 1], m)]]
        OBVIOUS
    <2>. HIDE DEF U
    <2>2. ASSUME NEW i \in 1..N, NEW x \in U PROVE step[i][x] = Relinked(x, t[i - 1], m) /\ step[i][x] \in U
        BY <1>3, <2>1
    <2>3. PICK c \in U : c = fresh(m)
        BY <1>2
    <2>4. StepsIn(U, N, step)
        BY <2>2 DEF StepsIn
    <2>5. PICK f : FollowsSteps(U, N, c, step, f)
        BY <1>1, <2>4, StepsExist
    <2>6. f \in [0..N -> U] /\ f[0] = fresh(m) /\ \A i \in 1..N : f[i] = step[i][f[i - 1]]
        BY <2>3, <2>5 DEF FollowsSteps
    <2>7. ASSUME NEW i \in 1..N PROVE f[i] = Relinked(f[i - 1], t[i - 1], m)
        <3>1. f[i - 1] \in U
            BY <1>1, <2>6
        <3>. QED  BY <2>2, <2>6, <3>1
    <2>8. \A i \in 0..N : f[i] = IF i = 0 THEN fresh(m) ELSE Relinked(f[i - 1], t[i - 1], m)
        BY <1>1, <2>6, <2>7
    <2>9. f = [i \in 0..N |-> f[i]]
        BY <2>6
    <2>10. f = Body(f)
        BY <1>1, <2>8, <2>9
    <2>. QED  BY <2>10
<1>5. after = Body(after)
    BY <1>4, Zenon
<1>6. chain_rehash(t, m) = after[N]
    BY <1>1 DEF chain_rehash
<1>7. \A i \in 0..N : after[i] = IF i = 0 THEN fresh(m) ELSE Relinked(after[i - 1], t[i - 1], m)
    BY <1>1, <1>5
<1>. HIDE DEF after
<1> DEFINE Done(i, x) == ChainTable(x, m) /\ ChainEntries(x) = UNION {Visited(t[b]) : b \in 0..(i - 1)}
           T == {i \in Nat : i <= N => Done(i, after[i])}
<1>8. 0 \in T
    <2>1. after[0] = fresh(m)
        BY <1>1, <1>7
    <2>2. Done(0, fresh(m))
        BY <1>2
    <2>. QED  BY <2>1, <2>2
<1>9. ASSUME NEW j \in Nat, j \in T PROVE j + 1 \in T
    <2>1. SUFFICES ASSUME j + 1 <= N PROVE Done(j + 1, after[j + 1])
        OBVIOUS
    <2>2. PICK x : x = after[j]
        OBVIOUS
    <2>3. PICK a \in 1..N : a = j + 1
        BY <1>1, <2>1
    <2>4. a - 1 = j /\ a \in 0..N /\ a # 0 /\ j \in 0..(N - 1) /\ j <= N
        BY <1>1, <2>1, <2>3
    <2>5. Done(j, x)
        BY <1>9, <2>2, <2>4
    <2>6. PICK c \in Seq(Key \X Value) : c = t[j]
        BY <1>1, <2>4
    <2>7. after[a] = Relinked(x, c, m)
        BY <1>7, <2>2, <2>4, <2>6
    <2>8. Apart(c) /\ \A e \in Visited(c) : hash(e[1]) % N = j
        BY <2>4, <2>6 DEF ChainTable
    <2>9. ASSUME NEW d \in ChainEntries(x), NEW e \in Visited(c) PROVE d[1] # e[1]
        <3>1. PICK b \in 0..(j - 1) : d \in Visited(t[b])
            BY <2>5
        <3>2. b \in 0..(N - 1) /\ b # j
            BY <1>1, <2>4
        <3>3. hash(d[1]) % N = b
            BY <3>1, <3>2 DEF ChainTable
        <3>. QED  BY <2>8, <3>2, <3>3
    <2>10. Relinks(x, c, m, Relinked(x, c, m))
        BY <2>5, <2>8, <2>9, RelinkedIs
    <2>11. ChainTable(after[a], m) /\ ChainEntries(after[a]) = ChainEntries(x) \cup Visited(t[j])
        BY <2>6, <2>7, <2>10 DEF Relinks
    <2>12. UNION {Visited(t[b]) : b \in 0..(a - 1)} = (UNION {Visited(t[b]) : b \in 0..(j - 1)}) \cup Visited(t[j])
        <3>1. 0..(a - 1) = 0..(j - 1) \cup {j}
            BY <2>3
        <3>. QED  BY <3>1
    <2>13. Done(a, after[a])
        BY <2>5, <2>11, <2>12
    <2>. QED  BY <2>3, <2>13
<1>10. N \in T
    <2>. HIDE DEF T
    <2>. QED  BY <1>1, <1>8, <1>9, SetInduction
<1>11. Done(N, after[N])
    <2>1. N <= N
        BY <1>1
    <2>. HIDE DEF Done
    <2>. QED  BY <1>10, <2>1
<1>. QED  BY <1>1, <1>6, <1>11 DEF ChainEntries

(***************************************************************************)
(* The hash map                                                            *)
(***************************************************************************)

\* Nothing was removed from a map that may grow.
Roomy == options.growable /\ ~history.removed

MapState(t, n, scar, roomy) ==
    \E N : IF open THEN OpenState(t, N, n, scar, roomy) ELSE ChainState(t, N, n)

\* The inductive invariant.
MapInv ==
    /\ options \in Options
    /\ history \in [removed: BOOLEAN, scar: BOOLEAN, grew: BOOLEAN]
    /\ Live => MapState(table, size, history.scar, Roomy)

LEMMA ForeachIs ==
    ASSUME NEW t
    PROVE  foreach(t) = IF open THEN OpenEntries(t) ELSE ChainEntries(t)
BY DEF foreach, OpenEntries, Occupied, ChainEntries, Visited

\* An empty table.
LEMMA FreshState ==
    ASSUME NEW m \in Nat \ {0}, NEW roomy \in BOOLEAN
    PROVE  MapState(fresh(m), 0, FALSE, roomy)
<1>1. PICK x : x = fresh(m)
    OBVIOUS
<1>2. CASE open
    <2>1. /\ OpenTable(x, m) /\ NoTombs(x) /\ Reached(x, m) /\ Lone(x, m)
          /\ Cardinality(Occupied(x)) = 0
        BY <1>1, <1>2, FreshOpen
    <2>2. PICK n \in Nat : n = 0
        OBVIOUS
    <2>3. PICK scar \in BOOLEAN : ~scar
        OBVIOUS
    <2>4. Sound(x, m, n) /\ (roomy => NoTombs(x) /\ ~scar /\ n * 4 < m * 3)
        BY <2>1, <2>2, <2>3 DEF Sound
    <2>5. OpenState(x, m, n, scar, roomy)
        BY <2>1, <2>4, StateFrom
    <2>6. scar = FALSE
        BY <2>3
    <2>. QED  BY <1>1, <1>2, <2>2, <2>5, <2>6 DEF MapState
<1>3. CASE ~open
    <2>1. ChainTable(x, m) /\ ChainEntries(x) = {}
        BY <1>1, <1>3, FreshChains
    <2>2. ChainState(x, m, 0)
        BY <2>1, FS_EmptySet DEF ChainState
    <2>. QED  BY <1>1, <1>3, <2>2 DEF MapState
<1>. QED  BY <1>2, <1>3

LEMMA MapStart == MapInit => MapInv
<1>1. SUFFICES ASSUME MapInit PROVE MapInv
    OBVIOUS
<1>2. PICK n \in Nat \ {0} : table = fresh(n)
    BY <1>1, MapConstants DEF MapInit
<1>3. /\ options \in Options /\ size = 0
      /\ history = [removed |-> FALSE, scar |-> FALSE, grew |-> FALSE]
    BY <1>1 DEF MapInit
<1>4. history \in [removed: BOOLEAN, scar: BOOLEAN, grew: BOOLEAN] /\ history.scar = FALSE
    BY <1>3
<1>5. PICK roomy : roomy = Roomy
    OBVIOUS
<1>6. roomy \in BOOLEAN
    BY <1>5 DEF Roomy
<1>7. MapState(fresh(n), 0, FALSE, roomy)
    BY <1>6, FreshState
<1>. QED  BY <1>2, <1>3, <1>4, <1>5, <1>7 DEF MapInv

\* A table without tombstones gets no scar.
LEMMA NoScar ==
    ASSUME NEW t, NEW N, OpenTable(t, N), NoTombs(t), NEW n \in Nat, NEW k \in Key, NEW v \in Value,
           NEW r \in open_put(t, n, k, v)
    PROVE  r.scar = FALSE
<1>1. PICK p : p = open_probe(t, k, TRUE)
    OBVIOUS
<1>2. PICK i : i = p.index
    OBVIOUS
<1>3. \/ PutNothing(t, n, r)
      \/ p.state = "occupied" /\ PutValue(t, N, n, k, v, i, r)
      \/ p.state = "empty" /\ PutEntry(t, N, n, k, v, i, r)
      \/ p.state = "empty" /\ PutFailed(t, N, n, i, r)
    BY <1>1, <1>2, PutCases
<1>4. CASE PutFailed(t, N, n, i, r)
    <2>1. i \in DOMAIN t
        BY <1>1, <1>2, ProbeTyped DEF OpenTable
    <2>. QED  BY <1>4, <2>1 DEF PutFailed, NoTombs
<1>. QED  BY <1>3, <1>4 DEF PutNothing, PutValue, PutEntry

\* A put that does not grow.
LEMMA PutKeeps ==
    ASSUME NEW t, NEW n, NEW scar \in BOOLEAN, NEW roomy \in BOOLEAN, MapState(t, n, scar, roomy),
           roomy => options.growable, ~should_grow(t, n),
           NEW k \in Key, NEW v \in Value, NEW r \in put_in(t, n, k, v)
    PROVE  r.scar \in BOOLEAN /\ MapState(r.table, r.size, scar \/ r.scar, roomy)
<1>1. CASE open
    <2>1. PICK N : OpenState(t, N, n, scar, roomy)
        BY <1>1 DEF MapState
    <2>2. N \in Nat \ {0} /\ DOMAIN t = 0..(N - 1) /\ n \in Nat
        BY <2>1 DEF OpenState, OpenTable
    <2>3. Count(t) = N
        BY <2>2, CountIs
    <2>4. roomy => (n + 1) * 4 < N * 3
        BY <2>2, <2>3 DEF should_grow
    <2>5. r \in open_put(t, n, k, v)
        BY <1>1 DEF put_in
    <2>6. r.scar \in BOOLEAN /\ OpenState(r.table, N, r.size, scar \/ r.scar, roomy)
        BY <2>1, <2>4, <2>5, OpenPut
    <2>. QED  BY <1>1, <2>6 DEF MapState
<1>2. CASE ~open
    <2>1. PICK N : ChainState(t, N, n)
        BY <1>2 DEF MapState
    <2>2. r \in chain_put(t, n, k, v)
        BY <1>2 DEF put_in
    <2>3. r.scar = FALSE /\ ChainState(r.table, N, r.size)
        BY <2>1, <2>2, ChainPut
    <2>. QED  BY <1>2, <2>3 DEF MapState
<1>. QED  BY <1>1, <1>2

\* A put that grows first.
LEMMA GrowKeeps ==
    ASSUME NEW t, NEW n, NEW scar \in BOOLEAN, NEW roomy \in BOOLEAN, MapState(t, n, scar, roomy),
           NEW k \in Key, NEW v \in Value,
           NEW r \in put_in(rehash(t, Count(t) * 2), rehash_size(t, n), k, v)
    PROVE  MapState(r.table, r.size, FALSE, roomy)
<1>1. CASE open
    <2>1. PICK N : OpenState(t, N, n, scar, roomy)
        BY <1>1 DEF MapState
    <2>2. N \in Nat \ {0} /\ DOMAIN t = 0..(N - 1) /\ n \in Nat /\ OpenTable(t, N)
        BY <2>1 DEF OpenState, OpenTable
    <2>3. Count(t) = N
        BY <2>2, CountIs
    <2>4. PICK m \in Nat : m = N * 2 /\ N < m
        BY <2>2
    <2>5. PICK u : u = open_rehash(t, m)
        OBVIOUS
    <2>6. /\ OpenTable(u, m) /\ NoTombs(u) /\ SomeEmpty(u)
          /\ Reached(u, m) /\ Lone(u, m)
          /\ Lone(t, N) => OpenEntries(u) = OpenEntries(t)
        BY <1>1, <2>2, <2>4, <2>5, OpenRehashMeans
    <2>7. PICK c : c = Cardinality(Occupied(u)) /\ c \in Nat
        BY <2>6, OccupiedFinite
    <2>8. Cardinality(OpenEntries(u)) = c
        BY <2>6, <2>7, EntriesCounted
    <2>9. rehash(t, Count(t) * 2) = u
        BY <1>1, <2>3, <2>4, <2>5 DEF rehash
    <2>10. rehash_size(t, n) = c
        BY <1>1, <2>8, <2>9, ForeachIs DEF rehash_size
    <2>11. r \in open_put(u, c, k, v)
        BY <1>1, <2>9, <2>10 DEF put_in
    <2>12. ASSUME roomy PROVE (c + 1) * 4 < m * 3 /\ c * 4 < m * 3
        <3>1. Sound(t, N, n) /\ n * 4 < N * 3
            BY <2>1, <2>12 DEF OpenState, Tight
        <3>2. Lone(t, N) /\ n = Cardinality(Occupied(t))
            BY <3>1 DEF Sound
        <3>3. c = n
            BY <2>2, <2>6, <2>8, <3>2, EntriesCounted
        <3>. QED  BY <2>2, <2>4, <3>1, <3>3
    <2>13. Sound(u, m, c)
        BY <2>6, <2>7 DEF Sound
    <2>19. PICK s \in BOOLEAN : ~s
        OBVIOUS
    <2>14. roomy => NoTombs(u) /\ ~s /\ c * 4 < m * 3
        BY <2>6, <2>12, <2>19
    <2>15. OpenState(u, m, c, s, roomy)
        BY <2>6, <2>7, <2>13, <2>14, StateFrom
    <2>20. roomy => (c + 1) * 4 < m * 3
        BY <2>12
    <2>16. r.scar \in BOOLEAN /\ OpenState(r.table, m, r.size, s \/ r.scar, roomy)
        BY <2>11, <2>15, <2>20, OpenPut
    <2>17. r.scar = FALSE
        BY <2>6, <2>7, <2>11, NoScar
    <2>21. (s \/ r.scar) = FALSE
        BY <2>17, <2>19
    <2>18. OpenState(r.table, m, r.size, FALSE, roomy)
        BY <2>16, <2>21
    <2>. QED  BY <1>1, <2>18 DEF MapState
<1>2. CASE ~open
    <2>1. PICK N : ChainState(t, N, n)
        BY <1>2 DEF MapState
    <2>2. ChainTable(t, N) /\ N \in Nat \ {0} /\ DOMAIN t = 0..(N - 1)
        BY <2>1 DEF ChainState, ChainTable
    <2>3. Count(t) = N
        BY <2>2, CountIs
    <2>4. PICK m \in Nat \ {0} : m = N * 2
        BY <2>2
    <2>5. PICK u : u = chain_rehash(t, m)
        OBVIOUS
    <2>6. ChainTable(u, m) /\ ChainEntries(u) = ChainEntries(t)
        BY <1>2, <2>2, <2>5, ChainRehash
    <2>7. ChainState(u, m, n)
        BY <2>1, <2>6 DEF ChainState
    <2>8. rehash(t, Count(t) * 2) = u /\ rehash_size(t, n) = n
        BY <1>2, <2>3, <2>4, <2>5 DEF rehash, rehash_size
    <2>9. r \in chain_put(u, n, k, v)
        BY <1>2, <2>8 DEF put_in
    <2>10. ChainState(r.table, m, r.size)
        BY <2>7, <2>9, ChainPut
    <2>. QED  BY <1>2, <2>10 DEF MapState
<1>. QED  BY <1>1, <1>2

\* A remove.
LEMMA RemoveKeeps ==
    ASSUME NEW t, NEW n, NEW scar \in BOOLEAN, NEW roomy \in BOOLEAN, MapState(t, n, scar, roomy),
           NEW k \in Key, NEW r \in remove_in(t, n, k), r.st = "ok" => n > 0
    PROVE  MapState(r.table, r.size, scar, roomy /\ r.st # "ok")
<1>1. CASE open
    <2>1. PICK N : OpenState(t, N, n, scar, roomy)
        BY <1>1 DEF MapState
    <2>2. r \in open_remove(t, n, k)
        BY <1>1 DEF remove_in
    <2>3. OpenState(r.table, N, r.size, scar, roomy /\ r.st # "ok")
        BY <2>1, <2>2, OpenRemove
    <2>. QED  BY <1>1, <2>3 DEF MapState
<1>2. CASE ~open
    <2>1. PICK N : ChainState(t, N, n)
        BY <1>2 DEF MapState
    <2>2. r \in chain_remove(t, n, k)
        BY <1>2 DEF remove_in
    <2>3. /\ ChainState(r.table, N, r.size)
          /\ r.st = IF \E e \in ChainEntries(t) : e[1] = k THEN "ok" ELSE "not_found"
          /\ ChainEntries(r.table) = {e \in ChainEntries(t) : e[1] # k}
        BY <2>1, <2>2, ChainRemoveMeans
    <2>. QED  BY <1>2, <2>3 DEF MapState
<1>. QED  BY <1>1, <1>2

\* The options never change: what holds of the new table holds in the new state.
LEMMA MapStateNext ==
    ASSUME MapInv, UNCHANGED options,
           history' \in [removed: BOOLEAN, scar: BOOLEAN, grew: BOOLEAN],
           Live' => MapState(table', size', history'.scar, options.growable /\ ~history'.removed)
    PROVE  MapInv'
<1>1. options' \in Options
    BY DEF MapInv
<1>2. ASSUME Live' PROVE MapState(table, size, history.scar, Roomy)'
    <2>1. MapState(table', size', history'.scar, options.growable /\ ~history'.removed)
        BY <1>2
    <2>. QED  BY <2>1 DEF MapState, open, Roomy
<1>. QED  BY <1>1, <1>2 DEF MapInv

LEMMA MapStep == MapInv /\ [MapNext]_mapVars => MapInv'
<1>1. SUFFICES ASSUME MapInv, [MapNext]_mapVars PROVE MapInv'
    OBVIOUS
<1>2. /\ options \in Options /\ options.growable \in BOOLEAN
      /\ history \in [removed: BOOLEAN, scar: BOOLEAN, grew: BOOLEAN]
      /\ history.removed \in BOOLEAN /\ history.scar \in BOOLEAN
    BY <1>1 DEF MapInv, Options
<1>3. Live => MapState(table, size, history.scar, Roomy)
    BY <1>1 DEF MapInv
<1>4. PICK roomy \in BOOLEAN : roomy = Roomy
    BY DEF Roomy
<1>5. ASSUME NEW k \in Key, NEW v \in Value, PutInPlace(k, v) PROVE MapInv'
    <2>1. Live /\ ~should_grow(table, size) /\ UNCHANGED options
        BY <1>5 DEF PutInPlace
    <2>2. PICK r \in put_in(table, size, k, v) : Ended(r)
        BY <1>5 DEF PutInPlace
    <2>3. MapState(table, size, history.scar, roomy) /\ (roomy => options.growable)
        BY <1>3, <1>4, <2>1 DEF Roomy
    <2>4. r.scar \in BOOLEAN /\ MapState(r.table, r.size, history.scar \/ r.scar, roomy)
        BY <1>2, <2>1, <2>3, PutKeeps
    <2>5. table' = r.table /\ size' = r.size /\ history' = [history EXCEPT !.scar = @ \/ r.scar]
        BY <2>2 DEF Ended
    <2>6. /\ history' \in [removed: BOOLEAN, scar: BOOLEAN, grew: BOOLEAN]
          /\ history'.scar = (history.scar \/ r.scar) /\ history'.removed = history.removed
        BY <1>2, <2>4, <2>5
    <2>7. (options.growable /\ ~history'.removed) = roomy
        BY <1>4, <2>6 DEF Roomy
    <2>8. MapState(table', size', history'.scar, options.growable /\ ~history'.removed)
        BY <2>4, <2>5, <2>6, <2>7
    <2>. QED  BY <1>1, <2>1, <2>6, <2>8, MapStateNext
<1>6. ASSUME NEW k \in Key, NEW v \in Value, PutAndGrow(k, v) PROVE MapInv'
    <2>1. Live /\ UNCHANGED options
        BY <1>6 DEF PutAndGrow
    <2>2. PICK r \in put_in(rehash(table, Count(table) * 2), rehash_size(table, size), k, v) :
            /\ table' = r.table /\ size' = r.size
            /\ history' = [history EXCEPT !.grew = TRUE, !.scar = FALSE]
        BY <1>6 DEF PutAndGrow
    <2>3. MapState(table, size, history.scar, roomy)
        BY <1>3, <1>4, <2>1
    <2>4. MapState(r.table, r.size, FALSE, roomy)
        <3>1. history.scar \in BOOLEAN
            BY <1>2
        <3>. QED  BY <2>3, <3>1, GrowKeeps, Zenon
    <2>5. /\ history' \in [removed: BOOLEAN, scar: BOOLEAN, grew: BOOLEAN]
          /\ history'.scar = FALSE /\ history'.removed = history.removed
        BY <1>2, <2>2
    <2>6. (options.growable /\ ~history'.removed) = roomy
        BY <1>4, <2>5 DEF Roomy
    <2>7. MapState(table', size', history'.scar, options.growable /\ ~history'.removed)
        BY <2>2, <2>4, <2>5, <2>6
    <2>. QED  BY <1>1, <2>1, <2>5, <2>7, MapStateNext
<1>7. ASSUME NEW k \in Key, Remove(k) PROVE MapInv'
    <2>1. Live /\ UNCHANGED options
        BY <1>7 DEF Remove
    <2>2. PICK r \in remove_in(table, size, k) :
            /\ r.st = "ok" => size > 0
            /\ table' = r.table /\ size' = r.size
            /\ history' = [history EXCEPT !.removed = @ \/ r.st = "ok"]
        BY <1>7 DEF Remove
    <2>3. MapState(table, size, history.scar, roomy)
        BY <1>3, <1>4, <2>1
    <2>4. MapState(r.table, r.size, history.scar, roomy /\ r.st # "ok")
        BY <1>2, <2>2, <2>3, RemoveKeeps
    <2>5. /\ history' \in [removed: BOOLEAN, scar: BOOLEAN, grew: BOOLEAN]
          /\ history'.scar = history.scar /\ history'.removed = (history.removed \/ r.st = "ok")
        BY <1>2, <2>2
    <2>6. (options.growable /\ ~history'.removed) = (roomy /\ r.st # "ok")
        BY <1>4, <2>5 DEF Roomy
    <2>7. MapState(table', size', history'.scar, options.growable /\ ~history'.removed)
        BY <2>2, <2>4, <2>5, <2>6
    <2>. QED  BY <1>1, <2>1, <2>5, <2>7, MapStateNext
<1>8. ASSUME ClearMap PROVE MapInv'
    <2>1. /\ Live /\ UNCHANGED options /\ table' = fresh(Count(table)) /\ size' = 0
          /\ history' = [history EXCEPT !.removed = FALSE, !.scar = FALSE]
        BY <1>8 DEF ClearMap
    <2>2. PICK N \in Nat \ {0} : DOMAIN table = 0..(N - 1)
        <3>1. MapState(table, size, history.scar, Roomy)
            BY <1>3, <2>1
        <3>. QED  BY <3>1 DEF MapState, OpenState, OpenTable, ChainState, ChainTable
    <2>3. Count(table) = N
        BY <2>2, CountIs
    <2>4. /\ history' \in [removed: BOOLEAN, scar: BOOLEAN, grew: BOOLEAN]
          /\ history'.scar = FALSE /\ history'.removed = FALSE
        BY <1>2, <2>1
    <2>5. PICK b \in BOOLEAN : b = (options.growable /\ ~history'.removed)
        OBVIOUS
    <2>6. MapState(fresh(N), 0, FALSE, b)
        BY FreshState
    <2>7. MapState(table', size', history'.scar, options.growable /\ ~history'.removed)
        BY <2>1, <2>3, <2>4, <2>5, <2>6
    <2>. QED  BY <1>1, <2>1, <2>4, <2>7, MapStateNext
<1>9. ASSUME DestroyMap \/ DeinitBox PROVE MapInv'
    <2>1. ~Live' /\ UNCHANGED <<options, history>>
        BY <1>9 DEF DestroyMap, DeinitBox, Live
    <2>. QED  BY <1>1, <1>2, <2>1, MapStateNext
<1>10. ASSUME UNCHANGED mapVars PROVE MapInv'
    <2>1. /\ UNCHANGED options /\ table' = table /\ size' = size /\ history' = history
          /\ Live' = Live
        BY <1>10 DEF mapVars, Live
    <2>2. Live => MapState(table, size, history.scar, options.growable /\ ~history.removed)
        BY <1>3 DEF Roomy
    <2>3. Live' => MapState(table', size', history'.scar, options.growable /\ ~history'.removed)
        BY <2>1, <2>2
    <2>. QED  BY <1>1, <1>2, <2>1, <2>3, MapStateNext
<1>. QED  BY <1>1, <1>5, <1>6, <1>7, <1>8, <1>9, <1>10, Zenon DEF MapNext

\* The invariant of the hash map, for every set of keys and values, every hash
\* range and every number of buckets.
THEOREM MapInvariant == MapSpec => []MapInv
<1>1. MapInit => MapInv
    BY MapStart
<1>2. MapInv /\ [MapNext]_mapVars => MapInv'
    BY MapStep
<1>. QED  BY <1>1, <1>2, PTL DEF MapSpec

\* A map that can be trusted: the table and its entries.
LEMMA TrustedTable ==
    ASSUME MapInv, Live, Trusted
    PROVE  \E N : IF open THEN OpenTable(table, N) /\ SomeEmpty(table) /\ Sound(table, N, size) /\ size \in Nat
                  ELSE ChainState(table, N, size)
<1>1. PICK N : IF open THEN OpenState(table, N, size, history.scar, Roomy) ELSE ChainState(table, N, size)
    BY DEF MapInv, MapState
<1>2. open => SomeEmpty(table) /\ ~history.scar
    BY DEF Trusted, HasEmpty, SomeEmpty
<1>. QED  BY <1>1, <1>2 DEF OpenState

\* What the calls of an open table do.
LEMMA OpenActs ==
    ASSUME open, NEW N, OpenTable(table, N), SomeEmpty(table), Sound(table, N, size), size \in Nat
    PROVE  ActsAsMap
<1> DEFINE m == foreach(table)
           has(k) == \E e \in m : e[1] = k
           less(k) == {e \in m : e[1] # k}
<1>1. Reached(table, N) /\ Lone(table, N) /\ size = Cardinality(Occupied(table))
    BY DEF Sound
<1>2. \A t : foreach(t) = OpenEntries(t)
    BY ForeachIs
<1>3. m = OpenEntries(table)
    BY <1>2
<1>4. Cardinality(m) = size
    BY <1>1, <1>3, EntriesCounted
<1>5. \A d, e \in m : d[1] = e[1] => d = e
    <2>1. SUFFICES ASSUME NEW i \in Occupied(table), NEW j \in Occupied(table), table[i].key = table[j].key
                   PROVE  i = j
        BY <1>3 DEF OpenEntries
    <2>2. /\ i \in 0..(N - 1) /\ j \in 0..(N - 1) /\ table[i].key \in Key
          /\ Holds(table, i, table[i].key) /\ Holds(table, j, table[i].key)
        BY <2>1 DEF Occupied, OpenTable, Holds
    <2>. QED  BY <1>1, <2>2 DEF Lone
<1>6. ASSUME NEW k \in Key, NEW r \in get(table, size, k)
      PROVE  IF has(k) THEN r.st = "ok" /\ <<k, r.val>> \in m ELSE r.st = "not_found"
    <2>1. r \in open_get(table, size, k)
        BY <1>6 DEF get
    <2>2. IF \E e \in OpenEntries(table) : e[1] = k
          THEN r.st = "ok" /\ <<k, r.val>> \in OpenEntries(table) ELSE r.st = "not_found"
        BY <1>1, <2>1, OpenGetMeans
    <2>. QED  BY <1>3, <2>2
<1>7. ASSUME NEW k \in Key, NEW r \in remove_in(table, size, k)
      PROVE  r.st = (IF has(k) THEN "ok" ELSE "not_found") /\ foreach(r.table) = less(k)
    <2>1. r \in open_remove(table, size, k)
        BY <1>7 DEF remove_in
    <2>2. /\ r.st = IF \E e \in OpenEntries(table) : e[1] = k THEN "ok" ELSE "not_found"
          /\ OpenEntries(r.table) = {e \in OpenEntries(table) : e[1] # k}
        BY <1>1, <2>1, OpenRemoveMeans
    <2>. QED  BY <1>2, <1>3, <2>2
<1>8. ASSUME NEW k \in Key, NEW v \in Value, NEW r \in put_in(table, size, k, v)
      PROVE  foreach(r.table) = IF r.st = "ok" /\ ~r.ignored THEN less(k) \cup {<<k, v>>} ELSE m
    <2>1. r \in open_put(table, size, k, v)
        BY <1>8 DEF put_in
    <2>2. OpenEntries(r.table) = IF r.st = "ok" /\ ~r.ignored
                                 THEN {e \in OpenEntries(table) : e[1] # k} \cup {<<k, v>>}
                                 ELSE OpenEntries(table)
        BY <1>1, <2>1, OpenPutMeans
    <2>. QED  BY <1>2, <1>3, <2>2
<1>. HIDE DEF m
<1>. QED  BY <1>4, <1>5, <1>6, <1>7, <1>8 DEF ActsAsMap, m

\* What the calls of a table of chains do.
LEMMA ChainActs ==
    ASSUME ~open, NEW N, ChainState(table, N, size)
    PROVE  ActsAsMap
<1> DEFINE m == foreach(table)
           has(k) == \E e \in m : e[1] = k
           less(k) == {e \in m : e[1] # k}
<1>1. ChainTable(table, N) /\ size = Cardinality(ChainEntries(table))
    BY DEF ChainState
<1>2. \A t : foreach(t) = ChainEntries(t)
    BY ForeachIs
<1>3. m = ChainEntries(table)
    BY <1>2
<1>4. Cardinality(m) = size
    BY <1>1, <1>3
<1>5. \A d, e \in m : d[1] = e[1] => d = e
    BY <1>1, <1>3, ChainUnique
<1>6. ASSUME NEW k \in Key, NEW r \in get(table, size, k)
      PROVE  IF has(k) THEN r.st = "ok" /\ <<k, r.val>> \in m ELSE r.st = "not_found"
    <2>1. r \in chain_get(table, size, k)
        BY <1>6 DEF get
    <2>2. IF \E e \in ChainEntries(table) : e[1] = k
          THEN r.st = "ok" /\ <<k, r.val>> \in ChainEntries(table) ELSE r.st = "not_found"
        BY <1>1, <2>1, ChainGetMeans
    <2>. QED  BY <1>3, <2>2
<1>7. ASSUME NEW k \in Key, NEW r \in remove_in(table, size, k)
      PROVE  r.st = (IF has(k) THEN "ok" ELSE "not_found") /\ foreach(r.table) = less(k)
    <2>1. r \in chain_remove(table, size, k)
        BY <1>7 DEF remove_in
    <2>2. /\ ChainState(r.table, N, r.size)
          /\ r.st = IF \E e \in ChainEntries(table) : e[1] = k THEN "ok" ELSE "not_found"
          /\ ChainEntries(r.table) = {e \in ChainEntries(table) : e[1] # k}
        BY <2>1, ChainRemoveMeans
    <2>. QED  BY <1>2, <1>3, <2>2
<1>8. ASSUME NEW k \in Key, NEW v \in Value, NEW r \in put_in(table, size, k, v)
      PROVE  foreach(r.table) = IF r.st = "ok" /\ ~r.ignored THEN less(k) \cup {<<k, v>>} ELSE m
    <2>1. r \in chain_put(table, size, k, v)
        BY <1>8 DEF put_in
    <2>2. ChainedPut(table, N, size, k, v, r)
        BY <1>1, <2>1, ChainPutMeans
    <2>3. ChainEntries(r.table) = IF r.st = "ok" /\ ~r.ignored
                                  THEN {e \in ChainEntries(table) : e[1] # k} \cup {<<k, v>>}
                                  ELSE ChainEntries(table)
        BY <2>2 DEF ChainedPut
    <2>. QED  BY <1>2, <1>3, <2>3
<1>. HIDE DEF m
<1>. QED  BY <1>4, <1>5, <1>6, <1>7, <1>8 DEF ActsAsMap, m

\* The map is a map as long as its probes can be trusted (open_probe, open_put,
\* open_remove, chain_put, chain_remove).
THEOREM MapActsAsMap == MapSpec => []ActsAsMap
<1>1. MapInv => ActsAsMap
    <2>1. ASSUME MapInv, Live, Trusted PROVE ActsAsMap
        <3>1. CASE open
            BY <2>1, <3>1, TrustedTable, OpenActs
        <3>2. CASE ~open
            BY <2>1, <3>2, TrustedTable, ChainActs
        <3>. QED  BY <3>1, <3>2
    <2>2. ~(Live /\ Trusted) => ActsAsMap
        BY DEF ActsAsMap
    <2>. QED  BY <2>1, <2>2
<1>. QED  BY <1>1, MapInvariant, PTL

\* Rehashing loses and invents no entry (open_rehash, chain_rehash).
THEOREM MapRehashKeepsEntries == MapSpec => []RehashKeepsEntries
<1>1. ASSUME MapInv, Live, Trusted PROVE foreach(rehash(table, Count(table) * 2)) = foreach(table)
    <2>1. CASE open
        <3>1. PICK N : OpenTable(table, N) /\ Lone(table, N)
            BY <1>1, <2>1, TrustedTable DEF Sound
        <3>2. N \in Nat \ {0} /\ DOMAIN table = 0..(N - 1)
            BY <3>1 DEF OpenTable
        <3>3. Count(table) = N
            BY <3>2, CountIs
        <3>4. PICK m \in Nat : m = N * 2 /\ N < m
            BY <3>2
        <3>5. PICK u : u = open_rehash(table, m)
            OBVIOUS
        <3>6. /\ OpenTable(u, m) /\ NoTombs(u) /\ SomeEmpty(u)
              /\ Reached(u, m) /\ Lone(u, m)
              /\ Lone(table, N) => OpenEntries(u) = OpenEntries(table)
            BY <2>1, <3>1, <3>4, <3>5, OpenRehashMeans
        <3>7. rehash(table, Count(table) * 2) = u
            BY <2>1, <3>3, <3>4, <3>5 DEF rehash
        <3>. QED  BY <2>1, <3>1, <3>6, <3>7, ForeachIs
    <2>2. CASE ~open
        <3>1. PICK N : ChainTable(table, N)
            BY <1>1, <2>2, TrustedTable DEF ChainState
        <3>2. N \in Nat \ {0} /\ DOMAIN table = 0..(N - 1)
            BY <3>1 DEF ChainTable
        <3>3. Count(table) = N
            BY <3>2, CountIs
        <3>4. PICK m \in Nat \ {0} : m = N * 2
            BY <3>2
        <3>5. ChainEntries(chain_rehash(table, m)) = ChainEntries(table)
            BY <2>2, <3>1, ChainRehash
        <3>6. rehash(table, Count(table) * 2) = chain_rehash(table, m)
            BY <2>2, <3>3, <3>4 DEF rehash
        <3>. QED  BY <2>2, <3>5, <3>6, ForeachIs
    <2>. QED  BY <2>1, <2>2
<1>2. MapInv => RehashKeepsEntries
    BY <1>1 DEF RehashKeepsEntries
<1>. QED  BY <1>2, MapInvariant, PTL

\* A growable map from which nothing was removed has an empty slot (should_grow).
THEOREM MapGrowthKeepsRoom == MapSpec => []GrowthKeepsRoom
<1>1. MapInv => GrowthKeepsRoom
    <2>1. SUFFICES ASSUME MapInv, open, Live, Roomy PROVE HasEmpty
        BY DEF GrowthKeepsRoom, Roomy
    <2>2. PICK N : OpenState(table, N, size, history.scar, Roomy)
        BY <2>1 DEF MapInv, MapState
    <2>. QED  BY <2>1, <2>2 DEF OpenState, Tight, SomeEmpty, HasEmpty
<1>. QED  BY <1>1, MapInvariant, PTL
=============================================================================
