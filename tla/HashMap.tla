------------------------------ MODULE HashMap ------------------------------
(***************************************************************************)
(* hashmap_map_core under its two users, HashMap<K, V> and hashmap_box     *)
(* (the C API): separate chaining and open addressing with tombstones,     *)
(* growth by rehashing, allocations and copies that fail, and the          *)
(* ownership of the bucket table until the map is given back.              *)
(*                                                                         *)
(* A chain is the sequence of its entries and an open slot is its state    *)
(* byte, its key bytes and its value.  A destroyed key leaves its bytes    *)
(* behind: open_put compares them.                                         *)
(***************************************************************************)
EXTENDS Naturals, Sequences, FiniteSets

CONSTANTS Key,         \* a set of naturals
          HashRange,   \* the hash of a key is its value modulo HashRange
          Value,
          NoItem,      \* no key, no value
          Buckets,     \* the bucket counts a map may start with
          MaxBuckets   \* bound: no larger table can be allocated

ASSUME MapConstants ==
    /\ Key \subseteq Nat /\ HashRange \in Nat \ {0}
    /\ Buckets \subseteq Nat \ {0} /\ MaxBuckets \in Nat
    /\ NoItem \notin Value /\ NoItem \notin Key

VARIABLES options,  \* strategy_, policy_, arena binding and user of the core
          table,    \* buckets_ or slots_, indexed from 0
          size,     \* size_
          kind,     \* where the table is: caller, heap or arena (storage_kind_)
          tables,   \* malloc'ed tables that have not been freed
          history   \* what happened that the properties depend on

mapVars == <<options, table, size, kind, tables, history>>

open == options.strategy = "open"

\* The configurations that init, init_from_arena and hashmap_box accept.
Options ==
    { c \in [strategy: {"chaining", "open"}, growable: BOOLEAN, arena: BOOLEAN,
             user: {"cpp", "box"}, start: {"caller", "heap", "arena"}] :
        /\ c.start = "arena" => c.arena
        /\ c.start = "heap" => ~c.arena /\ c.user = "box"
        /\ c.user = "cpp" /\ c.start = "caller" => c.strategy = "open" /\ ~c.arena }

hash(k) == k % HashRange

EmptySlot == [state |-> "empty", key |-> NoItem, val |-> NoItem]

\* init_chaining, init_open and the memset of a new table.
fresh(n) == [i \in 0..(n - 1) |-> IF open THEN EmptySlot ELSE <<>>]

Count(t) == Cardinality(DOMAIN t)
Least(ps) == CHOOSE x \in ps : \A y \in ps : x <= y

\* What foreach visits.
foreach(t) ==
    IF open THEN {<<t[i].key, t[i].val>> : i \in {j \in DOMAIN t : t[j].state = "occupied"}}
            ELSE UNION {{t[i][j] : j \in DOMAIN t[i]} : i \in DOMAIN t}

\* The outcome of a call: its status, the table and the size after it, and
\* whether copy_assign ignored a copy_fn that failed.
Result(st, t, n)  == [st |-> st, table |-> t, size |-> n, ignored |-> FALSE, scar |-> FALSE, val |-> NoItem]
Found(v, t, n)    == [Result("ok", t, n) EXCEPT !.val = v]
Ignored(t, n)     == [Result("ok", t, n) EXCEPT !.ignored = TRUE]

-----------------------------------------------------------------------------
(* Separate chaining *)

chain_find(t, k) == {j \in DOMAIN t[hash(k) % Count(t)] : t[hash(k) % Count(t)][j][1] = k}

chain_put(t, n, k, v) ==
    LET b    == hash(k) % Count(t)
        hits == chain_find(t, k)
    IN  IF hits # {}
        THEN {Result("ok", [t EXCEPT ![b][Least(hits)] = <<k, v>>], n), Ignored(t, n)}
        ELSE {Result("ok", [t EXCEPT ![b] = <<<<k, v>>>> \o @], n + 1),
              Result("oom", t, n), Result("copy", t, n)}

chain_get(t, n, k) ==
    IF chain_find(t, k) = {} THEN {Result("not_found", t, n)}
    ELSE {Found(t[hash(k) % Count(t)][j][2], t, n) : j \in chain_find(t, k)}

\* The first node with the key is unlinked.
Unlinked(chain, j) == SubSeq(chain, 1, j - 1) \o SubSeq(chain, j + 1, Len(chain))

chain_remove(t, n, k) ==
    IF chain_find(t, k) = {} THEN {Result("not_found", t, n)}
    ELSE {Result("ok", [t EXCEPT ![hash(k) % Count(t)] = Unlinked(@, Least(chain_find(t, k)))], n - 1)}

\* Every node moves to the front of its new chain, bucket by bucket.
Relinked(u, chain, m) ==
    LET moved[j \in 0..Len(chain)] ==
          IF j = 0 THEN u
          ELSE [b \in DOMAIN u |->
                  (IF b = hash(chain[j][1]) % m THEN <<chain[j]>> ELSE <<>>) \o moved[j - 1][b]]
    IN  moved[Len(chain)]

chain_rehash(t, m) ==
    LET after[i \in 0..Count(t)] ==
          IF i = 0 THEN fresh(m) ELSE Relinked(after[i - 1], t[i - 1], m)
    IN  after[Count(t)]

-----------------------------------------------------------------------------
(* Open addressing *)

\* The slots a probe for k looks at, in order; it stops at an empty slot or at
\* the key, and otherwise looks at all of them.
Probe(t, k) == [p \in 0..(Count(t) - 1) |-> (hash(k) + p) % Count(t)]

Stops(t, k) == {p \in DOMAIN t : \/ t[Probe(t, k)[p]].state = "empty"
                                 \/ /\ t[Probe(t, k)[p]].state = "occupied"
                                    /\ t[Probe(t, k)[p]].key = k}

\* A probe that finds neither says "occupied" of the slot after its last one, the
\* one it began with, or of the first tombstone when it is to insert.
open_probe(t, k, for_insert) ==
    LET last   == IF Stops(t, k) = {} THEN Count(t) ELSE Least(Stops(t, k))
        tombs  == {p \in DOMAIN t : p < last /\ t[Probe(t, k)[p]].state = "deleted"}
        state  == IF last = Count(t) THEN "occupied" ELSE t[Probe(t, k)[last]].state
        at     == IF last = Count(t) THEN Probe(t, k)[0] ELSE Probe(t, k)[last]
        reuse  == for_insert /\ tombs # {} /\ (last = Count(t) \/ state = "empty")
    IN  [state |-> state, index |-> IF reuse THEN Probe(t, k)[Least(tombs)] ELSE at]

\* The key is copied before the value; when the value cannot be copied the slot
\* is marked empty, whatever it was.
open_put(t, n, k, v) ==
    LET p == open_probe(t, k, TRUE)
        s == t[p.index]
    IN  IF p.state = "occupied"
        THEN IF s.key = k
             THEN {Result("ok", [t EXCEPT ![p.index].val = v], n), Ignored(t, n)}
             ELSE {Result("full", t, n)}
        ELSE {Result("ok", [t EXCEPT ![p.index] = [state |-> "occupied", key |-> k, val |-> v]], n + 1),
              Result("copy", t, n),
              [Result("copy", [t EXCEPT ![p.index] = EmptySlot], n)
                 EXCEPT !.scar = s.state = "deleted"]}

open_get(t, n, k) ==
    LET p == open_probe(t, k, FALSE)
    IN  IF p.state # "occupied" THEN {Result("not_found", t, n)}
        ELSE {Found(t[p.index].val, t, n)}

open_remove_ToEmpty(t, n, k) ==
    LET p == open_probe(t, k, FALSE)
    IN  IF p.state # "occupied" THEN {Result("not_found", t, n)}
        ELSE {Result("ok", [t EXCEPT ![p.index] = EmptySlot], n - 1)}
open_remove(t, n, k) ==
    LET p == open_probe(t, k, FALSE)
    IN  IF p.state # "occupied" THEN {Result("not_found", t, n)}
        ELSE {Result("ok", [t EXCEPT ![p.index].state = "deleted", ![p.index].val = NoItem], n - 1)}

\* The entries are put one by one into a table without tombstones and counted
\* anew; a copy that fails brings the old table and the old count back.
open_rehash_SkipsLast(t, m) ==
    LET place[i \in 0..Count(t)] ==
          IF i = 0 THEN fresh(m)
          ELSE IF t[i - 1].state # "occupied" THEN place[i - 1]
          ELSE [place[i - 1] EXCEPT ![open_probe(place[i - 1], t[i - 1].key, TRUE).index] = t[i - 1]]
    IN  place[Count(t) - 1]
open_rehash(t, m) ==
    LET place[i \in 0..Count(t)] ==
          IF i = 0 THEN fresh(m)
          ELSE IF t[i - 1].state # "occupied" THEN place[i - 1]
          ELSE [place[i - 1] EXCEPT ![open_probe(place[i - 1], t[i - 1].key, TRUE).index] = t[i - 1]]
    IN  place[Count(t)]

-----------------------------------------------------------------------------
(* The calls *)

should_grow_Late(t, n) == options.growable /\ n * 4 >= Count(t) * 3
should_grow(t, n) == options.growable /\ (n + 1) * 4 >= Count(t) * 3

put_in(t, n, k, v)  == IF open THEN open_put(t, n, k, v) ELSE chain_put(t, n, k, v)
get(t, n, k)        == IF open THEN open_get(t, n, k) ELSE chain_get(t, n, k)
remove_in(t, n, k)  == IF open THEN open_remove(t, n, k) ELSE chain_remove(t, n, k)
rehash(t, m)        == IF open THEN open_rehash(t, m) ELSE chain_rehash(t, m)
rehash_size(t, n)   == IF open THEN Cardinality(foreach(rehash(t, Count(t) * 2))) ELSE n

\* The new table comes from the arena when one is bound, from malloc otherwise;
\* the old one is freed when the map owns it and it is on the heap.
GrownKind  == IF options.arena THEN "arena" ELSE "heap"
GrownHeap_Keeps == tables + (IF GrownKind = "heap" THEN 1 ELSE 0)
GrownHeap  == tables + (IF GrownKind = "heap" THEN 1 ELSE 0) - (IF kind = "heap" THEN 1 ELSE 0)

Live == kind # "none"

MapInit ==
    /\ options \in Options
    /\ \E n \in Buckets : table = fresh(n)
    /\ size = 0
    /\ kind = options.start
    /\ tables = IF options.start = "heap" THEN 1 ELSE 0
    /\ history = [removed |-> FALSE, scar |-> FALSE, grew |-> FALSE]

Ended(r) ==
    /\ table' = r.table /\ size' = r.size
    /\ history' = [history EXCEPT !.scar = @ \/ r.scar]

\* put grows first, even for a key that is there, and fails when that fails; a
\* growth that fails puts the old table back, which is no step.
PutInPlace(k, v) ==
    /\ Live /\ ~should_grow(table, size)
    /\ \E r \in put_in(table, size, k, v) : Ended(r)
    /\ UNCHANGED <<options, kind, tables>>

PutAndGrow(k, v) ==
    /\ Live /\ should_grow(table, size)
    /\ Count(table) * 2 <= MaxBuckets
    /\ \E r \in put_in(rehash(table, Count(table) * 2), rehash_size(table, size), k, v) :
         /\ table' = r.table /\ size' = r.size
         /\ history' = [history EXCEPT !.grew = TRUE, !.scar = FALSE]
    /\ kind' = GrownKind /\ tables' = GrownHeap
    /\ UNCHANGED options

\* Bound: a remove that hits a tombstone of a table without empty slots would
\* take size_ below zero; the model stops there.
Remove(k) ==
    /\ Live
    /\ \E r \in remove_in(table, size, k) :
         /\ r.st = "ok" => size > 0
         /\ table' = r.table /\ size' = r.size
         /\ history' = [history EXCEPT !.removed = @ \/ r.st = "ok"]
    /\ UNCHANGED <<options, kind, tables>>

ClearMap ==
    /\ Live
    /\ table' = fresh(Count(table)) /\ size' = 0
    /\ history' = [history EXCEPT !.removed = FALSE, !.scar = FALSE]
    /\ UNCHANGED <<options, kind, tables>>

\* ~HashMap releases what storage_kind_ says is owned.
DestroyMap ==
    /\ Live /\ options.user = "cpp"
    /\ tables' = IF kind = "heap" THEN tables - 1 ELSE tables
    /\ kind' = "none" /\ table' = fresh(1) /\ size' = 0
    /\ UNCHANGED <<options, history>>

\* hashmap_box::deinit releases only a table that was malloc'ed by its init.
DeinitBox ==
    /\ Live /\ options.user = "box"
    /\ tables' = IF options.start = "heap" /\ kind = "heap" THEN tables - 1 ELSE tables
    /\ kind' = "none" /\ table' = fresh(1) /\ size' = 0
    /\ UNCHANGED <<options, history>>

MapNext ==
    \/ \E k \in Key : Remove(k) \/ \E v \in Value : PutInPlace(k, v) \/ PutAndGrow(k, v)
    \/ ClearMap \/ DestroyMap \/ DeinitBox

MapSpec == MapInit /\ [][MapNext]_mapVars

-----------------------------------------------------------------------------
(* Properties *)

HasEmpty == \E i \in DOMAIN table : table[i].state = "empty"

\* A probe can be trusted while it meets an empty slot before it runs out and no
\* tombstone was turned into an empty slot.
Trusted == open => HasEmpty /\ ~history.scar

\* The map is a map: every key once, size() the number of keys, get, put and
\* remove act on their own key and on no other, a failed call changes nothing,
\* and put tells the truth unless copy_fn refused an assignment.  Open addressing
\* keeps this as long as an empty slot ends every probe and no value copy failed
\* into a tombstone (open_probe, open_put).
ActsAsMap ==
    LET m    == foreach(table)
        has(k)  == \E e \in m : e[1] = k
        less(k) == {e \in m : e[1] # k}
    IN  Live /\ Trusted =>
          /\ Cardinality(m) = size
          /\ \A d, e \in m : d[1] = e[1] => d = e
          /\ \A k \in Key :
               /\ \A r \in get(table, size, k) :
                    IF has(k) THEN r.st = "ok" /\ <<k, r.val>> \in m ELSE r.st = "not_found"
               /\ \A r \in remove_in(table, size, k) :
                    /\ r.st = IF has(k) THEN "ok" ELSE "not_found"
                    /\ foreach(r.table) = less(k)
               /\ \A v \in Value : \A r \in put_in(table, size, k, v) :
                    foreach(r.table) = IF r.st = "ok" /\ ~r.ignored THEN less(k) \cup {<<k, v>>} ELSE m

\* Rehashing keeps every entry and leaves a table that can be trusted
\* (chain_rehash, open_rehash).
RehashKeepsEntries ==
    Live /\ Trusted /\ should_grow(table, size) =>
      foreach(rehash(table, Count(table) * 2)) = foreach(table)

\* As long as nothing is removed, a growable map never lacks an empty slot to
\* end a probe at: should_grow looks at the entry about to be added.
GrowthKeepsRoom == open /\ Live /\ options.growable /\ ~history.removed => HasEmpty

\* Every malloc'ed table is freed exactly once, except that hashmap_box never
\* frees the table a map on caller storage grew into (release_bucket_storage).
TablesReleased ==
    /\ tables = IF kind = "heap" THEN 1
              ELSE IF kind = "none" /\ options.user = "box" /\ options.start = "caller"
                      /\ ~options.arena /\ history.grew THEN 1
              ELSE 0
    /\ Live => kind \in {options.start, GrownKind}
=============================================================================
