------------------------------ MODULE LruCache ------------------------------
(***************************************************************************)
(* lrucache_map_core: entries of a fixed pool that are on free_list_, or   *)
(* in one hash chain and on the recency list at once.  hash_next threads   *)
(* both the chains and the free list; lru_prev and lru_next thread the     *)
(* recency list from lru_head_ (used last) to lru_tail_.  Every copy of a  *)
(* key or value may fail (runtime_element_policy).                         *)
(***************************************************************************)
EXTENDS Naturals, Sequences, FiniteSets, Pointers

CONSTANTS Key,         \* a set of naturals
          HashRange,   \* the hash of a key is its value modulo HashRange
          CacheValue,
          NoObject,    \* raw or destroyed memory
          Capacity,    \* entries of the pool
          Buckets      \* hash chains

ASSUME LruConstants ==
    /\ Key \subseteq Nat /\ HashRange \in Nat \ {0}
    /\ Capacity \in Nat \ {0} /\ Buckets \in Nat \ {0}
    /\ NoObject \notin CacheValue /\ NoObject \notin Key

VARIABLES cache,  \* the members of the core and the memory of the pool
          lost    \* entries an eviction took out and no list got back

lruVars == <<cache, lost>>

Entry == 1..Capacity
hash(k) == (k % HashRange) % Buckets

\* reset_free_list.
empty_cache ==
    [head |-> Nil, tail |-> Nil, size |-> 0, free |-> Capacity,
     lru_prev |-> [n \in Entry |-> Nil], lru_next |-> [n \in Entry |-> Nil],
     hash_next |-> [n \in Entry |-> n - 1],
     bucket |-> [b \in 0..(Buckets - 1) |-> Nil],
     key |-> [n \in Entry |-> NoObject], val |-> [n \in Entry |-> NoObject]]

Result(st, c)   == [st |-> st, core |-> c, entry |-> Nil, lost |-> {}]
Acquired(n, c)  == [Result("ok", c) EXCEPT !.entry = n]
Losing(st, c, n) == [Result(st, c) EXCEPT !.lost = {n}]

-----------------------------------------------------------------------------
(* Links *)

\* The entry of k in its chain and the one before it, Nil if there is none.
find_entry(c, k) ==
    LET at(i) == Follow(c.hash_next, c.bucket[hash(k)], i)
        hits  == {i \in 0..Capacity : at(i) # Nil /\ c.key[at(i)] = k}
        i     == CHOOSE j \in hits : \A h \in hits : j <= h
    IN  IF hits = {} THEN [entry |-> Nil, prev |-> Nil]
        ELSE [entry |-> at(i), prev |-> IF i = 0 THEN Nil ELSE at(i - 1)]

lru_unlink(c, n) ==
    LET p == c.lru_prev[n]
        s == c.lru_next[n]
        nexts == IF p = Nil THEN c.lru_next ELSE [c.lru_next EXCEPT ![p] = s]
        prevs == IF s = Nil THEN c.lru_prev ELSE [c.lru_prev EXCEPT ![s] = p]
    IN  [c EXCEPT !.lru_next = [nexts EXCEPT ![n] = Nil],
                  !.lru_prev = [prevs EXCEPT ![n] = Nil],
                  !.head = IF p = Nil THEN s ELSE @,
                  !.tail = IF s = Nil THEN p ELSE @]

lru_push_front(c, n) ==
    LET prevs == [c.lru_prev EXCEPT ![n] = Nil]
    IN  [c EXCEPT !.lru_prev = IF c.head = Nil THEN prevs ELSE [prevs EXCEPT ![c.head] = n],
                  !.lru_next[n] = c.head,
                  !.tail = IF c.head = Nil THEN n ELSE @,
                  !.head = n]

promote_Missing(c, n) == c
promote(c, n) == IF c.head = n THEN c ELSE lru_push_front(lru_unlink(c, n), n)

hash_unlink(c, b, n, prev) ==
    LET d == IF prev = Nil THEN [c EXCEPT !.bucket[b] = c.hash_next[n]]
                           ELSE [c EXCEPT !.hash_next[prev] = c.hash_next[n]]
    IN  [d EXCEPT !.hash_next[n] = Nil]

\* Destroyed objects and released entries are not read again.
destroy_entry(c, n) == [c EXCEPT !.key[n] = NoObject, !.val[n] = NoObject]

release_entry(c, n) ==
    [c EXCEPT !.lru_prev[n] = Nil, !.lru_next[n] = Nil, !.hash_next[n] = c.free, !.free = n]

acquire_entry(c) ==
    IF c.free = Nil THEN Acquired(Nil, c)
    ELSE Acquired(c.free, [c EXCEPT !.free = c.hash_next[c.free], !.hash_next[c.free] = Nil])

-----------------------------------------------------------------------------
(* The calls and their outcomes *)

\* The entry at lru_tail_ leaves both lists; its key finds its chain.
evicted_KeepsChain(c) ==
    [lru_unlink(destroy_entry(c, c.tail), c.tail) EXCEPT !.size = @ - 1]
evicted(c) ==
    LET n == c.tail
        f == find_entry(c, c.key[n])
        b == hash(c.key[n])
    IN  [hash_unlink(lru_unlink(destroy_entry(c, n), n), b, n, f.prev) EXCEPT !.size = @ - 1]

\* prepare_entry gives an entry it took from free_list_ back when a copy fails,
\* and forgets an entry it evicted.
prepare_entry(c, k, v) ==
    LET a == acquire_entry(c)
        n == IF a.entry # Nil THEN a.entry ELSE c.tail
        d == IF a.entry # Nil THEN a.core ELSE evicted(c)
        fail == IF a.entry # Nil THEN Result("copy", release_entry(d, n))
                                 ELSE Losing("copy", d, n)
    IN  IF a.entry = Nil /\ (c.size < Capacity \/ c.tail = Nil) THEN {Result("full", c)}
        ELSE {fail, Acquired(n, [d EXCEPT !.key[n] = k, !.val[n] = v])}

put(c, k, v) ==
    LET e == find_entry(c, k).entry
        Link(d, n) == [lru_push_front([d EXCEPT !.hash_next[n] = d.bucket[hash(k)],
                                                !.bucket[hash(k)] = n], n) EXCEPT !.size = @ + 1]
    IN  IF e # Nil
        THEN {Result("copy", c), Result("ok", promote([c EXCEPT !.val[e] = v], e))}
        ELSE { IF r.st = "ok" THEN Result("ok", Link(r.core, r.entry)) ELSE r
               : r \in prepare_entry(c, k, v) }

get(c, k) ==
    LET e == find_entry(c, k).entry
    IN  IF e = Nil THEN {Result("not_found", c)}
        ELSE {Result("copy", c), [Result("ok", promote(c, e)) EXCEPT !.entry = e]}

touch(c, k) ==
    LET e == find_entry(c, k).entry
    IN  IF e = Nil THEN {Result("not_found", c)} ELSE {Result("ok", promote(c, e))}

remove(c, k) ==
    LET f == find_entry(c, k)
        d == hash_unlink(lru_unlink(destroy_entry(c, f.entry), f.entry), hash(k), f.entry, f.prev)
    IN  IF f.entry = Nil THEN {Result("not_found", c)}
        ELSE {Result("ok", [release_entry(d, f.entry) EXCEPT !.size = @ - 1])}

\* clear takes the chains in order, each from its first entry: bucket is where its
\* walk has come to.
drop_first(c) ==
    LET b == CHOOSE x \in DOMAIN c.bucket : /\ c.bucket[x] # Nil
                                            /\ \A y \in DOMAIN c.bucket : c.bucket[y] # Nil => x <= y
        n == c.bucket[b]
    IN  release_entry(destroy_entry([c EXCEPT !.bucket[b] = c.hash_next[n]], n), n)

chains_cleared(c) ==
    LET after[i \in 0..Capacity] ==
          IF i = 0 THEN c
          ELSE IF \A b \in DOMAIN c.bucket : after[i - 1].bucket[b] = Nil THEN after[i - 1]
          ELSE drop_first(after[i - 1])
    IN  [after[Capacity] EXCEPT !.head = Nil, !.tail = Nil, !.size = 0]

clear(c) == {Result("ok", IF c.size = 0 THEN c ELSE chains_cleared(c))}

\* foreach_mru and foreach_lru.
foreach_mru(c) ==
    [i \in 1..c.size |-> LET n == Follow(c.lru_next, c.head, i - 1)
                         IN  IF n = Nil THEN <<NoObject, NoObject>> ELSE <<c.key[n], c.val[n]>>]
foreach_lru(c) ==
    [i \in 1..c.size |-> LET n == Follow(c.lru_prev, c.tail, i - 1)
                         IN  IF n = Nil THEN <<NoObject, NoObject>> ELSE <<c.key[n], c.val[n]>>]

-----------------------------------------------------------------------------
LruInit == cache = empty_cache /\ lost = {}

LruReturn(results) == \E r \in results : cache' = r.core /\ lost' = lost \cup r.lost

Put(k, v) == LruReturn(put(cache, k, v))
Get(k)    == LruReturn(get(cache, k))
Touch(k)  == LruReturn(touch(cache, k))
Remove(k) == LruReturn(remove(cache, k))
ClearCache == LruReturn(clear(cache))

LruNext == \/ \E k \in Key : Get(k) \/ Touch(k) \/ Remove(k) \/ \E v \in CacheValue : Put(k, v)
           \/ ClearCache

LruSpec == LruInit /\ [][LruNext]_lruVars

-----------------------------------------------------------------------------
(* Properties *)

Chained(b) == Reach(cache.hash_next, cache.bucket[b], Capacity)
Recent     == Reach(cache.lru_next, cache.head, Capacity)
Free       == Reach(cache.hash_next, cache.free, Capacity)

\* hash_next serves the chains and the free list, and they never run into each
\* other: an entry is free, or on the recency list and in the chain of its key,
\* or lost, and it is lost only when a copy failed after an eviction.
EntriesAccounted ==
    /\ \A n \in Recent : {b \in 0..(Buckets - 1) : n \in Chained(b)} = {hash(cache.key[n])}
    /\ UNION {Chained(b) : b \in 0..(Buckets - 1)} = Recent
    /\ Cardinality(Recent) = cache.size
    /\ Entry = Free \cup Recent \cup lost
    /\ Free \cap Recent = {} /\ lost \cap (Free \cup Recent) = {}

\* Where a key is in the entries a visitor sees; the entries without it; and with it moved
\* to the front.
At(s, k)   == {i \in 1..Len(s) : s[i][1] = k}
Less(s, k) == LET i == CHOOSE j \in At(s, k) : TRUE
              IN  IF At(s, k) = {} THEN s ELSE SubSeq(s, 1, i - 1) \o SubSeq(s, i + 1, Len(s))
Moved(s, k) == IF At(s, k) = {} THEN s ELSE <<s[CHOOSE i \in At(s, k) : TRUE]>> \o Less(s, k)

\* What a call of a given outcome shows afterwards.
Showing(results, good, bad) ==
    \A r \in results : foreach_mru(r.core) = IF r.st = "ok" THEN good ELSE bad

\* The cache is an LRU cache, as foreach_mru shows it: get, touch and put move
\* their key to the front, put on a full cache drops the key used last, a failed
\* copy leaves the order alone or costs that one key, and "full" is said only when
\* entries were lost.  foreach_lru shows the same keys backwards.
ActsAsLru ==
    LET s == foreach_mru(cache)
        room == IF Len(s) + Cardinality(lost) = Capacity THEN SubSeq(s, 1, Len(s) - 1) ELSE s
    IN  /\ foreach_lru(cache) = [i \in 1..Len(s) |-> s[Len(s) + 1 - i]]
        /\ \A k \in Key :
             /\ Cardinality(At(s, k)) <= 1
             /\ Showing(touch(cache, k), Moved(s, k), s)
             /\ Showing(get(cache, k), Moved(s, k), s)
             /\ \A r \in get(cache, k) : IF r.st = "ok" THEN cache.key[r.entry] = k
                                                        ELSE r.st = "copy" \/ At(s, k) = {}
             /\ Showing(remove(cache, k), Less(s, k), s)
             /\ \A v \in CacheValue :
                  /\ At(s, k) # {} => Showing(put(cache, k, v), <<<<k, v>>>> \o Less(s, k), s)
                  /\ At(s, k) = {} => \A r \in put(cache, k, v) :
                       CASE r.st = "ok"   -> foreach_mru(r.core) = <<<<k, v>>>> \o room
                         [] r.st = "copy" -> foreach_mru(r.core) = room
                         [] r.st = "full" -> lost # {} /\ r.core = cache
=============================================================================
