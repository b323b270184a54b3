----------------------------- MODULE ListsProofs -----------------------------
(***************************************************************************)
(* Proofs about Lists and LruCache, the two modules whose state is linked  *)
(* memory: for both list cores, every number of nodes, entries and chains, *)
(* fixed pool or heap, and every set of keys and values.                   *)
(*                                                                         *)
(* The lowest layer is about walks: Follow and Reach along links that form *)
(* a path.  For the lists, the middle layer says what the memory of a core *)
(* is like when its nodes are such a path and the rest is free (Listed),   *)
(* and that every way to link or unlink a node makes a longer or a shorter *)
(* path of it; the upper one sees only the sequence a core shows (Shows)   *)
(* and what a call answers of it (Answers).  For the cache, hash_next is   *)
(* the chains and the free list at once (Threaded), the recency list is    *)
(* one more path through the entries in chains (Cached), and the upper     *)
(* layer sees only the elements used last first (Lru).                     *)
(***************************************************************************)
EXTENDS Lists, LruCache, ModArith, FiniteSetTheorems, SequenceTheorems

-----------------------------------------------------------------------------
(***************************************************************************)
(* Walks                                                                   *)
(***************************************************************************)

\* The walk that starts at start meets p[0], ..., p[k - 1] and then the null pointer.
Walk(link, start, p, k) ==
    /\ k \in Nat /\ p \in [Nat -> Nat] /\ p[0] = start
    /\ \A i \in Nat : i < k => p[i] # Nil /\ link[p[i]] = p[i + 1]
    /\ \A i \in Nat : i >= k => p[i] = Nil

\* Its nodes, and that it meets none of them twice.
Nodes(p, k) == {p[i] : i \in 0..(k - 1)}
Distinct(p, k) == \A i, j \in Nat : i < k /\ j < k /\ p[i] = p[j] => i = j

\* The function the definition of Follow chooses.
Hops(link, start, steps) ==
    CHOOSE at : at = [k \in 0..steps |->
                        IF k = 0 THEN start ELSE IF at[k - 1] = Nil THEN Nil ELSE link[at[k - 1]]]

\* Follow walks along a walk, and stays at its end.
LEMMA FollowWalk ==
    ASSUME NEW link, NEW start, NEW p, NEW k, Walk(link, start, p, k), NEW steps \in Nat
    PROVE  Follow(link, start, steps) = p[steps]
<1>1. PICK g : g = [j \in 0..steps |-> p[j]]
    OBVIOUS
<1>2. ASSUME NEW j \in 0..steps
      PROVE  g[j] = IF j = 0 THEN start ELSE IF g[j - 1] = Nil THEN Nil ELSE link[g[j - 1]]
    <2>1. CASE j = 0
        BY <1>1, <1>2, <2>1 DEF Walk
    <2>2. CASE j # 0
        <3>1. j - 1 \in 0..steps /\ j - 1 \in Nat /\ (j - 1) + 1 = j /\ g[j] = p[j] /\ g[j - 1] = p[j - 1]
            BY <1>1, <2>2
        <3>2. CASE j - 1 < k
            BY <2>2, <3>1, <3>2 DEF Walk
        <3>3. CASE j - 1 >= k
            BY <2>2, <3>1, <3>3 DEF Walk
        <3>. QED  BY <3>1, <3>2, <3>3 DEF Walk
    <2>. QED  BY <2>1, <2>2
<1>3. g = [j \in 0..steps |-> IF j = 0 THEN start ELSE IF g[j - 1] = Nil THEN Nil ELSE link[g[j - 1]]]
    BY <1>1, <1>2
<1>4. PICK f : f = Hops(link, start, steps)
    OBVIOUS
<1>5. f = [j \in 0..steps |-> IF j = 0 THEN start ELSE IF f[j - 1] = Nil THEN Nil ELSE link[f[j - 1]]]
    <2>1. Hops(link, start, steps) =
            [j \in 0..steps |-> IF j = 0 THEN start
                                ELSE IF Hops(link, start, steps)[j - 1] = Nil THEN Nil
                                     ELSE link[Hops(link, start, steps)[j - 1]]]
        BY <1>3, Zenon DEF Hops
    <2>. QED  BY <1>4, <2>1
<1>6. DEFINE T == {j \in Nat : j <= steps => f[j] = p[j]}
<1>7. 0 \in T
    BY <1>5 DEF Walk
<1>8. ASSUME NEW j \in Nat, j \in T PROVE j + 1 \in T
    <2>1. SUFFICES ASSUME j + 1 <= steps PROVE f[j + 1] = p[j + 1]
        OBVIOUS
    <2>2. f[j] = p[j] /\ j + 1 \in 0..steps /\ j + 1 # 0 /\ (j + 1) - 1 = j
        BY <1>8, <2>1
    <2>3. f[j + 1] = IF f[j] = Nil THEN Nil ELSE link[f[j]]
        BY <1>5, <2>2
    <2>4. CASE j < k
        BY <2>2, <2>3, <2>4 DEF Walk
    <2>5. CASE j >= k
        BY <2>2, <2>3, <2>5 DEF Walk
    <2>. QED  BY <2>4, <2>5 DEF Walk
<1>9. steps \in T
    <2>. HIDE DEF T
    <2>. QED  BY <1>7, <1>8, SetInduction
<1>10. Follow(link, start, steps) = Hops(link, start, steps)[steps]
    BY Zenon DEF Follow, Hops
<1>. QED  BY <1>4, <1>9, <1>10

\* A walk without repetitions has as many nodes as its length says.
LEMMA WalkSize ==
    ASSUME NEW link, NEW start, NEW p, NEW k, Walk(link, start, p, k), Distinct(p, k)
    PROVE  /\ IsFiniteSet(Nodes(p, k))
           /\ Cardinality(Nodes(p, k)) = k
<1> DEFINE T == {n \in Nat : n <= k => IsFiniteSet(Nodes(p, n)) /\ Cardinality(Nodes(p, n)) = n}
<1>1. k \in Nat /\ p \in [Nat -> Nat]
    BY DEF Walk
<1>2. 0 \in T
    <2>1. Nodes(p, 0) = {}
        BY DEF Nodes
    <2>. QED  BY <2>1, FS_EmptySet
<1>3. ASSUME NEW n \in Nat, n \in T PROVE n + 1 \in T
    <2>1. SUFFICES ASSUME n + 1 <= k
                   PROVE  IsFiniteSet(Nodes(p, n + 1)) /\ Cardinality(Nodes(p, n + 1)) = n + 1
        OBVIOUS
    <2>2. IsFiniteSet(Nodes(p, n)) /\ Cardinality(Nodes(p, n)) = n
        BY <1>1, <1>3, <2>1
    <2>3. p[n] \notin Nodes(p, n)
        BY <1>1, <2>1 DEF Distinct, Nodes
    <2>4. Nodes(p, n + 1) = Nodes(p, n) \cup {p[n]}
        BY <1>1, <2>1 DEF Nodes
    <2>5. \A x : Cardinality(Nodes(p, n) \cup {x}) = IF x \in Nodes(p, n) THEN n ELSE n + 1
        BY <2>2, FS_AddElement
    <2>6. IsFiniteSet(Nodes(p, n) \cup {p[n]})
        BY <2>2, FS_AddElement
    <2>. QED  BY <2>3, <2>4, <2>5, <2>6
<1>4. k \in T
    <2>. HIDE DEF T
    <2>. QED  BY <1>1, <1>2, <1>3, SetInduction
<1>. QED  BY <1>1, <1>4

\* It is no longer than there are nodes, and the walk over all of them meets its nodes.
LEMMA WalkReach ==
    ASSUME NEW link, NEW start, NEW p, NEW k, Walk(link, start, p, k), Distinct(p, k),
           NEW steps \in Nat, steps >= k
    PROVE  /\ Reach(link, start, steps) = Nodes(p, k)
           /\ Cardinality(Reach(link, start, steps)) = k
<1>1. Reach(link, start, steps) = {p[i] : i \in 0..steps} \ {Nil}
    BY FollowWalk DEF Reach
<1>2. {p[i] : i \in 0..steps} \ {Nil} = Nodes(p, k)
    <2>1. ASSUME NEW i \in 0..steps, p[i] # Nil PROVE i \in 0..(k - 1)
        BY <2>1 DEF Walk
    <2>2. ASSUME NEW i \in 0..(k - 1) PROVE i \in 0..steps /\ p[i] # Nil
        BY <2>2 DEF Walk
    <2>. QED  BY <2>1, <2>2 DEF Nodes
<1>3. Cardinality(Nodes(p, k)) = k
    BY WalkSize
<1>. QED  BY <1>1, <1>2, <1>3

\* A walk over nodes of the lists.
Path(link, start, p, k) ==
    /\ k \in Nat /\ p \in [Nat -> Nat] /\ p[0] = start
    /\ \A i \in Nat : i < k => p[i] \in Node /\ link[p[i]] = p[i + 1]
    /\ \A i \in Nat : i >= k => p[i] = Nil

\* A node is not the null pointer.
LEMMA NodeNotNil == Nil \notin Node /\ Node \subseteq Nat
BY ListConstants DEF Node, Nil

\* So what is known of walks holds of paths.
LEMMA PathWalks ==
    ASSUME NEW link, NEW start, NEW p, NEW k, Path(link, start, p, k)
    PROVE  Walk(link, start, p, k)
BY NodeNotNil DEF Path, Walk

LEMMA FollowPath ==
    ASSUME NEW link, NEW start, NEW p, NEW k, Path(link, start, p, k), NEW steps \in Nat
    PROVE  Follow(link, start, steps) = p[steps]
BY PathWalks, FollowWalk

LEMMA PathSize ==
    ASSUME NEW link, NEW start, NEW p, NEW k, Path(link, start, p, k), Distinct(p, k)
    PROVE  IsFiniteSet(Nodes(p, k)) /\ Cardinality(Nodes(p, k)) = k
BY PathWalks, WalkSize

LEMMA PathReach ==
    ASSUME NEW link, NEW start, NEW p, NEW k, Path(link, start, p, k), Distinct(p, k),
           NEW steps \in Nat, steps >= k
    PROVE  /\ Reach(link, start, steps) = Nodes(p, k)
           /\ Cardinality(Reach(link, start, steps)) = k
BY PathWalks, WalkReach

\* The nodes are finitely many, so no path is longer than their number.
LEMMA PathShort ==
    ASSUME NEW link, NEW start, NEW p, NEW k, Path(link, start, p, k), Distinct(p, k)
    PROVE  k <= Cardinality(Node) /\ Cardinality(Node) \in Nat
           /\ (fixed => Cardinality(Node) = NodeCapacity)
<1>1. IsFiniteSet(Node) /\ Cardinality(Node) \in Nat /\ (fixed => Cardinality(Node) = NodeCapacity)
    <2>1. ASSUME NEW n \in Nat PROVE IsFiniteSet(1..n) /\ Cardinality(1..n) = n
        BY FS_Interval
    <2>. QED  BY <2>1, ListConstants DEF Node
<1>2. Nodes(p, k) \subseteq Node
    BY DEF Path, Nodes
<1>3. Cardinality(Nodes(p, k)) <= Cardinality(Node)
    BY <1>1, <1>2, FS_Subset
<1>4. Cardinality(Nodes(p, k)) = k
    BY PathSize
<1>. QED  BY <1>1, <1>3, <1>4
-----------------------------------------------------------------------------
(***************************************************************************)
(* A list and its free nodes                                               *)
(***************************************************************************)

\* The members of a core, with their types.
Memory(c) ==
    /\ c = [head |-> c.head, tail |-> c.tail, size |-> c.size, next |-> c.next,
            prev |-> c.prev, free |-> c.free, data |-> c.data, heap |-> c.heap]
    /\ c.next \in [Node -> Nat] /\ c.prev \in [Node -> Nat]
    /\ c.data \in [Node -> Value \cup {NoItem}] /\ c.heap \subseteq Node

\* The node before position i of a path.
Before(p, i) == IF i = 0 THEN Nil ELSE p[i - 1]

\* The list is p[0], ..., p[k - 1], forwards and, in dlist_core, backwards.
Linked(c, k, p) ==
    /\ Path(c.next, c.head, p, k) /\ Distinct(p, k) /\ c.tail = Before(p, k)
    /\ \A i \in Nat : i < k => c.data[p[i]] \in Value
    /\ doubly => \A i \in Nat : i < k => c.prev[p[i]] = Before(p, i)

\* The other nodes are on free_list_ or not malloc'ed, except one, loose: the node
\* that a call has taken from there or from the list and not put anywhere yet.
Unused(c, k, p, q, m, loose) ==
    /\ loose \in Node => \A i \in Nat : i < k => p[i] # loose
    /\ fixed =>
         /\ Path(c.next, c.free, q, m) /\ Distinct(q, m)
         /\ \A i, j \in Nat : i < k /\ j < m => p[i] # q[j]
         /\ \A j \in Nat : j < m => q[j] # loose
         /\ \A n \in Node : \/ n = loose \/ \E i \in Nat : i < k /\ n = p[i]
                            \/ \E j \in Nat : j < m /\ n = q[j]
    /\ ~fixed => \A n \in Node : n \in c.heap <=> n = loose \/ \E i \in Nat : i < k /\ n = p[i]

\* The core c is a list of the k nodes of p; q and m are the free list.
Listed(c, k, p, q, m, loose) == Memory(c) /\ Linked(c, k, p) /\ Unused(c, k, p, q, m, loose)

\* release_node puts the loose node back.
LEMMA ReleaseListed ==
    ASSUME NEW c, NEW k, NEW p, NEW q, NEW m, NEW n \in Node, Listed(c, k, p, q, m, n),
           NEW d, d = release_node(c, n)
    PROVE  /\ \E q2, m2 : Listed(d, k, p, q2, m2, Nil)
           /\ d.size = c.size /\ \A x \in Node : x # n => d.data[x] = c.data[x]
<1>1. PICK nx, pv, dt, fr, hp :
        /\ d = [head |-> c.head, tail |-> c.tail, size |-> c.size, next |-> nx,
                prev |-> pv, free |-> fr, data |-> dt, heap |-> hp]
        /\ nx = [c.next EXCEPT ![n] = IF fixed THEN c.free ELSE Nil]
        /\ pv = [c.prev EXCEPT ![n] = Nil] /\ dt = [c.data EXCEPT ![n] = NoItem]
        /\ fr = (IF fixed THEN n ELSE c.free) /\ hp = (IF fixed THEN c.heap ELSE c.heap \ {n})
    BY ZenonT(40) DEF release_node, Listed, Memory
<1>2. k \in Nat /\ p \in [Nat -> Nat] /\ Memory(c) /\ n # Nil
      /\ (\A i \in Nat : i < k => p[i] \in Node /\ p[i] # n)
    BY NodeNotNil DEF Listed, Linked, Path, Unused
<1>3. fixed => /\ m \in Nat /\ q \in [Nat -> Nat] /\ c.free = q[0] /\ c.free \in Nat
               /\ \A j \in Nat : j < m => q[j] \in Node /\ q[j] # n
    BY DEF Listed, Unused, Path
<1>4. d.next = nx /\ d.prev = pv /\ d.data = dt /\ d.free = fr /\ d.heap = hp /\ d.head = c.head
      /\ d.tail = c.tail /\ d.size = c.size
    BY <1>1
<1>5. /\ nx \in [Node -> Nat] /\ pv \in [Node -> Nat] /\ dt \in [Node -> Value \cup {NoItem}]
      /\ hp \subseteq Node
      /\ nx[n] = (IF fixed THEN c.free ELSE Nil)
      /\ \A x \in Node : x # n => nx[x] = c.next[x] /\ pv[x] = c.prev[x] /\ dt[x] = c.data[x]
    BY <1>1, <1>2, <1>3 DEF Memory, Nil
<1>6. Memory(d)
    BY <1>1, <1>4, <1>5 DEF Memory
<1>7. Linked(d, k, p)
    BY <1>2, <1>4, <1>5, ZenonT(40) DEF Listed, Linked, Path
<1>8. CASE fixed = TRUE
    <2>1. PICK r : r = [i \in Nat |-> IF i = 0 THEN n ELSE q[i - 1]]
        OBVIOUS
    <2>2. r \in [Nat -> Nat] /\ r[0] = n /\ \A i \in Nat : i # 0 => r[i] = q[i - 1]
        BY <1>3, <1>8, <2>1, NodeNotNil
    <2>3. Path(nx, n, r, m + 1)
        <3>1. ASSUME NEW i \in Nat, i < m + 1 PROVE r[i] \in Node /\ nx[r[i]] = r[i + 1]
            <4>1. CASE i = 0
                BY <1>3, <1>5, <1>8, <2>2, <4>1
            <4>2. CASE i # 0
                <5>1. i - 1 \in Nat /\ i - 1 < m /\ (i - 1) + 1 = i /\ (i + 1) - 1 = i /\ i + 1 # 0
                    BY <1>3, <1>8, <3>1, <4>2
                <5>2. c.next[q[i - 1]] = q[i]
                    BY <1>8, <5>1 DEF Listed, Unused, Path
                <5>. QED  BY <1>3, <1>5, <1>8, <2>2, <4>2, <5>1, <5>2
            <4>. QED  BY <4>1, <4>2
        <3>2. ASSUME NEW i \in Nat, i >= m + 1 PROVE r[i] = Nil
            <4>1. i # 0 /\ i - 1 \in Nat /\ i - 1 >= m
                BY <1>3, <1>8, <3>2
            <4>. QED  BY <1>8, <2>2, <4>1 DEF Listed, Unused, Path
        <3>. QED  BY <1>3, <1>8, <2>2, <3>1, <3>2 DEF Path
    <2>4. ASSUME NEW i \in Nat, i < m + 1 
          PROVE  \/ r[i] = n /\ i = 0
                 \/ i # 0 /\ i - 1 \in Nat /\ i - 1 < m /\ r[i] = q[i - 1]
        BY <1>3, <1>8, <2>2, <2>4
    <2>5. Distinct(r, m + 1)
        <3>1. SUFFICES ASSUME NEW i \in Nat, NEW j \in Nat, i < m + 1, j < m + 1, r[i] = r[j] PROVE i = j
            BY DEF Distinct
        <3>2. CASE i = 0 \/ j = 0
            BY <1>3, <1>8, <2>4, <3>1, <3>2
        <3>3. CASE i # 0 /\ j # 0
            <4>1. i - 1 = j - 1
                BY <1>8, <2>4, <3>1, <3>3 DEF Listed, Unused, Distinct
            <4>. QED  BY <4>1
        <3>. QED  BY <3>2, <3>3
    <2>6. \A i, j \in Nat : i < k /\ j < m + 1 => p[i] # r[j]
        BY <1>2, <1>8, <2>4 DEF Listed, Unused
    <2>7. ASSUME NEW x \in Node
          PROVE  (\E i \in Nat : i < k /\ x = p[i]) \/ \E j \in Nat : j < m + 1 /\ x = r[j]
        <3>1. CASE x = n
            BY <1>3, <1>8, <2>2, <3>1
        <3>2. ASSUME NEW j \in Nat, j < m, x = q[j] PROVE j + 1 \in Nat /\ j + 1 < m + 1 /\ x = r[j + 1]
            BY <1>3, <1>8, <2>2, <3>2
        <3>. QED  BY <1>8, <3>1, <3>2 DEF Listed, Unused
    <2>8. \A j \in Nat : j < m + 1 => r[j] # Nil
        BY <2>3, NodeNotNil DEF Path
    <2>9. Unused(d, k, p, r, m + 1, Nil)
        BY <1>4, <1>1, <1>8, <2>3, <2>5, <2>6, <2>7, <2>8, NodeNotNil DEF Unused
    <2>. QED  BY <1>4, <1>5, <1>6, <1>7, <2>9 DEF Listed
<1>9. CASE fixed # TRUE
    <2>1. Unused(d, k, p, q, m, Nil)
        BY <1>1, <1>2, <1>4, <1>9, NodeNotNil DEF Unused, Listed
    <2>. QED  BY <1>4, <1>5, <1>6, <1>7, <2>1 DEF Listed
<1>. QED  BY <1>8, <1>9

\* A node that acquire_node gives out is loose; the list is what it was.
LEMMA AcquireListed ==
    ASSUME NEW c, NEW k, NEW p, NEW q, NEW m, Listed(c, k, p, q, m, Nil),
           NEW r \in acquire_node(c)
    PROVE  \/ r.st # "ok" /\ r = Fail(r.st, c)
           \/ \E n \in Node : \E d, q2, m2 :
                /\ r = Made(n, d) /\ Listed(d, k, p, q2, m2, n)
                /\ d.size = c.size /\ d.data = c.data
<1>1. CASE r = Fail("full", c) \/ r = Fail("oom", c)
    BY <1>1 DEF Fail
<1>2. k \in Nat /\ p \in [Nat -> Nat] /\ Memory(c) /\ (\A i \in Nat : i < k => p[i] \in Node)
    BY DEF Listed, Linked, Path
<1>3. CASE fixed = TRUE /\ c.free # Nil
    <2>1. PICK n, nx, pv, d :
            /\ n = c.free /\ nx = [c.next EXCEPT ![n] = Nil] /\ pv = [c.prev EXCEPT ![n] = Nil]
            /\ d = [c EXCEPT !.free = c.next[c.free], !.next[c.free] = Nil, !.prev[c.free] = Nil]
        OBVIOUS
    <2>2. d = [head |-> c.head, tail |-> c.tail, size |-> c.size, next |-> nx,
               prev |-> pv, free |-> c.next[n], data |-> c.data, heap |-> c.heap]
        BY <1>2, <2>1 DEF Memory
    <2>3. m \in Nat /\ q \in [Nat -> Nat] /\ q[0] = n
          /\ (\A j \in Nat : j < m => q[j] \in Node /\ c.next[q[j]] = q[j + 1])
          /\ (\A j \in Nat : j >= m => q[j] = Nil)
        BY <1>3, <2>1 DEF Listed, Unused, Path
    <2>4. m # 0 /\ n \in Node /\ c.next[n] = q[1] /\ n # Nil
        <3>1. m # 0
            BY <1>3, <2>1, <2>3
        <3>2. 0 < m /\ 0 + 1 = 1
            BY <2>3, <3>1
        <3>. QED  BY <1>3, <2>1, <2>3, <3>1, <3>2
    <2>5. PICK t : t = [j \in Nat |-> q[j + 1]]
        OBVIOUS
    <2>6. t \in [Nat -> Nat] /\ \A j \in Nat : t[j] = q[j + 1]
        BY <2>3, <2>5
    <2>7. \A i \in Nat : i < k => p[i] # n
        BY <1>3, <2>3, <2>4 DEF Listed, Unused
    <2>8. /\ nx \in [Node -> Nat] /\ pv \in [Node -> Nat]
          /\ \A x \in Node : x # n => nx[x] = c.next[x] /\ pv[x] = c.prev[x]
        BY <1>2, <2>1, <2>4 DEF Memory, Nil
    <2>9. d.next = nx /\ d.prev = pv /\ d.data = c.data /\ d.free = q[1] /\ d.heap = c.heap
          /\ d.head = c.head /\ d.tail = c.tail /\ d.size = c.size
        BY <2>2, <2>4
    <2>10. Memory(d)
        BY <1>2, <2>2, <2>8 DEF Memory
    <2>11. Linked(d, k, p)
        BY <1>2, <2>7, <2>8, <2>9 DEF Listed, Linked, Path
    <2>12. ASSUME NEW j \in Nat, j < m - 1
           PROVE  j + 1 \in Nat /\ j + 1 < m /\ t[j] = q[j + 1] /\ t[j] # n
        <3>1. j + 1 \in Nat /\ j + 1 < m /\ t[j] = q[j + 1] /\ 0 < m /\ j + 1 # 0
            BY <2>3, <2>6, <2>12
        <3>2. q[j + 1] # q[0]
            BY <1>3, <3>1 DEF Listed, Unused, Distinct
        <3>. QED  BY <2>3, <3>1, <3>2
    <2>13. Path(nx, q[1], t, m - 1)
        <3>1. ASSUME NEW j \in Nat, j < m - 1 PROVE t[j] \in Node /\ nx[t[j]] = t[j + 1]
            <4>1. j + 1 \in Nat /\ j + 1 < m /\ t[j] = q[j + 1] /\ t[j] # n
                BY <2>12, <3>1
            <4>2. q[j + 1] \in Node /\ c.next[q[j + 1]] = q[(j + 1) + 1]
                BY ONLY <2>3, <4>1
            <4>3. nx[t[j]] = c.next[t[j]]
                BY ONLY <2>8, <4>1, <4>2
            <4>4. t[j + 1] = q[(j + 1) + 1]
                BY ONLY <2>6, <4>1
            <4>. QED  BY ONLY <4>1, <4>2, <4>3, <4>4
        <3>2. ASSUME NEW j \in Nat, j >= m - 1 PROVE t[j] = Nil
            BY <2>3, <2>6, <3>2
        <3>3. t[0] = q[1] /\ m - 1 \in Nat
            BY <2>3, <2>4, <2>6
        <3>. QED  BY <2>6, <3>1, <3>2, <3>3 DEF Path
    <2>14. Distinct(t, m - 1)
        <3>1. SUFFICES ASSUME NEW i \in Nat, NEW j \in Nat, i < m - 1, j < m - 1, t[i] = t[j] PROVE i = j
            BY DEF Distinct
        <3>2. i + 1 = j + 1
            BY <1>3, <2>12, <3>1 DEF Listed, Unused, Distinct
        <3>. QED  BY <3>2
    <2>15. \A i, j \in Nat : i < k /\ j < m - 1 => p[i] # t[j]
        BY <1>3, <2>12 DEF Listed, Unused
    <2>16. ASSUME NEW x \in Node
           PROVE  \/ x = n \/ \E i \in Nat : i < k /\ x = p[i]
                  \/ \E j \in Nat : j < m - 1 /\ x = t[j]
        <3>1. ASSUME NEW j \in Nat, j < m, x = q[j], j # 0
              PROVE  j - 1 \in Nat /\ j - 1 < m - 1 /\ x = t[j - 1]
            BY <2>3, <2>6, <3>1
        <3>2. x # Nil
            BY NodeNotNil
        <3>. QED  BY <1>3, <2>3, <3>1, <3>2 DEF Listed, Unused
    <2>17. Unused(d, k, p, t, m - 1, n)
        BY <1>3, <2>7, <2>9, <2>12, <2>13, <2>14, <2>15, <2>16 DEF Unused
    <2>18. Listed(d, k, p, t, m - 1, n)
        BY <2>10, <2>11, <2>17 DEF Listed
    <2>19. r = Made(n, d)
        BY <1>3, <2>1 DEF acquire_node
    <2>. QED  BY <2>4, <2>9, <2>18, <2>19
<1>4. ASSUME fixed # TRUE, NEW n \in FreshNode(c), r = Made(n, [c EXCEPT !.heap = @ \cup {n}])
      PROVE  \E d : /\ r = Made(n, d) /\ Listed(d, k, p, q, m, n) /\ n \in Node
                    /\ d.size = c.size /\ d.data = c.data
    <2>1. PICK d : d = [c EXCEPT !.heap = @ \cup {n}]
        OBVIOUS
    <2>2. d = [head |-> c.head, tail |-> c.tail, size |-> c.size, next |-> c.next,
               prev |-> c.prev, free |-> c.free, data |-> c.data, heap |-> c.heap \cup {n}]
        BY <1>2, <2>1 DEF Memory
    <2>3. n \in Node /\ n \notin c.heap
        BY <1>4 DEF FreshNode
    <2>4. Memory(d)
        BY <1>2, <2>2, <2>3 DEF Memory
    <2>5. Linked(d, k, p)
        BY <2>2 DEF Listed, Linked
    <2>6. Unused(d, k, p, q, m, n)
        <3>1. \A x \in Node : x \in c.heap <=> \E i \in Nat : i < k /\ x = p[i]
            BY <1>4, NodeNotNil DEF Listed, Unused
        <3>2. \A x \in Node : x \in d.heap <=> x = n \/ x \in c.heap
            BY <2>2
        <3>. QED  BY <1>2, <1>4, <2>3, <3>1, <3>2 DEF Unused
    <2>7. Listed(d, k, p, q, m, n)
        BY <2>4, <2>5, <2>6 DEF Listed
    <2>8. r = Made(n, d) /\ d.size = c.size /\ d.data = c.data
        BY <1>4, <2>1, <2>2
    <2>. QED  BY <2>3, <2>7, <2>8
<1>. QED  BY <1>1, <1>3, <1>4 DEF acquire_node

-----------------------------------------------------------------------------
(***************************************************************************)
(* Insertion and removal at a position                                     *)
(***************************************************************************)

\* The path with a node put before position i, and without the node at position i.
With(p, i, n) == [j \in Nat |-> IF j < i THEN p[j] ELSE IF j = i THEN n ELSE p[j - 1]]
Without(p, i) == [j \in Nat |-> IF j < i THEN p[j] ELSE p[j + 1]]

\* What the links of u must be when the loose node n of c enters the list at i.
Enters(c, k, p, i, n, u) ==
    /\ Memory(u) /\ u.free = c.free /\ u.heap = c.heap /\ u.size = c.size /\ u.data = c.data
    /\ \A x \in Node : u.next[x] = IF x = n THEN p[i]
                                   ELSE IF i # 0 /\ x = p[i - 1] THEN n ELSE c.next[x]
    /\ doubly => \A x \in Node : u.prev[x] = IF x = n THEN Before(p, i)
                                             ELSE IF i < k /\ x = p[i] THEN n ELSE c.prev[x]
    /\ u.head = (IF i = 0 THEN n ELSE c.head)
    /\ u.tail = (IF i = k THEN n ELSE c.tail)

\* With those links the list has one node more.
LEMMA EntersListed ==
    ASSUME NEW c, NEW k, NEW p, NEW q, NEW m, NEW n \in Node, Listed(c, k, p, q, m, n),
           NEW i \in 0..k, NEW u, Enters(c, k, p, i, n, u), c.data[n] \in Value,
           NEW w, w = With(p, i, n)
    PROVE  Listed(u, k + 1, w, q, m, Nil)
<1>1. /\ k \in Nat /\ p \in [Nat -> Nat] /\ i \in Nat /\ i <= k /\ Memory(u) /\ n \in Nat /\ n # Nil
      /\ p[0] = c.head
    BY NodeNotNil DEF Listed, Linked, Path, Enters
<1>2. /\ \A j \in Nat : j < k => p[j] \in Node /\ c.next[p[j]] = p[j + 1] /\ p[j] # n /\ p[j] # Nil
      /\ \A j \in Nat : j >= k => p[j] = Nil
    BY NodeNotNil DEF Listed, Linked, Path, Unused
<1>3. /\ w \in [Nat -> Nat] /\ w[i] = n
      /\ \A j \in Nat : j < i => w[j] = p[j]
      /\ \A j \in Nat : j > i => w[j] = p[j - 1]
    BY <1>1 DEF With
<1>4. \A a, b \in Nat : a < k /\ b < k /\ p[a] = p[b] => a = b
    BY DEF Listed, Linked, Distinct
<1>5. Path(u.next, u.head, w, k + 1)
    <2>1. w[0] = u.head
        BY <1>1, <1>3 DEF Enters
    <2>2. ASSUME NEW j \in Nat, j < k + 1 PROVE w[j] \in Node /\ u.next[w[j]] = w[j + 1]
        <3>1. CASE j < i
            <4>1. j < k /\ w[j] = p[j] /\ p[j] \in Node /\ p[j] # n /\ c.next[p[j]] = p[j + 1]
                BY <1>1, <1>2, <1>3, <3>1
            <4>2. CASE j + 1 = i
                <5>1. i # 0 /\ i - 1 = j
                    BY <1>1, <4>2
                <5>. QED  BY <1>3, <4>1, <4>2, <5>1 DEF Enters
            <4>3. CASE j + 1 # i
                <5>1. j + 1 < i /\ (i # 0 => i - 1 \in Nat /\ i - 1 < k /\ i - 1 # j)
                    BY <1>1, <3>1, <4>3
                <5>2. i # 0 => p[j] # p[i - 1]
                    BY <1>4, <4>1, <5>1
                <5>. QED  BY <1>3, <4>1, <5>1, <5>2 DEF Enters
            <4>. QED  BY <4>2, <4>3
        <3>2. CASE j = i
            <4>1. w[j] = n /\ w[j + 1] = p[i]
                BY <1>1, <1>3, <3>2
            <4>. QED  BY <4>1 DEF Enters
        <3>3. CASE j > i
            <4>1. j - 1 \in Nat /\ j - 1 < k /\ (j - 1) + 1 = j /\ j + 1 > i /\ (j + 1) - 1 = j
                  /\ j - 1 # i - 1 /\ (i # 0 => i - 1 \in Nat /\ i - 1 < k)
                BY <1>1, <2>2, <3>3
            <4>2. w[j] = p[j - 1] /\ w[j + 1] = p[j] /\ p[j - 1] \in Node /\ p[j - 1] # n /\ c.next[p[j - 1]] = p[j]
                BY <1>2, <1>3, <3>3, <4>1
            <4>3. i # 0 => p[j - 1] # p[i - 1]
                BY <1>4, <4>1
            <4>. QED  BY <4>2, <4>3 DEF Enters
        <3>. QED  BY <1>1, <3>1, <3>2, <3>3
    <2>3. ASSUME NEW j \in Nat, j >= k + 1 PROVE w[j] = Nil
        <3>1. j > i /\ j - 1 \in Nat /\ j - 1 >= k
            BY <1>1, <2>3
        <3>. QED  BY <1>2, <1>3, <3>1
    <2>. QED  BY <1>1, <1>3, <2>1, <2>2, <2>3 DEF Path
<1>6. ASSUME NEW j \in Nat, j < k + 1
      PROVE  \/ j = i /\ w[j] = n
             \/ \E a \in Nat : a < k /\ w[j] = p[a] /\ ((j < i /\ a = j) \/ (j > i /\ a = j - 1))
    BY <1>1, <1>3, <1>6
<1>7. Distinct(w, k + 1)
    <2>1. SUFFICES ASSUME NEW a \in Nat, NEW b \in Nat, a < k + 1, b < k + 1, w[a] = w[b] PROVE a = b
        BY DEF Distinct
    <2>2. CASE a = i \/ b = i
        BY <1>2, <1>6, <2>1, <2>2
    <2>3. CASE a # i /\ b # i
        <3>1. PICK x \in Nat : x < k /\ w[a] = p[x] /\ ((a < i /\ x = a) \/ (a > i /\ x = a - 1))
            BY <1>6, <2>1, <2>3
        <3>2. PICK y \in Nat : y < k /\ w[b] = p[y] /\ ((b < i /\ y = b) \/ (b > i /\ y = b - 1))
            BY <1>6, <2>1, <2>3
        <3>3. x = y
            BY <1>4, <2>1, <3>1, <3>2
        <3>. QED  BY <1>1, <3>1, <3>2, <3>3
    <2>. QED  BY <2>2, <2>3
<1>8. u.tail = Before(w, k + 1)
    <2>1. (k + 1) - 1 = k /\ k + 1 # 0
        BY <1>1
    <2>2. CASE i = k
        BY <1>3, <2>1, <2>2 DEF Enters, Before
    <2>3. CASE i # k
        <3>1. k > i /\ k # 0
            BY <1>1, <2>3
        <3>. QED  BY <1>1, <1>3, <2>1, <2>3, <3>1 DEF Enters, Before, Listed, Linked
    <2>. QED  BY <2>2, <2>3
<1>9. \A j \in Nat : j < k + 1 => u.data[w[j]] \in Value
    BY <1>6 DEF Enters, Listed, Linked
<1>10. ASSUME doubly, NEW j \in Nat, j < k + 1 PROVE u.prev[w[j]] = Before(w, j)
    <2>1. CASE j = i
        <3>1. Before(w, i) = Before(p, i)
            BY <1>1, <1>3 DEF Before
        <3>. QED  BY <1>3, <1>10, <2>1, <3>1 DEF Enters
    <2>2. CASE j < i
        <3>1. j < k /\ w[j] = p[j] /\ p[j] \in Node /\ p[j] # n /\ Before(w, j) = Before(p, j)
            BY <1>1, <1>2, <1>3, <2>2 DEF Before
        <3>2. i < k => p[j] # p[i]
            BY <1>1, <1>4, <2>2, <3>1
        <3>3. c.prev[p[j]] = Before(p, j)
            BY <1>10, <3>1 DEF Listed, Linked
        <3>. QED  BY <1>10, <3>1, <3>2, <3>3 DEF Enters
    <2>3. CASE j = i + 1
        <3>1. i < k /\ w[j] = p[i] /\ p[i] \in Node /\ p[i] # n /\ Before(w, j) = n
            BY <1>1, <1>2, <1>3, <1>10, <2>3 DEF Before
        <3>. QED  BY <1>10, <3>1 DEF Enters
    <2>4. CASE j > i + 1
        <3>1. /\ j - 1 \in Nat /\ j - 1 < k /\ j - 1 > i /\ j - 1 # 0 /\ j # 0
              /\ w[j] = p[j - 1] /\ w[j - 1] = p[(j - 1) - 1]
            BY <1>1, <1>3, <1>10, <2>4
        <3>2. p[j - 1] \in Node /\ p[j - 1] # n /\ Before(w, j) = Before(p, j - 1)
            BY <1>2, <3>1 DEF Before
        <3>3. i < k => p[j - 1] # p[i]
            BY <1>1, <1>4, <3>1
        <3>4. c.prev[p[j - 1]] = Before(p, j - 1)
            BY <1>10, <3>1 DEF Listed, Linked
        <3>. QED  BY <1>10, <3>1, <3>2, <3>3, <3>4 DEF Enters
    <2>. QED  BY <1>1, <2>1, <2>2, <2>3, <2>4
<1>11. Linked(u, k + 1, w)
    BY <1>5, <1>7, <1>8, <1>9, <1>10 DEF Linked
<1>12. \A x : (\E j \in Nat : j < k + 1 /\ x = w[j]) <=> x = n \/ \E j \in Nat : j < k /\ x = p[j]
    <2>1. ASSUME NEW j \in Nat, j < k PROVE \E a \in Nat : a < k + 1 /\ p[j] = w[a]
        <3>1. CASE j < i
            BY <1>1, <1>3, <2>1, <3>1
        <3>2. CASE j >= i
            <4>1. j + 1 \in Nat /\ j + 1 < k + 1 /\ j + 1 > i /\ (j + 1) - 1 = j
                BY <1>1, <2>1, <3>2
            <4>. QED  BY <1>3, <4>1
        <3>. QED  BY <1>1, <3>1, <3>2
    <2>2. i < k + 1
        BY <1>1
    <2>. QED  BY <1>1, <1>3, <1>6, <2>1, <2>2
<1>13. Unused(u, k + 1, w, q, m, Nil)
    <2>1. CASE fixed = TRUE
        <3>1. Path(c.next, c.free, q, m) /\ Distinct(q, m) /\ (\A j \in Nat : j < m => q[j] # n)
              /\ \A a, j \in Nat : a < k /\ j < m => p[a] # q[j]
            BY <2>1 DEF Listed, Unused
        <3>2. \A j \in Nat : j < m => q[j] \in Node /\ u.next[q[j]] = c.next[q[j]]
            <4>1. ASSUME NEW j \in Nat, j < m PROVE q[j] \in Node /\ u.next[q[j]] = c.next[q[j]]
                <5>1. q[j] \in Node /\ q[j] # n
                    BY <3>1, <4>1 DEF Path
                <5>2. i # 0 => q[j] # p[i - 1]
                    BY <1>1, <3>1, <4>1
                <5>. QED  BY <5>1, <5>2 DEF Enters
            <4>. QED  BY <4>1
        <3>3. Path(u.next, u.free, q, m)
            BY <3>1, <3>2 DEF Path, Enters
        <3>4. \A a, j \in Nat : a < k + 1 /\ j < m => w[a] # q[j]
            BY <1>6, <3>1
        <3>5. \A x \in Node : \/ \E a \in Nat : a < k + 1 /\ x = w[a]
                              \/ \E j \in Nat : j < m /\ x = q[j]
            BY <1>12, <2>1 DEF Listed, Unused
        <3>. QED  BY <2>1, <3>1, <3>2, <3>3, <3>4, <3>5, NodeNotNil DEF Unused
    <2>2. CASE fixed # TRUE
        <3>1. \A x \in Node : x \in c.heap <=> x = n \/ \E a \in Nat : a < k /\ x = p[a]
            BY <2>2 DEF Listed, Unused
        <3>2. u.heap = c.heap
            BY DEF Enters
        <3>3. \A x \in Node : x \in u.heap <=> x = Nil \/ \E a \in Nat : a < k + 1 /\ x = w[a]
            BY ONLY <1>12, <3>1, <3>2, NodeNotNil
        <3>. QED  BY ONLY <2>2, <3>3, NodeNotNil DEF Unused
    <2>. QED  BY <2>1, <2>2
<1>. QED  BY <1>1, <1>11, <1>13 DEF Listed

\* What the links of u must be when the node at position i of c has left the list.
Leaves(c, k, p, i, u) ==
    /\ Memory(u) /\ u.free = c.free /\ u.heap = c.heap /\ u.size = c.size
    /\ \A x \in Node : x # p[i] =>
         /\ u.next[x] = IF i # 0 /\ x = p[i - 1] THEN p[i + 1] ELSE c.next[x]
         /\ doubly => u.prev[x] = IF i + 1 < k /\ x = p[i + 1] THEN Before(p, i) ELSE c.prev[x]
         /\ u.data[x] = c.data[x]
    /\ u.head = (IF i = 0 THEN p[1] ELSE c.head)
    /\ u.tail = (IF i + 1 = k THEN Before(p, i) ELSE c.tail)

\* With those links the list has one node less, and that node is loose.
LEMMA LeavesListed ==
    ASSUME NEW c, NEW k, NEW p, NEW q, NEW m, Listed(c, k, p, q, m, Nil),
           NEW i \in Nat, i < k, NEW u, Leaves(c, k, p, i, u),
           NEW w, w = Without(p, i)
    PROVE  Listed(u, k - 1, w, q, m, p[i])
<1>1. /\ k \in Nat /\ p \in [Nat -> Nat] /\ k - 1 \in Nat /\ i <= k - 1 /\ Memory(u)
      /\ p[0] = c.head /\ p[i] \in Node
    BY DEF Listed, Linked, Path, Leaves
<1>2. /\ \A j \in Nat : j < k => p[j] \in Node /\ c.next[p[j]] = p[j + 1] /\ p[j] # Nil
      /\ \A j \in Nat : j >= k => p[j] = Nil
    BY NodeNotNil DEF Listed, Linked, Path
<1>3. /\ w \in [Nat -> Nat]
      /\ \A j \in Nat : j < i => w[j] = p[j]
      /\ \A j \in Nat : j >= i => w[j] = p[j + 1]
    BY <1>1 DEF Without
<1>4. \A a, b \in Nat : a < k /\ b < k /\ p[a] = p[b] => a = b
    BY DEF Listed, Linked, Distinct
<1>5. \A a \in Nat : a < k /\ a # i => p[a] # p[i]
    BY <1>4
<1>6. ASSUME NEW j \in Nat, j < k - 1
      PROVE  \E a \in Nat : a < k /\ a # i /\ w[j] = p[a] /\ ((j < i /\ a = j) \/ (j >= i /\ a = j + 1))
    BY <1>1, <1>3, <1>6
<1>7. Path(u.next, u.head, w, k - 1)
    <2>1. w[0] = u.head
        BY <1>1, <1>3 DEF Leaves
    <2>2. ASSUME NEW j \in Nat, j < k - 1 PROVE w[j] \in Node /\ u.next[w[j]] = w[j + 1]
        <3>1. CASE j < i
            <4>1. j < k /\ j # i /\ w[j] = p[j] /\ p[j] \in Node /\ p[j] # p[i] /\ c.next[p[j]] = p[j + 1]
                BY <1>1, <1>2, <1>3, <1>5, <3>1
            <4>2. CASE j + 1 = i
                <5>1. i # 0 /\ i - 1 = j /\ w[j + 1] = p[i + 1]
                    BY <1>1, <1>3, <4>2
                <5>. QED  BY <4>1, <4>2, <5>1 DEF Leaves
            <4>3. CASE j + 1 # i
                <5>1. j + 1 < i /\ (i # 0 => i - 1 \in Nat /\ i - 1 < k /\ i - 1 # j)
                    BY <1>1, <3>1, <4>3
                <5>2. i # 0 => p[j] # p[i - 1]
                    BY <1>4, <4>1, <5>1
                <5>. QED  BY <1>3, <4>1, <5>1, <5>2 DEF Leaves
            <4>. QED  BY <4>2, <4>3
        <3>2. CASE j >= i
            <4>1. j + 1 \in Nat /\ j + 1 < k /\ j + 1 # i /\ j + 1 # i - 1 /\ j + 1 >= i
                  /\ (i # 0 => i - 1 \in Nat /\ i - 1 < k)
                BY <1>1, <2>2, <3>2
            <4>2. w[j] = p[j + 1] /\ w[j + 1] = p[(j + 1) + 1] /\ p[j + 1] \in Node /\ p[j + 1] # p[i]
                  /\ c.next[p[j + 1]] = p[(j + 1) + 1]
                BY <1>2, <1>3, <1>5, <3>2, <4>1
            <4>3. i # 0 => p[j + 1] # p[i - 1]
                BY <1>4, <4>1
            <4>. QED  BY <4>2, <4>3 DEF Leaves
        <3>. QED  BY <3>1, <3>2
    <2>3. ASSUME NEW j \in Nat, j >= k - 1 PROVE w[j] = Nil
        <3>1. j >= i /\ j + 1 \in Nat /\ j + 1 >= k
            BY <1>1, <2>3
        <3>. QED  BY <1>2, <1>3, <3>1
    <2>. QED  BY <1>1, <1>3, <2>1, <2>2, <2>3 DEF Path
<1>8. Distinct(w, k - 1)
    <2>1. SUFFICES ASSUME NEW a \in Nat, NEW b \in Nat, a < k - 1, b < k - 1, w[a] = w[b] PROVE a = b
        BY DEF Distinct
    <2>. QED  BY <1>1, <1>4, <1>6, <2>1
<1>9. u.tail = Before(w, k - 1)
    <2>1. CASE i + 1 = k
        <3>1. Before(w, k - 1) = Before(p, i)
            BY <1>1, <1>3, <2>1 DEF Before
        <3>. QED  BY <2>1, <3>1 DEF Leaves
    <2>2. CASE i + 1 # k
        <3>1. k - 1 # 0 /\ (k - 1) - 1 \in Nat /\ (k - 1) - 1 >= i /\ ((k - 1) - 1) + 1 = k - 1 /\ k # 0
            BY <1>1, <2>2
        <3>2. Before(w, k - 1) = Before(p, k)
            BY <1>3, <3>1 DEF Before
        <3>. QED  BY <2>2, <3>2 DEF Leaves, Listed, Linked
    <2>. QED  BY <2>1, <2>2
<1>10. \A j \in Nat : j < k - 1 => u.data[w[j]] \in Value
    BY <1>2, <1>5, <1>6 DEF Leaves, Listed, Linked
<1>11. ASSUME doubly, NEW j \in Nat, j < k - 1 PROVE u.prev[w[j]] = Before(w, j)
    <2>1. CASE j < i
        <3>1. j < k /\ j # i /\ w[j] = p[j] /\ p[j] \in Node /\ p[j] # p[i] /\ Before(w, j) = Before(p, j)
            <4>1. j < k /\ j # i /\ (j # 0 => j - 1 \in Nat /\ j - 1 < i)
                BY <1>1, <2>1
            <4>2. w[j] = p[j] /\ Before(w, j) = Before(p, j)
                BY <1>1, <1>3, <2>1, <4>1 DEF Before
            <4>. QED  BY <1>1, <1>2, <1>5, <4>1, <4>2
        <3>2. i + 1 < k => p[j] # p[i + 1]
            BY <1>1, <1>4, <2>1, <3>1
        <3>3. c.prev[p[j]] = Before(p, j)
            BY <1>11, <3>1 DEF Listed, Linked
        <3>. QED  BY <1>11, <3>1, <3>2, <3>3 DEF Leaves
    <2>2. CASE j = i
        <3>1. i + 1 < k /\ i + 1 # i /\ w[j] = p[i + 1] /\ Before(w, j) = Before(p, i)
            BY <1>1, <1>3, <1>11, <2>2 DEF Before
        <3>2. p[i + 1] \in Node /\ p[i + 1] # p[i]
            BY <1>2, <1>5, <3>1
        <3>. QED  BY <1>11, <3>1, <3>2 DEF Leaves
    <2>3. CASE j > i
        <3>1. /\ j + 1 \in Nat /\ j + 1 < k /\ j + 1 # i /\ j + 1 # i + 1 /\ j # 0 /\ j - 1 \in Nat
              /\ j - 1 >= i /\ w[j] = p[j + 1] /\ w[j - 1] = p[j] /\ (j + 1) - 1 = j /\ j + 1 # 0
            <4>1. j + 1 \in Nat /\ j + 1 < k /\ j + 1 # i /\ j + 1 # i + 1 /\ j # 0 /\ j - 1 \in Nat
                  /\ j - 1 >= i /\ (j - 1) + 1 = j /\ (j + 1) - 1 = j /\ j + 1 # 0
                BY <1>1, <1>11, <2>3
            <4>. QED  BY <1>3, <2>3, <4>1
        <3>2. p[j + 1] \in Node /\ p[j + 1] # p[i] /\ Before(w, j) = Before(p, j + 1)
            BY <1>2, <1>5, <3>1 DEF Before
        <3>3. i + 1 < k => p[j + 1] # p[i + 1]
            BY <1>4, <3>1
        <3>4. c.prev[p[j + 1]] = Before(p, j + 1)
            BY <1>11, <3>1 DEF Listed, Linked
        <3>. QED  BY <1>11, <3>1, <3>2, <3>3, <3>4 DEF Leaves
    <2>. QED  BY <2>1, <2>2, <2>3
<1>12. Linked(u, k - 1, w)
    BY <1>7, <1>8, <1>9, <1>10, <1>11 DEF Linked
<1>13. ASSUME NEW x PROVE (\E j \in Nat : j < k - 1 /\ x = w[j]) <=> x # p[i] /\ \E j \in Nat : j < k /\ x = p[j]
    <2>1. ASSUME NEW j \in Nat, j < k, j # i PROVE \E a \in Nat : a < k - 1 /\ p[j] = w[a]
        <3>1. CASE j < i
            BY <1>1, <1>3, <2>1, <3>1
        <3>2. CASE j > i
            <4>1. j - 1 \in Nat /\ j - 1 < k - 1 /\ j - 1 >= i /\ (j - 1) + 1 = j
                BY <1>1, <2>1, <3>2
            <4>. QED  BY <1>3, <4>1
        <3>. QED  BY <2>1, <3>1, <3>2
    <2>. QED  BY <1>1, <1>5, <1>6, <2>1
<1>14. Unused(u, k - 1, w, q, m, p[i])
    <2>1. \A j \in Nat : j < k - 1 => w[j] # p[i]
        BY <1>13
    <2>2. CASE fixed = TRUE
        <3>1. Path(c.next, c.free, q, m) /\ Distinct(q, m)
              /\ \A a, j \in Nat : a < k /\ j < m => p[a] # q[j]
            BY <2>2 DEF Listed, Unused
        <3>2. ASSUME NEW j \in Nat, j < m PROVE q[j] \in Node /\ u.next[q[j]] = c.next[q[j]] /\ q[j] # p[i]
            <4>1. q[j] \in Node /\ q[j] # p[i]
                BY <3>1, <3>2 DEF Path
            <4>2. i # 0 => q[j] # p[i - 1]
                BY <1>1, <3>1, <3>2
            <4>. QED  BY <4>1, <4>2 DEF Leaves
        <3>3. Path(u.next, u.free, q, m)
            BY <3>1, <3>2 DEF Path, Leaves
        <3>4. \A a, j \in Nat : a < k - 1 /\ j < m => w[a] # q[j]
            BY <1>6, <3>1
        <3>5. \A x \in Node : \/ x = p[i] \/ \E a \in Nat : a < k - 1 /\ x = w[a]
                              \/ \E j \in Nat : j < m /\ x = q[j]
            BY <1>13, <2>2, NodeNotNil DEF Listed, Unused
        <3>. QED  BY <2>1, <2>2, <3>1, <3>2, <3>3, <3>4, <3>5 DEF Unused
    <2>3. CASE fixed # TRUE
        <3>1. \A x \in Node : x \in c.heap <=> \E j \in Nat : j < k /\ x = p[j]
            BY <2>3, NodeNotNil DEF Listed, Unused
        <3>2. \A x \in Node : x \in u.heap <=> x = p[i] \/ \E j \in Nat : j < k - 1 /\ x = w[j]
            BY <1>13, <3>1 DEF Leaves
        <3>. QED  BY <2>1, <2>3, <3>2 DEF Unused
    <2>. QED  BY <2>2, <2>3
<1>. QED  BY <1>1, <1>12, <1>14 DEF Listed

-----------------------------------------------------------------------------
(***************************************************************************)
(* The links of the two cores                                              *)
(***************************************************************************)

\* A core with other links.
Relinked(c, head, tail, next, prev) ==
    [head |-> head, tail |-> tail, size |-> c.size, next |-> next, prev |-> prev,
     free |-> c.free, data |-> c.data, heap |-> c.heap]

\* What a core is that differs in its ends and links only.
LEMMA RelinkedIs ==
    ASSUME NEW c, Memory(c), NEW h, NEW t, NEW nx \in [Node -> Nat], NEW pv \in [Node -> Nat],
           NEW u, u = Relinked(c, h, t, nx, pv)
    PROVE  /\ Memory(u) /\ u.free = c.free /\ u.heap = c.heap /\ u.size = c.size /\ u.data = c.data
           /\ u.head = h /\ u.tail = t /\ u.next = nx /\ u.prev = pv
BY DEF Relinked, Memory

\* The facts about c that the links are computed from.
LEMMA ListedFacts ==
    ASSUME NEW c, NEW k, NEW p, NEW q, NEW m, NEW n, Listed(c, k, p, q, m, n)
    PROVE  /\ k \in Nat /\ p \in [Nat -> Nat] /\ p[0] = c.head /\ Memory(c)
           /\ c.next \in [Node -> Nat] /\ c.prev \in [Node -> Nat]
           /\ c.tail = Before(p, k) /\ c.head \in Nat /\ c.tail \in Nat
           /\ \A j \in Nat : j < k => p[j] \in Node /\ p[j] # Nil /\ c.next[p[j]] = p[j + 1]
           /\ \A j \in Nat : j >= k => p[j] = Nil
           /\ \A a, b \in Nat : a < k /\ b < k /\ p[a] = p[b] => a = b
           /\ doubly => \A j \in Nat : j < k => c.prev[p[j]] = Before(p, j)
           /\ n \in Node => \A j \in Nat : j < k => p[j] # n
<1>1. k \in Nat /\ p \in [Nat -> Nat] /\ p[0] = c.head /\ Memory(c) /\ c.tail = Before(p, k)
    BY DEF Listed, Linked, Path
<1>2. c.head \in Nat /\ c.tail \in Nat
    BY <1>1 DEF Before, Nil
<1>3. \A j \in Nat : j < k => p[j] \in Node /\ p[j] # Nil /\ c.next[p[j]] = p[j + 1]
    BY NodeNotNil DEF Listed, Linked, Path
<1>. QED  BY <1>1, <1>2, <1>3 DEF Listed, Linked, Path, Distinct, Memory, Unused

\* link_front and list_core's front insertion.
LEMMA FrontEnters ==
    ASSUME NEW c, NEW k, NEW p, NEW q, NEW m, NEW n \in Node, Listed(c, k, p, q, m, n),
           NEW u, u = IF doubly THEN link_front(c, n) ELSE list_link_front(c, n)
    PROVE  Enters(c, k, p, 0, n, u)
<1>1. /\ k \in Nat /\ p[0] = c.head /\ Memory(c) /\ c.tail = Before(p, k) /\ c.head \in Nat
      /\ c.next \in [Node -> Nat] /\ c.prev \in [Node -> Nat]
      /\ n \in Nat /\ n # Nil
      /\ (k # 0 => p[0] \in Node /\ p[0] # Nil /\ p[0] # n) /\ (k = 0 => p[0] = Nil)
    BY ListedFacts, NodeNotNil
<1>2. c.tail = Nil <=> k = 0
    <2>1. k # 0 => k - 1 \in Nat /\ k - 1 < k
        BY <1>1
    <2>2. \A j \in Nat : j < k => p[j] # Nil
        BY ListedFacts
    <2>. QED  BY <1>1, <2>1, <2>2 DEF Before
<1>3. PICK nx, t : nx = [c.next EXCEPT ![n] = c.head] /\ t = IF k = 0 THEN n ELSE c.tail
    OBVIOUS
<1>4. nx \in [Node -> Nat] /\ \A x \in Node : nx[x] = IF x = n THEN c.head ELSE c.next[x]
    BY <1>1, <1>3
<1>5. CASE doubly
    <2>1. PICK pv : pv = IF c.head # Nil THEN [c.prev EXCEPT ![c.head] = n, ![n] = Nil]
                                         ELSE [c.prev EXCEPT ![n] = Nil]
        OBVIOUS
    <2>2. pv \in [Node -> Nat] /\ \A x \in Node : pv[x] = IF x = n THEN Nil ELSE IF 0 < k /\ x = p[0] THEN n ELSE c.prev[x]
        BY <1>1, <2>1 DEF Nil
    <2>3. u = Relinked(c, n, t, nx, pv)
        BY <1>1, <1>3, <1>5, <2>1 DEF link_front, Relinked, Memory
    <2>4. /\ Memory(u) /\ u.free = c.free /\ u.heap = c.heap /\ u.size = c.size /\ u.data = c.data
          /\ u.head = n /\ u.tail = t /\ u.next = nx /\ u.prev = pv
        BY <1>1, <1>4, <2>2, <2>3, RelinkedIs
    <2>. QED  BY <1>1, <1>3, <1>4, <2>2, <2>4 DEF Enters, Before
<1>6. CASE ~doubly
    <2>1. u = Relinked(c, n, t, nx, c.prev)
        BY <1>1, <1>2, <1>3, <1>6 DEF list_link_front, Relinked, Memory
    <2>2. /\ Memory(u) /\ u.free = c.free /\ u.heap = c.heap /\ u.size = c.size /\ u.data = c.data
          /\ u.head = n /\ u.tail = t /\ u.next = nx /\ u.prev = c.prev
        BY <1>1, <1>4, <2>1, RelinkedIs
    <2>. QED  BY <1>1, <1>3, <1>4, <1>6, <2>2 DEF Enters
<1>. QED  BY <1>5, <1>6

\* link_back and list_core's back insertion.
LEMMA BackEnters ==
    ASSUME NEW c, NEW k, NEW p, NEW q, NEW m, NEW n \in Node, Listed(c, k, p, q, m, n),
           NEW u, u = IF doubly THEN link_back(c, n) ELSE list_link_back(c, n)
    PROVE  Enters(c, k, p, k, n, u)
<1>1. /\ k \in Nat /\ p[0] = c.head /\ p[k] = Nil /\ Memory(c) /\ c.tail = Before(p, k) /\ c.tail \in Nat
      /\ c.next \in [Node -> Nat] /\ c.prev \in [Node -> Nat]
      /\ n \in Nat /\ n # Nil
    BY ListedFacts, NodeNotNil
<1>2. /\ k # 0 => c.tail = p[k - 1] /\ c.tail \in Node /\ c.tail # n /\ c.tail # Nil
      /\ k = 0 => c.tail = Nil
    <2>1. k # 0 => k - 1 \in Nat /\ k - 1 < k
        BY <1>1
    <2>2. \A j \in Nat : j < k => p[j] # Nil /\ p[j] \in Node /\ p[j] # n
        BY ListedFacts
    <2>. QED  BY <1>1, <2>1, <2>2 DEF Before
<1>3. PICK nx, h : /\ nx = IF c.tail # Nil THEN [c.next EXCEPT ![c.tail] = n, ![n] = Nil]
                                           ELSE [c.next EXCEPT ![n] = Nil]
                   /\ h = IF k = 0 THEN n ELSE c.head
    OBVIOUS
<1>4. nx \in [Node -> Nat]
      /\ \A x \in Node : nx[x] = IF x = n THEN Nil ELSE IF k # 0 /\ x = p[k - 1] THEN n ELSE c.next[x]
    BY <1>1, <1>2, <1>3 DEF Nil
<1>5. CASE doubly
    <2>1. PICK pv : pv = [c.prev EXCEPT ![n] = c.tail]
        OBVIOUS
    <2>2. pv \in [Node -> Nat] /\ \A x \in Node : pv[x] = IF x = n THEN c.tail ELSE c.prev[x]
        BY <1>1, <2>1
    <2>3. u = Relinked(c, h, n, nx, pv)
        BY <1>1, <1>2, <1>3, <1>5, <2>1 DEF link_back, Relinked, Memory
    <2>4. /\ Memory(u) /\ u.free = c.free /\ u.heap = c.heap /\ u.size = c.size /\ u.data = c.data
          /\ u.head = h /\ u.tail = n /\ u.next = nx /\ u.prev = pv
        BY <1>1, <1>4, <2>2, <2>3, RelinkedIs
    <2>. QED  BY <1>1, <1>3, <1>4, <2>2, <2>4 DEF Enters
<1>6. CASE ~doubly
    <2>1. [c.next EXCEPT ![n] = Nil, ![c.tail] = n] = [c.next EXCEPT ![c.tail] = n, ![n] = Nil] \/ k = 0
        BY <1>1, <1>2
    <2>2. u = Relinked(c, h, n, nx, c.prev)
        BY <1>1, <1>2, <1>3, <1>6, <2>1 DEF list_link_back, Relinked, Memory
    <2>3. /\ Memory(u) /\ u.free = c.free /\ u.heap = c.heap /\ u.size = c.size /\ u.data = c.data
          /\ u.head = h /\ u.tail = n /\ u.next = nx /\ u.prev = c.prev
        BY <1>1, <1>4, <2>2, RelinkedIs
    <2>. QED  BY <1>1, <1>3, <1>4, <1>6, <2>3 DEF Enters
<1>. QED  BY <1>5, <1>6

\* link_before, and the two assignments of list_core's insert_at.
LEMMA MiddleEnters ==
    ASSUME NEW c, NEW k, NEW p, NEW q, NEW m, NEW n \in Node, Listed(c, k, p, q, m, n),
           NEW i \in Nat, i # 0, i < k,
           NEW u, u = IF doubly THEN link_before(c, p[i], n)
                      ELSE [c EXCEPT !.next[n] = p[i], !.next[p[i - 1]] = n]
    PROVE  Enters(c, k, p, i, n, u)
<1>1. /\ k \in Nat /\ Memory(c) /\ c.next \in [Node -> Nat] /\ c.prev \in [Node -> Nat]
      /\ n \in Nat /\ n # Nil /\ i - 1 \in Nat /\ i - 1 < k /\ i # k
    BY ListedFacts, NodeNotNil
<1>2. /\ p[i] \in Node /\ p[i] \in Nat /\ p[i] # Nil /\ p[i] # n
      /\ p[i - 1] \in Node /\ p[i - 1] \in Nat /\ p[i - 1] # Nil /\ p[i - 1] # n
    BY <1>1, ListedFacts, NodeNotNil
<1>3. PICK nx : nx = [c.next EXCEPT ![p[i - 1]] = n, ![n] = p[i]]
    OBVIOUS
<1>4. nx \in [Node -> Nat]
      /\ \A x \in Node : nx[x] = IF x = n THEN p[i] ELSE IF x = p[i - 1] THEN n ELSE c.next[x]
    BY <1>1, <1>2, <1>3
<1>7. PICK h, t : h = c.head /\ t = c.tail
    OBVIOUS
<1>5. CASE doubly
    <2>1. PICK pv : pv = [c.prev EXCEPT ![n] = p[i - 1], ![p[i]] = n]
        OBVIOUS
    <2>2. pv \in [Node -> Nat]
          /\ \A x \in Node : pv[x] = IF x = n THEN p[i - 1] ELSE IF x = p[i] THEN n ELSE c.prev[x]
        BY <1>1, <1>2, <2>1
    <2>3. c.prev[p[i]] = p[i - 1]
        BY <1>1, <1>5, ListedFacts DEF Before
    <2>4. u = Relinked(c, h, t, nx, pv)
        BY <1>1, <1>2, <1>3, <1>5, <1>7, <2>1, <2>3 DEF link_before, Relinked, Memory
    <2>5. /\ Memory(u) /\ u.free = c.free /\ u.heap = c.heap /\ u.size = c.size /\ u.data = c.data
          /\ u.head = h /\ u.tail = t /\ u.next = nx /\ u.prev = pv
        <3>1. Memory(c) /\ nx \in [Node -> Nat] /\ pv \in [Node -> Nat]
            BY <1>1, <1>4, <2>2
        <3>. QED  BY ONLY <2>4, <3>1, RelinkedIs
    <2>. QED  BY <1>1, <1>4, <1>7, <2>2, <2>5 DEF Enters, Before
<1>6. CASE ~doubly
    <2>1. nx = [[c.next EXCEPT ![n] = p[i]] EXCEPT ![p[i - 1]] = n]
        BY <1>1, <1>2, <1>3
    <2>2. u = Relinked(c, h, t, nx, c.prev)
        BY <1>1, <1>6, <1>7, <2>1 DEF Relinked, Memory
    <2>3. /\ Memory(u) /\ u.free = c.free /\ u.heap = c.heap /\ u.size = c.size /\ u.data = c.data
          /\ u.head = h /\ u.tail = t /\ u.next = nx /\ u.prev = c.prev
        <3>1. Memory(c) /\ nx \in [Node -> Nat] /\ c.prev \in [Node -> Nat]
            BY <1>1, <1>4
        <3>. QED  BY ONLY <2>2, <3>1, RelinkedIs
    <2>. QED  BY <1>1, <1>4, <1>6, <1>7, <2>3 DEF Enters
<1>. QED  BY <1>5, <1>6

\* A core whose links are those of c, whatever the node n holds.
SameLinks(c, d, n) ==
    /\ Memory(d) /\ d.head = c.head /\ d.tail = c.tail /\ d.size = c.size /\ d.next = c.next
    /\ d.prev = c.prev /\ d.free = c.free /\ d.heap = c.heap
    /\ \A x \in Node : x # n => d.data[x] = c.data[x]

\* unlink_node takes out a node of dlist_core wherever it is.
LEMMA NodeLeaves ==
    ASSUME doubly, NEW c, NEW k, NEW p, NEW q, NEW m, Listed(c, k, p, q, m, Nil),
           NEW i \in Nat, i < k, NEW d, SameLinks(c, d, p[i]), NEW u, u = unlink_node(d, p[i])
    PROVE  Leaves(c, k, p, i, u)
<1>1. PICK n, b, f : n = p[i] /\ b = c.prev[n] /\ f = c.next[n]
    OBVIOUS
<1>2. /\ k \in Nat /\ c.next \in [Node -> Nat] /\ c.prev \in [Node -> Nat]
      /\ n \in Node /\ n # Nil /\ f = p[i + 1] /\ b = Before(p, i) /\ p \in [Nat -> Nat] /\ p[0] = c.head
      /\ (i + 1 < k => f \in Node /\ f # Nil /\ f # n) /\ (i + 1 = k => f = Nil)
    BY <1>1, ListedFacts
<1>3. /\ i # 0 => b = p[i - 1] /\ b \in Node /\ b # Nil /\ b # n
      /\ i = 0 => b = Nil
    <2>1. i # 0 => i - 1 \in Nat /\ i - 1 < k /\ i - 1 # i
        BY <1>2
    <2>. QED  BY <1>1, <1>2, <2>1, ListedFacts, SMTT(20) DEF Before
<1>4. PICK nx, pv, h, t :
        /\ nx = IF b # Nil THEN [[c.next EXCEPT ![n] = Nil] EXCEPT ![b] = f] ELSE [c.next EXCEPT ![n] = Nil]
        /\ pv = IF f # Nil THEN [[c.prev EXCEPT ![n] = Nil] EXCEPT ![f] = b] ELSE [c.prev EXCEPT ![n] = Nil]
        /\ h = (IF b = Nil THEN f ELSE c.head) /\ t = (IF f = Nil THEN b ELSE c.tail)
    OBVIOUS
<1>5. f \in Nat /\ b \in Nat
    BY <1>1, <1>2
<1>6. /\ nx \in [Node -> Nat] /\ pv \in [Node -> Nat]
      /\ \A x \in Node : x # n => nx[x] = IF i # 0 /\ x = p[i - 1] THEN f ELSE c.next[x]
      /\ \A x \in Node : x # n => pv[x] = IF i + 1 < k /\ x = f THEN b ELSE c.prev[x]
    <2>1. i + 1 < k \/ i + 1 = k
        BY <1>2
    <2>. QED  BY <1>2, <1>3, <1>4, <1>5, <2>1 DEF Nil
<1>7. u = Relinked(d, h, t, nx, pv)
    <2>1. d.prev[p[i]] = b /\ d.next[p[i]] = f /\ d.next = c.next /\ d.prev = c.prev
          /\ d.head = c.head /\ d.tail = c.tail /\ Memory(d)
        BY <1>1 DEF SameLinks
    <2>. QED  BY <1>1, <1>4, <2>1 DEF unlink_node, Relinked, Memory
<1>8. /\ Memory(u) /\ u.free = d.free /\ u.heap = d.heap /\ u.size = d.size /\ u.data = d.data
      /\ u.head = h /\ u.tail = t /\ u.next = nx /\ u.prev = pv
    <2>1. Memory(d)
        BY DEF SameLinks
    <2>. QED  BY ONLY <1>6, <1>7, <2>1, RelinkedIs
<1>9. h = (IF i = 0 THEN p[1] ELSE c.head) /\ t = (IF i + 1 = k THEN Before(p, i) ELSE c.tail)
    <2>1. i + 1 < k \/ i + 1 = k
        BY <1>2
    <2>2. i = 0 => p[i + 1] = p[1]
        OBVIOUS
    <2>. QED  BY <1>2, <1>3, <1>4, <2>1, <2>2
<1>10. /\ Memory(u) /\ u.free = c.free /\ u.heap = c.heap /\ u.size = c.size
       /\ u.head = (IF i = 0 THEN p[1] ELSE c.head)
       /\ u.tail = (IF i + 1 = k THEN Before(p, i) ELSE c.tail)
    BY <1>8, <1>9 DEF SameLinks
<1>11. ASSUME NEW x \in Node, x # p[i]
       PROVE  /\ u.next[x] = IF i # 0 /\ x = p[i - 1] THEN p[i + 1] ELSE c.next[x]
              /\ u.prev[x] = IF i + 1 < k /\ x = p[i + 1] THEN Before(p, i) ELSE c.prev[x]
              /\ u.data[x] = c.data[x]
    <2>1. u.data[x] = c.data[x]
        BY <1>8, <1>11 DEF SameLinks
    <2>2. x # n /\ u.next[x] = nx[x] /\ u.prev[x] = pv[x] /\ f = p[i + 1] /\ b = Before(p, i)
        BY <1>1, <1>2, <1>8, <1>11
    <2>3. /\ nx[x] = IF i # 0 /\ x = p[i - 1] THEN f ELSE c.next[x]
          /\ pv[x] = IF i + 1 < k /\ x = f THEN b ELSE c.prev[x]
        BY <1>6, <1>11, <2>2
    <2>. QED  BY ONLY <2>1, <2>2, <2>3
<1>. QED  BY ONLY <1>10, <1>11 DEF Leaves

\* list_core takes out the front.
LEMMA FrontLeaves ==
    ASSUME ~doubly, NEW c, NEW k, NEW p, NEW q, NEW m, Listed(c, k, p, q, m, Nil),
           k # 0, NEW d, SameLinks(c, d, p[0]), NEW u, u = unlink_front(d)
    PROVE  Leaves(c, k, p, 0, u)
<1>1. /\ k \in Nat /\ 0 < k /\ p[0] = c.head /\ c.next[p[0]] = p[1] /\ p[0] \in Node
      /\ c.next \in [Node -> Nat] /\ c.prev \in [Node -> Nat]
      /\ (1 < k => p[1] # Nil) /\ (k = 1 => p[1] = Nil)
    <2>1. k \in Nat /\ 0 < k
        BY ListedFacts
    <2>2. c.next[p[0]] = p[0 + 1]
        BY <2>1, ListedFacts
    <2>. QED  BY <2>1, <2>2, ListedFacts
<1>2. PICK h, t, nx, pv : h = p[1] /\ t = (IF k = 1 THEN Nil ELSE c.tail) /\ nx = c.next /\ pv = c.prev
    OBVIOUS
<1>3. u = Relinked(d, h, t, nx, pv)
    <2>1. d.next = c.next /\ d.prev = c.prev /\ d.head = c.head /\ d.tail = c.tail /\ Memory(d)
        BY DEF SameLinks
    <2>2. c.next[c.head] = p[1] /\ (p[1] = Nil <=> k = 1)
        BY <1>1
    <2>. QED  BY <1>2, <2>1, <2>2 DEF unlink_front, Relinked, Memory
<1>4. /\ Memory(u) /\ u.free = d.free /\ u.heap = d.heap /\ u.size = d.size /\ u.data = d.data
      /\ u.head = h /\ u.tail = t /\ u.next = nx /\ u.prev = pv
    <2>1. Memory(d) /\ nx \in [Node -> Nat] /\ pv \in [Node -> Nat]
        BY <1>1, <1>2 DEF SameLinks
    <2>. QED  BY ONLY <1>3, <2>1, RelinkedIs
<1>. QED  BY <1>1, <1>2, <1>4 DEF Leaves, SameLinks, Before

\* list_core walks to the predecessor of the node that it takes out.
LEMMA BackLeaves ==
    ASSUME ~doubly, NEW c, NEW k, NEW p, NEW q, NEW m, Listed(c, k, p, q, m, Nil), c.size = k,
           k # 0, NEW d, SameLinks(c, d, p[k - 1]), NEW u, u = list_unlink_back(d)
    PROVE  Leaves(c, k, p, k - 1, u)
<1>1. /\ k \in Nat /\ k - 1 \in Nat /\ (k - 1) + 1 = k /\ p[k - 1] \in Node /\ p[k] = Nil
      /\ c.next[p[k - 1]] = p[k]
      /\ c.next \in [Node -> Nat] /\ c.prev \in [Node -> Nat] /\ p \in [Nat -> Nat]
    <2>1. k \in Nat /\ k - 1 \in Nat /\ k - 1 < k /\ (k - 1) + 1 = k
        BY ListedFacts
    <2>. QED  BY <2>1, ListedFacts
<1>2. d.next = c.next /\ d.prev = c.prev /\ d.head = c.head /\ d.size = k /\ Memory(d)
    BY DEF SameLinks
<1>3. CASE k = 1
    <2>1. PICK h, t, nx, pv : h = Nil /\ t = Nil /\ nx = c.next /\ pv = c.prev
        OBVIOUS
    <2>2. u = Relinked(d, h, t, nx, pv)
        BY <1>2, <1>3, <2>1 DEF list_unlink_back, Relinked, Memory
    <2>3. /\ Memory(u) /\ u.free = d.free /\ u.heap = d.heap /\ u.size = d.size /\ u.data = d.data
          /\ u.head = h /\ u.tail = t /\ u.next = nx /\ u.prev = pv
        <3>1. Memory(d) /\ nx \in [Node -> Nat] /\ pv \in [Node -> Nat]
            BY <1>1, <1>2, <2>1
        <3>. QED  BY ONLY <2>2, <3>1, RelinkedIs
    <2>. QED  BY <1>1, <1>3, <2>1, <2>3 DEF Leaves, SameLinks, Before
<1>4. CASE k # 1
    <2>1. k - 2 \in Nat /\ k - 2 < k /\ (k - 1) - 1 = k - 2 /\ (k - 2) + 1 = k - 1 /\ k - 1 # 0
        BY <1>1, <1>4
    <2>2. list_node_at(d, d.size - 2) = p[k - 2]
        <3>1. Path(c.next, c.head, p, k)
            BY DEF Listed, Linked
        <3>. QED  BY <1>2, <2>1, <3>1, FollowPath DEF list_node_at
    <2>3. p[k - 2] \in Node /\ p[k - 2] # p[k - 1]
        BY <2>1, ListedFacts
    <2>4. PICK h, t, nx, pv : h = c.head /\ t = p[k - 2] /\ nx = [c.next EXCEPT ![t] = Nil] /\ pv = c.prev
        OBVIOUS
    <2>5. u = Relinked(d, h, t, nx, pv)
        BY <1>2, <1>4, <2>2, <2>4 DEF list_unlink_back, Relinked, Memory
    <2>6. nx \in [Node -> Nat] /\ \A x \in Node : nx[x] = IF x = p[k - 2] THEN Nil ELSE c.next[x]
        BY <1>1, <2>3, <2>4 DEF Nil
    <2>7. /\ Memory(u) /\ u.free = d.free /\ u.heap = d.heap /\ u.size = d.size /\ u.data = d.data
          /\ u.head = h /\ u.tail = t /\ u.next = nx /\ u.prev = pv
        <3>1. Memory(d) /\ nx \in [Node -> Nat] /\ pv \in [Node -> Nat]
            BY <1>1, <1>2, <2>4, <2>6
        <3>. QED  BY ONLY <2>5, <3>1, RelinkedIs
    <2>. QED  BY <1>1, <1>2, <1>4, <2>1, <2>4, <2>6, <2>7 DEF Leaves, SameLinks, Before
<1>. QED  BY <1>3, <1>4

\* list_core unlinks a node between two others, found by its position.
LEMMA MiddleLeaves ==
    ASSUME ~doubly, NEW c, NEW k, NEW p, NEW q, NEW m, Listed(c, k, p, q, m, Nil),
           NEW i \in Nat, i # 0, i + 1 < k, NEW d, SameLinks(c, d, p[i]),
           NEW u, u = list_unlink_at(d, i)
    PROVE  Leaves(c, k, p, i, u)
<1>1. /\ k \in Nat /\ i - 1 \in Nat /\ i - 1 < k /\ i < k /\ i - 1 # i
      /\ c.next \in [Node -> Nat] /\ c.prev \in [Node -> Nat] /\ p \in [Nat -> Nat]
    BY ListedFacts
<1>2. p[i] \in Node /\ c.next[p[i]] = p[i + 1] /\ p[i - 1] \in Node /\ p[i - 1] # p[i]
    <2>1. /\ \A j \in Nat : j < k => p[j] \in Node /\ c.next[p[j]] = p[j + 1]
          /\ \A a, b \in Nat : a < k /\ b < k /\ p[a] = p[b] => a = b
        BY ListedFacts
    <2>. QED  BY <1>1, <2>1
<1>3. d.next = c.next /\ d.prev = c.prev /\ d.head = c.head /\ d.tail = c.tail /\ Memory(d)
    BY DEF SameLinks
<1>4. list_node_at(d, i - 1) = p[i - 1] /\ list_node_at(d, i) = p[i]
    <2>1. Path(c.next, c.head, p, k)
        BY DEF Listed, Linked
    <2>. QED  BY <1>1, <1>3, <2>1, FollowPath DEF list_node_at
<1>5. PICK h, t, nx, pv : /\ h = c.head /\ t = c.tail /\ pv = c.prev
                          /\ nx = [c.next EXCEPT ![p[i - 1]] = p[i + 1]]
    OBVIOUS
<1>6. u = Relinked(d, h, t, nx, pv)
    BY <1>2, <1>3, <1>4, <1>5 DEF list_unlink_at, Relinked, Memory
<1>7. nx \in [Node -> Nat] /\ \A x \in Node : nx[x] = IF x = p[i - 1] THEN p[i + 1] ELSE c.next[x]
    BY <1>1, <1>2, <1>5
<1>8. /\ Memory(u) /\ u.free = d.free /\ u.heap = d.heap /\ u.size = d.size /\ u.data = d.data
      /\ u.head = h /\ u.tail = t /\ u.next = nx /\ u.prev = pv
    <2>1. Memory(d) /\ nx \in [Node -> Nat] /\ pv \in [Node -> Nat]
        BY <1>1, <1>3, <1>5, <1>7
    <2>. QED  BY ONLY <1>6, <2>1, RelinkedIs
<1>. QED  BY <1>1, <1>5, <1>7, <1>8 DEF Leaves, SameLinks
-----------------------------------------------------------------------------
(***************************************************************************)
(* The walks of a list                                                     *)
(***************************************************************************)

\* The elements, front to back.
Elements(c, k, p) == [i \in 1..k |-> c.data[p[i - 1]]]

\* The core is in order and its elements are s.
Shows(c, s) == \E p, q, m : Listed(c, c.size, p, q, m, Nil) /\ s = Elements(c, c.size, p)

\* The walk over prev, from the tail.
LEMMA BackwardsPath ==
    ASSUME doubly, NEW c, NEW k, NEW p, NEW q, NEW m, Listed(c, k, p, q, m, Nil),
           NEW b, b = [j \in Nat |-> IF j < k THEN p[(k - 1) - j] ELSE Nil]
    PROVE  Path(c.prev, c.tail, b, k)
<1>1. /\ k \in Nat /\ p \in [Nat -> Nat] /\ c.tail = Before(p, k)
      /\ \A j \in Nat : j < k => p[j] \in Node /\ c.prev[p[j]] = Before(p, j)
    BY ListedFacts
<1>2. ASSUME NEW j \in Nat, j < k PROVE (k - 1) - j \in Nat /\ (k - 1) - j < k /\ b[j] = p[(k - 1) - j]
    BY <1>1, <1>2
<1>3. \A j \in Nat : j >= k => b[j] = Nil
    BY <1>1
<1>4. b \in [Nat -> Nat]
    BY <1>1, <1>2, <1>3 DEF Nil
<1>5. b[0] = c.tail
    <2>1. CASE k = 0
        BY <1>1, <1>3, <2>1 DEF Before
    <2>2. CASE k # 0
        <3>1. 0 < k /\ (k - 1) - 0 = k - 1
            BY <1>1, <2>2
        <3>. QED  BY <1>1, <1>2, <2>2, <3>1 DEF Before
    <2>. QED  BY <2>1, <2>2
<1>6. ASSUME NEW j \in Nat, j < k PROVE b[j] \in Node /\ c.prev[b[j]] = b[j + 1]
    <2>1. (k - 1) - j \in Nat /\ (k - 1) - j < k /\ b[j] = p[(k - 1) - j]
        BY <1>2, <1>6
    <2>2. b[j] \in Node /\ c.prev[b[j]] = Before(p, (k - 1) - j)
        BY <1>1, <2>1
    <2>3. CASE j + 1 = k
        <3>1. (k - 1) - j = 0 /\ b[j + 1] = Nil
            BY <1>1, <1>3, <2>3
        <3>. QED  BY <2>2, <3>1 DEF Before
    <2>4. CASE j + 1 # k
        <3>1. j + 1 \in Nat /\ j + 1 < k /\ (k - 1) - j # 0 /\ ((k - 1) - j) - 1 = (k - 1) - (j + 1)
            BY <1>1, <1>6, <2>4
        <3>2. b[j + 1] = p[(k - 1) - (j + 1)]
            BY <1>2, <3>1
        <3>. QED  BY <2>2, <3>1, <3>2 DEF Before
    <2>. QED  BY <2>3, <2>4
<1>. QED  BY <1>1, <1>3, <1>4, <1>5, <1>6 DEF Path

\* A position is found from either end.
LEMMA NodeAt ==
    ASSUME NEW c, NEW k, NEW p, NEW q, NEW m, Listed(c, k, p, q, m, Nil), c.size = k,
           NEW i \in Nat, i < k
    PROVE  list_node_at(c, i) = p[i] /\ (doubly => dlist_node_at(c, i) = p[i]) /\ node_at(c, i) = p[i]
<1>1. k \in Nat /\ Path(c.next, c.head, p, k)
    BY DEF Listed, Linked, Path
<1>2. Follow(c.next, c.head, i) = p[i]
    BY <1>1, FollowPath
<1>3. doubly => dlist_node_at(c, i) = p[i]
    <2>1. SUFFICES ASSUME doubly PROVE dlist_node_at(c, i) = p[i]
        OBVIOUS
    <2>2. PICK b : b = [j \in Nat |-> IF j < k THEN p[(k - 1) - j] ELSE Nil]
        OBVIOUS
    <2>3. Path(c.prev, c.tail, b, k)
        BY <2>1, <2>2, BackwardsPath
    <2>4. (k - 1) - i \in Nat /\ (k - 1) - i < k /\ (k - 1) - ((k - 1) - i) = i
        BY <1>1
    <2>5. Follow(c.prev, c.tail, (k - 1) - i) = p[i]
        BY <2>2, <2>3, <2>4, FollowPath
    <2>. QED  BY <1>1, <1>2, <2>5 DEF dlist_node_at
<1>. QED  BY <1>2, <1>3 DEF node_at, list_node_at

\* What for_each, for_each_reverse and peek_at show.
LEMMA WalksShow ==
    ASSUME NEW c, NEW s, Shows(c, s)
    PROVE  /\ for_each(c) = s /\ s \in Seq(Value) /\ Len(s) = c.size /\ c.size \in Nat
           /\ \A i \in 1..c.size : peek_at(c, i - 1) = s[i]
           /\ doubly => \A i \in 1..c.size : for_each_reverse(c)[i] = s[c.size + 1 - i]
<1>1. PICK p, q, m : Listed(c, c.size, p, q, m, Nil) /\ s = Elements(c, c.size, p)
    BY DEF Shows
<1>2. PICK k : k = c.size
    OBVIOUS
<1>3. /\ k \in Nat /\ Path(c.next, c.head, p, k) /\ Listed(c, k, p, q, m, Nil)
      /\ \A j \in Nat : j < k => p[j] \in Node /\ p[j] # Nil /\ c.data[p[j]] \in Value
    BY <1>1, <1>2, NodeNotNil DEF Listed, Linked, Path
<1>4. s = [i \in 1..k |-> c.data[p[i - 1]]]
    BY <1>1, <1>2 DEF Elements
<1>5. ASSUME NEW i \in 1..k
      PROVE  i - 1 \in Nat /\ i - 1 < k /\ s[i] = c.data[p[i - 1]] /\ s[i] \in Value /\ p[i - 1] # Nil
    BY <1>3, <1>4
<1>6. s \in Seq(Value) /\ Len(s) = k
    BY <1>3, <1>4, <1>5
<1>7. ASSUME NEW i \in 1..k PROVE node_data(c, Follow(c.next, c.head, i - 1)) = s[i]
    <2>1. Follow(c.next, c.head, i - 1) = p[i - 1]
        BY <1>3, <1>5, FollowPath
    <2>. QED  BY <1>5, <2>1 DEF node_data
<1>8. for_each(c) = s
    BY <1>2, <1>4, <1>7 DEF for_each
<1>9. ASSUME NEW i \in 1..k PROVE peek_at(c, i - 1) = s[i]
    <2>1. node_at(c, i - 1) = p[i - 1]
        <3>1. PICK j \in Nat : j = i - 1
            BY <1>5
        <3>2. j \in Nat /\ j < k /\ c.size = k /\ Listed(c, k, p, q, m, Nil)
            BY <1>2, <1>3, <1>5, <3>1
        <3>3. node_at(c, j) = p[j]
            BY ONLY <3>2, NodeAt, Zenon
        <3>. QED  BY <3>1, <3>3
    <2>. QED  BY <1>5, <2>1 DEF peek_at, node_data
<1>10. ASSUME doubly, NEW i \in 1..k PROVE for_each_reverse(c)[i] = s[k + 1 - i]
    <2>1. PICK b : b = [j \in Nat |-> IF j < k THEN p[(k - 1) - j] ELSE Nil]
        OBVIOUS
    <2>2. Path(c.prev, c.tail, b, k)
        BY <1>3, <1>10, <2>1, BackwardsPath
    <2>3. k + 1 - i \in 1..k /\ (k + 1 - i) - 1 = (k - 1) - (i - 1) /\ i - 1 \in Nat /\ i - 1 < k
        BY <1>3
    <2>4. Follow(c.prev, c.tail, i - 1) = p[(k - 1) - (i - 1)]
        BY <2>1, <2>2, <2>3, FollowPath
    <2>5. for_each_reverse(c)[i] = node_data(c, Follow(c.prev, c.tail, i - 1))
        BY <1>2 DEF for_each_reverse
    <2>6. s[k + 1 - i] = c.data[p[(k + 1 - i) - 1]] /\ p[(k + 1 - i) - 1] # Nil
        BY <1>5, <2>3
    <2>. QED  BY <2>3, <2>4, <2>5, <2>6 DEF node_data
<1>. QED  BY <1>2, <1>3, <1>6, <1>8, <1>9, <1>10
-----------------------------------------------------------------------------
(***************************************************************************)
(* Sequences                                                               *)
(***************************************************************************)

\* s with v after its first i elements, and without its element i.
Widened(s, i, v) ==
    [j \in 1..(Len(s) + 1) |-> IF j <= i THEN s[j] ELSE IF j = i + 1 THEN v ELSE s[j - 1]]
Narrowed(s, i) == [j \in 1..(Len(s) - 1) |-> IF j < i THEN s[j] ELSE s[j + 1]]

\* They are sequences, and so are concatenations and parts.
IsWidened(t, s, i, v) ==
    /\ t \in Seq(Value) /\ Len(t) = Len(s) + 1
    /\ \A j \in 1..(Len(s) + 1) : t[j] = IF j <= i THEN s[j] ELSE IF j = i + 1 THEN v ELSE s[j - 1]
IsNarrowed(t, s, i) ==
    /\ t \in Seq(Value) /\ Len(t) = Len(s) - 1
    /\ \A j \in 1..(Len(s) - 1) : t[j] = IF j < i THEN s[j] ELSE s[j + 1]
IsJoined(t, a, b) ==
    /\ t \in Seq(Value) /\ Len(t) = Len(a) + Len(b)
    /\ \A j \in 1..(Len(a) + Len(b)) : t[j] = IF j <= Len(a) THEN a[j] ELSE b[j - Len(a)]
IsPart(t, s, a, b) ==
    t \in Seq(Value) /\ Len(t) = b - a + 1 /\ \A j \in 1..(b - a + 1) : t[j] = s[a + j - 1]

\* Widened is a sequence one longer.
LEMMA WidenedSeq ==
    ASSUME NEW s \in Seq(Value), NEW v \in Value, NEW i \in 0..Len(s), NEW t, t = Widened(s, i, v)
    PROVE  IsWidened(t, s, i, v)
<1>1. Len(s) \in Nat /\ \A j \in 1..Len(s) : s[j] \in Value
    OBVIOUS
<1>2. \A j \in 1..(Len(s) + 1) : t[j] = IF j <= i THEN s[j] ELSE IF j = i + 1 THEN v ELSE s[j - 1]
    BY <1>1 DEF Widened
<1>3. \A j \in 1..(Len(s) + 1) : t[j] \in Value
    BY <1>1, <1>2
<1>4. t \in [1..(Len(s) + 1) -> Value]
    BY <1>3 DEF Widened
<1>5. t \in Seq(Value) /\ Len(t) = Len(s) + 1
    BY <1>1, <1>4
<1>. QED  BY <1>2, <1>5 DEF IsWidened

\* Narrowed is a sequence one shorter.
LEMMA NarrowedSeq ==
    ASSUME NEW s \in Seq(Value), s # <<>>, NEW i \in 1..Len(s), NEW t, t = Narrowed(s, i)
    PROVE  IsNarrowed(t, s, i)
<1>1. Len(s) \in Nat /\ Len(s) - 1 \in Nat /\ \A j \in 1..Len(s) : s[j] \in Value
    OBVIOUS
<1>2. \A j \in 1..(Len(s) - 1) : t[j] = IF j < i THEN s[j] ELSE s[j + 1]
    BY <1>1 DEF Narrowed
<1>3. \A j \in 1..(Len(s) - 1) : t[j] \in Value
    BY <1>1, <1>2
<1>4. t \in [1..(Len(s) - 1) -> Value]
    BY <1>3 DEF Narrowed
<1>5. PICK n \in Nat : n = Len(s) - 1
    BY <1>1
<1>6. t \in Seq(Value) /\ Len(t) = n
    BY <1>4, <1>5
<1>. QED  BY <1>2, <1>5, <1>6 DEF IsNarrowed

\* Concatenation, element by element.
LEMMA JoinedSeq ==
    ASSUME NEW a \in Seq(Value), NEW b \in Seq(Value), NEW t, t = a \o b
    PROVE  IsJoined(t, a, b)
BY ConcatProperties DEF IsJoined

\* The part of a sequence from a to b.
LEMMA PartOf ==
    ASSUME NEW s \in Seq(Value), NEW a \in 1..(Len(s) + 1), NEW b \in (a - 1)..Len(s),
           NEW t, t = SubSeq(s, a, b)
    PROVE  IsPart(t, s, a, b)
<1>1. Len(s) \in Nat /\ \A j \in 1..Len(s) : s[j] \in Value
    OBVIOUS
<1>2. a \in Int /\ b \in Int /\ \A j \in a..b : s[j] \in Value
    BY <1>1
<1>3. t \in Seq(Value) /\ Len(t) = (IF a <= b THEN b - a + 1 ELSE 0)
      /\ \A j \in 1..(b - a + 1) : t[j] = s[a + j - 1]
    BY <1>2, SubSeqProperties
<1>. QED  BY <1>1, <1>3 DEF IsPart

\* They are what the sequence operators compute.
LEMMA InsertedIs ==
    ASSUME NEW s \in Seq(Value), NEW v \in Value, NEW i \in 0..Len(s)
    PROVE  Widened(s, i, v) = S!InsertAt(s, i + 1, v)
<1>1. PICK a, b, d, e, t : /\ a = SubSeq(s, 1, i) /\ b = SubSeq(s, i + 1, Len(s)) /\ d = a \o <<v>>
                           /\ e = d \o b /\ t = Widened(s, i, v)
    OBVIOUS
<1>2. S!InsertAt(s, i + 1, v) = e
    <2>1. (i + 1) - 1 = i
        OBVIOUS
    <2>. QED  BY <1>1, <2>1 DEF S!InsertAt
<1>3. Len(s) \in Nat /\ <<v>> \in Seq(Value) /\ Len(<<v>>) = 1 /\ <<v>>[1] = v
    OBVIOUS
<1>4. /\ a \in Seq(Value) /\ Len(a) = i /\ \A j \in 1..i : a[j] = s[j]
      /\ b \in Seq(Value) /\ Len(b) = Len(s) - i /\ \A j \in 1..(Len(s) - i) : b[j] = s[i + j]
    <2>1. /\ 1 \in 1..(Len(s) + 1) /\ i \in (1 - 1)..Len(s) /\ i + 1 \in 1..(Len(s) + 1)
          /\ Len(s) \in ((i + 1) - 1)..Len(s)
        BY <1>3
    <2>2. IsPart(a, s, 1, i) /\ IsPart(b, s, i + 1, Len(s))
        BY <1>1, <2>1, PartOf
    <2>3. i - 1 + 1 = i /\ Len(s) - (i + 1) + 1 = Len(s) - i
        BY <1>3
    <2>4. a \in Seq(Value) /\ Len(a) = i /\ \A j \in 1..i : a[j] = s[1 + j - 1]
        BY <2>2, <2>3 DEF IsPart
    <2>5. b \in Seq(Value) /\ Len(b) = Len(s) - i
          /\ \A j \in 1..(Len(s) - i) : b[j] = s[(i + 1) + j - 1]
        BY <2>2, <2>3 DEF IsPart
    <2>6. \A j \in Int : 1 + j - 1 = j /\ (i + 1) + j - 1 = i + j
        OBVIOUS
    <2>7. \A j \in 1..i : a[j] = s[j]
        BY <2>4, <2>6
    <2>8. \A j \in 1..(Len(s) - i) : b[j] = s[i + j]
        BY <2>5, <2>6
    <2>. QED  BY <2>4, <2>5, <2>7, <2>8
<1>5. d \in Seq(Value) /\ Len(d) = i + 1
      /\ \A j \in 1..(i + 1) : d[j] = IF j <= i THEN a[j] ELSE <<v>>[j - i]
    <2>1. IsJoined(d, a, <<v>>)
        BY <1>1, <1>3, <1>4, JoinedSeq
    <2>. QED  BY <1>3, <1>4, <2>1 DEF IsJoined
<1>6. e \in Seq(Value) /\ Len(e) = Len(s) + 1
      /\ \A j \in 1..(Len(s) + 1) : e[j] = IF j <= i + 1 THEN d[j] ELSE b[j - (i + 1)]
    <2>1. (i + 1) + (Len(s) - i) = Len(s) + 1
        BY <1>3
    <2>2. IsJoined(e, d, b)
        BY <1>1, <1>4, <1>5, JoinedSeq
    <2>. QED  BY <1>4, <1>5, <2>1, <2>2 DEF IsJoined
<1>7. t \in Seq(Value) /\ Len(t) = Len(s) + 1
      /\ \A j \in 1..(Len(s) + 1) : t[j] = IF j <= i THEN s[j] ELSE IF j = i + 1 THEN v ELSE s[j - 1]
    <2>1. IsWidened(t, s, i, v)
        BY <1>1, WidenedSeq
    <2>. QED  BY <2>1 DEF IsWidened
<1>8. ASSUME NEW j \in 1..(Len(s) + 1) PROVE t[j] = e[j]
    <2>1. CASE j <= i
        <3>1. d[j] = a[j] /\ a[j] = s[j] /\ e[j] = d[j]
            BY <1>3, <1>4, <1>5, <1>6, <2>1
        <3>. QED  BY <1>7, <2>1, <3>1
    <2>2. CASE j = i + 1
        <3>1. e[j] = d[j] /\ j \in 1..(i + 1) /\ ~(j <= i) /\ j - i = 1
            BY <1>6, <2>2
        <3>2. d[j] = v
            BY <1>3, <1>5, <3>1
        <3>. QED  BY <1>7, <2>2, <3>1, <3>2
    <2>3. CASE j > i + 1
        <3>1. j - (i + 1) \in 1..(Len(s) - i) /\ i + (j - (i + 1)) = j - 1 /\ ~(j <= i + 1)
            BY <1>3, <2>3
        <3>2. e[j] = s[j - 1]
            BY <1>4, <1>6, <3>1
        <3>. QED  BY <1>7, <2>3, <3>2
    <2>. QED  BY <2>1, <2>2, <2>3
<1>9. t = e
    BY <1>6, <1>7, <1>8, SeqEqual
<1>. QED  BY <1>1, <1>2, <1>9

\* Widened at an end is what push_front and push_back promise.
LEMMA WidenedIs ==
    ASSUME NEW s \in Seq(Value), NEW v \in Value
    PROVE  Widened(s, 0, v) = <<v>> \o s /\ Widened(s, Len(s), v) = Append(s, v)
<1>1. Len(s) \in Nat /\ <<v>> \in Seq(Value) /\ Len(<<v>>) = 1 /\ <<v>>[1] = v
    OBVIOUS
<1>2. Widened(s, 0, v) = <<v>> \o s
    BY <1>1 DEF Widened
<1>3. Widened(s, Len(s), v) = Append(s, v)
    <2>1. PICK t, u : t = Widened(s, Len(s), v) /\ u = Append(s, v)
        OBVIOUS
    <2>2. Len(s) \in 0..Len(s)
        BY <1>1
    <2>3. t \in Seq(Value) /\ Len(t) = Len(s) + 1
          /\ \A j \in 1..(Len(s) + 1) : t[j] = IF j <= Len(s) THEN s[j] ELSE IF j = Len(s) + 1 THEN v ELSE s[j - 1]
        <3>1. IsWidened(t, s, Len(s), v)
            BY <2>1, <2>2, WidenedSeq
        <3>. QED  BY <3>1 DEF IsWidened
    <2>4. u \in Seq(Value) /\ Len(u) = Len(s) + 1
          /\ \A j \in 1..(Len(s) + 1) : u[j] = IF j <= Len(s) THEN s[j] ELSE v
        BY <1>1, <2>1
    <2>5. \A j \in 1..Len(t) : t[j] = u[j]
        BY <1>1, <2>3, <2>4
    <2>6. t = u
        BY <2>3, <2>4, <2>5, SeqEqual
    <2>. QED  BY <2>1, <2>6
<1>. QED  BY <1>2, <1>3

\* Narrowed is what the pops and remove_at promise.
LEMMA NarrowedIs ==
    ASSUME NEW s \in Seq(Value), s # <<>>
    PROVE  /\ Narrowed(s, 1) = Tail(s) /\ Narrowed(s, Len(s)) = S!Front(s)
           /\ \A i \in 1..Len(s) : Narrowed(s, i) = S!RemoveAt(s, i)
<1>1. Len(s) \in Nat /\ Len(s) # 0 /\ Len(s) - 1 \in Nat
    OBVIOUS
<1>2. Narrowed(s, 1) = Tail(s)
    <2>1. PICK t, u : t = Narrowed(s, 1) /\ u = Tail(s)
        OBVIOUS
    <2>2. t \in Seq(Value) /\ Len(t) = Len(s) - 1
          /\ \A j \in 1..(Len(s) - 1) : t[j] = IF j < 1 THEN s[j] ELSE s[j + 1]
        <3>1. 1 \in 1..Len(s)
            BY <1>1
        <3>2. IsNarrowed(t, s, 1)
            BY <2>1, <3>1, NarrowedSeq
        <3>. QED  BY <3>2 DEF IsNarrowed
    <2>3. u \in Seq(Value) /\ Len(u) = Len(s) - 1 /\ \A j \in 1..(Len(s) - 1) : u[j] = s[j + 1]
        BY <2>1, HeadTailProperties
    <2>4. ASSUME NEW j \in 1..Len(t) PROVE t[j] = u[j]
        BY <1>1, <2>2, <2>3, <2>4
    <2>5. t = u
        BY <2>2, <2>3, <2>4, SeqEqual
    <2>. QED  BY <2>1, <2>5
<1>3. Narrowed(s, Len(s)) = S!Front(s)
    <2>1. PICK t, u : t = Narrowed(s, Len(s)) /\ u = SubSeq(s, 1, Len(s) - 1)
        OBVIOUS
    <2>2. t \in Seq(Value) /\ Len(t) = Len(s) - 1
          /\ \A j \in 1..(Len(s) - 1) : t[j] = IF j < Len(s) THEN s[j] ELSE s[j + 1]
        <3>1. Len(s) \in 1..Len(s)
            BY <1>1
        <3>2. IsNarrowed(t, s, Len(s))
            BY <2>1, <3>1, NarrowedSeq
        <3>. QED  BY <3>2 DEF IsNarrowed
    <2>3. u \in Seq(Value) /\ Len(u) = Len(s) - 1 /\ \A j \in 1..(Len(s) - 1) : u[j] = s[j]
        <3>1. 1 \in 1..(Len(s) + 1) /\ Len(s) - 1 \in (1 - 1)..Len(s)
            BY <1>1
        <3>2. IsPart(u, s, 1, Len(s) - 1)
            BY <2>1, <3>1, PartOf
        <3>3. (Len(s) - 1) - 1 + 1 = Len(s) - 1 /\ \A j \in Int : 1 + j - 1 = j
            BY <1>1
        <3>. QED  BY <3>2, <3>3 DEF IsPart
    <2>4. ASSUME NEW j \in 1..Len(t) PROVE t[j] = u[j]
        BY <1>1, <2>2, <2>3, <2>4
    <2>5. t = u
        BY <2>2, <2>3, <2>4, SeqEqual
    <2>. QED  BY <2>1, <2>5 DEF S!Front
<1>4. ASSUME NEW i \in 1..Len(s) PROVE Narrowed(s, i) = S!RemoveAt(s, i)
    <2>1. PICK a, b, e, t : /\ a = SubSeq(s, 1, i - 1) /\ b = SubSeq(s, i + 1, Len(s)) /\ e = a \o b
                            /\ t = Narrowed(s, i)
        OBVIOUS
    <2>2. /\ a \in Seq(Value) /\ Len(a) = i - 1 /\ \A j \in 1..(i - 1) : a[j] = s[j]
          /\ b \in Seq(Value) /\ Len(b) = Len(s) - i /\ \A j \in 1..(Len(s) - i) : b[j] = s[i + j]
        <3>1. /\ 1 \in 1..(Len(s) + 1) /\ i - 1 \in (1 - 1)..Len(s) /\ i + 1 \in 1..(Len(s) + 1)
              /\ Len(s) \in ((i + 1) - 1)..Len(s)
            BY <1>1
        <3>2. IsPart(a, s, 1, i - 1) /\ IsPart(b, s, i + 1, Len(s))
            BY <2>1, <3>1, PartOf
        <3>3. (i - 1) - 1 + 1 = i - 1 /\ Len(s) - (i + 1) + 1 = Len(s) - i
            BY <1>1
        <3>4. a \in Seq(Value) /\ Len(a) = i - 1 /\ \A j \in 1..(i - 1) : a[j] = s[1 + j - 1]
            BY <3>2, <3>3 DEF IsPart
        <3>5. b \in Seq(Value) /\ Len(b) = Len(s) - i
              /\ \A j \in 1..(Len(s) - i) : b[j] = s[(i + 1) + j - 1]
            BY <3>2, <3>3 DEF IsPart
        <3>6. \A j \in Int : 1 + j - 1 = j /\ (i + 1) + j - 1 = i + j
            OBVIOUS
        <3>. QED  BY <3>4, <3>5, <3>6
    <2>3. e \in Seq(Value) /\ Len(e) = Len(s) - 1
          /\ \A j \in 1..(Len(s) - 1) : e[j] = IF j <= i - 1 THEN a[j] ELSE b[j - (i - 1)]
        <3>1. (i - 1) + (Len(s) - i) = Len(s) - 1
            BY <1>1
        <3>2. IsJoined(e, a, b)
            BY <2>1, <2>2, JoinedSeq
        <3>. QED  BY <2>2, <3>1, <3>2 DEF IsJoined
    <2>4. t \in Seq(Value) /\ Len(t) = Len(s) - 1
          /\ \A j \in 1..(Len(s) - 1) : t[j] = IF j < i THEN s[j] ELSE s[j + 1]
        <3>1. IsNarrowed(t, s, i)
            BY <2>1, NarrowedSeq
        <3>. QED  BY <3>1 DEF IsNarrowed
    <2>5. ASSUME NEW j \in 1..(Len(s) - 1) PROVE t[j] = e[j]
        <3>1. CASE j < i
            <4>1. j \in 1..(i - 1) /\ j <= i - 1
                BY <1>1, <3>1
            <4>. QED  BY <2>2, <2>3, <2>4, <3>1, <4>1
        <3>2. CASE j >= i
            <4>1. j - (i - 1) \in 1..(Len(s) - i) /\ i + (j - (i - 1)) = j + 1 /\ ~(j <= i - 1) /\ ~(j < i)
                BY <1>1, <3>2
            <4>. QED  BY <2>2, <2>3, <2>4, <4>1
        <3>. QED  BY <3>1, <3>2
    <2>6. t = e
        BY <2>3, <2>4, <2>5, SeqEqual
    <2>. QED  BY <2>1, <2>6 DEF S!RemoveAt
<1>. QED  BY <1>2, <1>3, <1>4
-----------------------------------------------------------------------------
(***************************************************************************)
(* The outcomes of the calls                                               *)
(***************************************************************************)

\* A call on a list of the elements s leaves t when it succeeds and s when it does
\* not, and delivers nothing but e.
Answers(r, s, t, e) == Shows(r.core, IF r.st = "ok" THEN t ELSE s) /\ r.got \in {NoItem, e}

\* The elements do not depend on what other nodes hold.
LEMMA SameElements ==
    ASSUME NEW c, NEW k \in Nat, NEW p, NEW q, NEW m, NEW n, Listed(c, k, p, q, m, n), NEW d, NEW x,
           \A j \in Nat : j < k => p[j] # x, \A y \in Node : y # x => d.data[y] = c.data[y]
    PROVE  Elements(d, k, p) = Elements(c, k, p)
<1>1. \A j \in Nat : j < k => p[j] \in Node
    BY ListedFacts
<1>2. ASSUME NEW i \in 1..k PROVE d.data[p[i - 1]] = c.data[p[i - 1]]
    <2>1. i - 1 \in Nat /\ i - 1 < k
        OBVIOUS
    <2>. QED  BY <1>1, <2>1
<1>. QED  BY <1>2 DEF Elements

\* What make_node has made of the list c when it succeeds.
NewNode(c, k, p, v, n, d) ==
    /\ n \in Node /\ d.size = k /\ d.data[n] = v
    /\ \E q, m : Listed(d, k, p, q, m, n)
    /\ \A x \in Node : x # n => d.data[x] = c.data[x]

\* make_node gives out a loose node with the value, or puts the node back.
LEMMA MakeListed ==
    ASSUME NEW c, NEW k, NEW p, NEW q, NEW m, Listed(c, k, p, q, m, Nil), c.size = k,
           NEW v \in Value, NEW r \in make_node(c, v)
    PROVE  \/ r.st # "ok" /\ r.got = NoItem /\ Shows(r.core, Elements(c, k, p))
           \/ \E n \in Node : \E d : r = Made(n, d) /\ NewNode(c, k, p, v, n, d)
<1>1. PICK r0 \in acquire_node(c) :
        r \in IF r0.st = "ok" THEN {[r0 EXCEPT !.core.data[r0.node] = v],
                                    Fail("copy", release_node(r0.core, r0.node))} ELSE {r0}
    BY DEF make_node
<1>2. CASE r0.st # "ok" /\ r0 = Fail(r0.st, c)
    <2>1. r = Fail(r0.st, c)
        BY <1>1, <1>2
    <2>2. r.st # "ok" /\ r.got = NoItem /\ r.core = c
        BY <1>2, <2>1 DEF Fail
    <2>. QED  BY <2>2 DEF Shows
<1>3. ASSUME NEW n \in Node, NEW d, NEW q2, NEW m2, r0 = Made(n, d), Listed(d, k, p, q2, m2, n),
             d.size = c.size, d.data = c.data
      PROVE  \/ r.st # "ok" /\ r.got = NoItem /\ Shows(r.core, Elements(c, k, p))
             \/ \E f : r = Made(n, f) /\ NewNode(c, k, p, v, n, f)
    <2>1. r0.st = "ok" /\ r0.node = n /\ r0.core = d
        BY <1>3 DEF Made
    <2>2. k \in Nat /\ Memory(d) /\ d.data \in [Node -> Value \cup {NoItem}]
          /\ \A j \in Nat : j < k => p[j] \in Node /\ p[j] # n
        BY <1>3, ListedFacts DEF Memory
    <2>3. CASE r = [r0 EXCEPT !.core.data[r0.node] = v]
        <3>1. PICK dt, f : dt = [d.data EXCEPT ![n] = v] /\ f = [d EXCEPT !.data = dt]
            OBVIOUS
        <3>2. r = Made(n, f)
            <4>1. r0 = [st |-> "ok", node |-> n, core |-> d, got |-> NoItem]
                BY <1>3 DEF Made
            <4>2. r = [r0 EXCEPT !.core = [d EXCEPT !.data = [d.data EXCEPT ![n] = v]]]
                BY <2>1, <2>3, <4>1
            <4>3. r = [r0 EXCEPT !.core = f]
                BY <3>1, <4>2
            <4>. QED  BY <4>1, <4>3 DEF Made
        <3>3. f = [head |-> d.head, tail |-> d.tail, size |-> d.size, next |-> d.next,
                   prev |-> d.prev, free |-> d.free, data |-> dt, heap |-> d.heap]
            BY <2>2, <3>1 DEF Memory
        <3>4. dt \in [Node -> Value \cup {NoItem}] /\ dt[n] = v /\ \A x \in Node : x # n => dt[x] = d.data[x]
            BY <2>2, <3>1
        <3>5. Memory(f) /\ f.size = k /\ f.data = dt
            BY <1>3, <2>2, <3>3, <3>4 DEF Memory
        <3>6. Linked(f, k, p)
            BY <1>3, <2>2, <3>3, <3>4 DEF Listed, Linked
        <3>7. Unused(f, k, p, q2, m2, n)
            BY <1>3, <3>3 DEF Listed, Unused
        <3>8. NewNode(c, k, p, v, n, f)
            BY <1>3, <3>4, <3>5, <3>6, <3>7 DEF NewNode, Listed
        <3>. QED  BY <3>2, <3>8
    <2>4. CASE r = Fail("copy", release_node(r0.core, r0.node))
        <3>1. PICK f : f = release_node(d, n)
            OBVIOUS
        <3>2. PICK q3, m3 : Listed(f, k, p, q3, m3, Nil)
            BY <1>3, <3>1, ReleaseListed
        <3>3. f.size = d.size /\ \A x \in Node : x # n => f.data[x] = d.data[x]
            BY <1>3, <3>1, ReleaseListed
        <3>4. Elements(f, k, p) = Elements(c, k, p)
            BY <1>3, <2>2, <3>3, SameElements
        <3>5. Shows(f, Elements(c, k, p))
            BY <1>3, <3>2, <3>3, <3>4 DEF Shows
        <3>6. r = Fail("copy", f)
            BY <2>1, <2>4, <3>1
        <3>. QED  BY <3>5, <3>6 DEF Fail
    <2>. QED  BY <1>1, <2>1, <2>3, <2>4
<1>. QED  BY <1>2, <1>3, AcquireListed

\* Inserted at position i.
LEMMA EnterAnswers ==
    ASSUME NEW c, NEW k, NEW p, NEW q, NEW m, Listed(c, k, p, q, m, Nil), c.size = k,
           NEW v \in Value, NEW n, NEW d, NewNode(c, k, p, v, n, d),
           NEW i \in 0..k, NEW u, Enters(d, k, p, i, n, u),
           NEW r, r = Done([u EXCEPT !.size = @ + 1]), NEW s, s = Elements(c, k, p)
    PROVE  Answers(r, s, Widened(s, i, v), NoItem)
<1>1. n \in Node /\ d.size = k /\ d.data[n] = v /\ \A x \in Node : x # n => d.data[x] = c.data[x]
    BY DEF NewNode
<1>2. PICK q2, m2 : Listed(d, k, p, q2, m2, n)
    BY DEF NewNode
<1>3. PICK w, f : w = With(p, i, n) /\ f = [u EXCEPT !.size = @ + 1]
    OBVIOUS
<1>4. Listed(u, k + 1, w, q2, m2, Nil)
    BY <1>1, <1>2, <1>3, EntersListed
<1>5. Memory(u) /\ u.size = k /\ u.data = d.data
    BY <1>1 DEF Enters
<1>6. f = [head |-> u.head, tail |-> u.tail, size |-> k + 1, next |-> u.next,
           prev |-> u.prev, free |-> u.free, data |-> u.data, heap |-> u.heap]
    BY <1>3, <1>5 DEF Memory
<1>7. Memory(f)
    BY <1>5, <1>6 DEF Memory
<1>8. Linked(f, k + 1, w) /\ Unused(f, k + 1, w, q2, m2, Nil) /\ f.size = k + 1 /\ f.data = d.data
    BY <1>4, <1>5, <1>6 DEF Listed, Linked, Unused
<1>9. /\ k \in Nat /\ p \in [Nat -> Nat] /\ i \in Nat /\ i <= k
      /\ \A j \in Nat : j < k => p[j] \in Node /\ p[j] # n
    BY <1>1, <1>2, ListedFacts
<1>10. /\ w[i] = n
       /\ \A j \in Nat : j < i => w[j] = p[j]
       /\ \A j \in Nat : j > i => w[j] = p[j - 1]
    BY <1>3, <1>9 DEF With
<1>11. Len(s) = k /\ \A j \in 1..k : s[j] = c.data[p[j - 1]]
    BY <1>9 DEF Elements
<1>12. ASSUME NEW j \in 1..(k + 1)
       PROVE  d.data[w[j - 1]] = IF j <= i THEN s[j] ELSE IF j = i + 1 THEN v ELSE s[j - 1]
    <2>1. CASE j <= i
        <3>1. j - 1 \in Nat /\ j - 1 < i /\ j - 1 < k /\ j \in 1..k
            BY <1>9, <2>1
        <3>2. w[j - 1] = p[j - 1] /\ p[j - 1] \in Node /\ p[j - 1] # n
            BY <1>9, <1>10, <3>1
        <3>3. d.data[w[j - 1]] = c.data[p[j - 1]]
            BY <1>1, <3>2
        <3>. QED  BY <1>11, <2>1, <3>1, <3>3
    <2>2. CASE j = i + 1
        BY <1>1, <1>9, <1>10, <2>2
    <2>3. CASE j > i + 1
        <3>1. j - 1 \in Nat /\ j - 1 > i /\ (j - 1) - 1 \in Nat /\ (j - 1) - 1 < k /\ j - 1 \in 1..k
            BY <1>9, <2>3
        <3>2. w[j - 1] = p[(j - 1) - 1] /\ p[(j - 1) - 1] \in Node /\ p[(j - 1) - 1] # n
            BY <1>9, <1>10, <3>1
        <3>3. d.data[w[j - 1]] = c.data[p[(j - 1) - 1]]
            BY <1>1, <3>2
        <3>. QED  BY <1>11, <2>3, <3>1, <3>3
    <2>. QED  BY <1>9, <2>1, <2>2, <2>3
<1>13. Elements(f, k + 1, w) = Widened(s, i, v)
    <2>1. Elements(f, k + 1, w) = [j \in 1..(k + 1) |-> d.data[w[j - 1]]]
        BY <1>8 DEF Elements
    <2>2. Widened(s, i, v) = [j \in 1..(k + 1) |-> IF j <= i THEN s[j] ELSE IF j = i + 1 THEN v ELSE s[j - 1]]
        BY <1>11 DEF Widened
    <2>. QED  BY <1>12, <2>1, <2>2
<1>14. Shows(f, Widened(s, i, v))
    BY <1>7, <1>8, <1>13 DEF Shows, Listed
<1>15. r.st = "ok" /\ r.core = f /\ r.got = NoItem
    BY <1>3 DEF Done
<1>. QED  BY <1>14, <1>15 DEF Answers

\* Taken out from position i.
LEMMA LeaveShows ==
    ASSUME NEW c, NEW k, NEW p, NEW q, NEW m, Listed(c, k, p, q, m, Nil), c.size = k,
           NEW i \in Nat, i < k, NEW u, Leaves(c, k, p, i, u), NEW g, g = release_node(u, p[i]),
           NEW f, f = [g EXCEPT !.size = @ - 1], NEW s, s = Elements(c, k, p)
    PROVE  Shows(f, Narrowed(s, i + 1))
<1>1. PICK w : w = Without(p, i)
    OBVIOUS
<1>2. /\ k \in Nat /\ p \in [Nat -> Nat] /\ p[i] \in Node /\ k - 1 \in Nat
      /\ \A j \in Nat : j < k => p[j] \in Node
      /\ \A a, b \in Nat : a < k /\ b < k /\ p[a] = p[b] => a = b
    BY ListedFacts
<1>3. Listed(u, k - 1, w, q, m, p[i])
    BY <1>1, LeavesListed
<1>4. PICK q2, m2 : Listed(g, k - 1, w, q2, m2, Nil)
    BY <1>2, <1>3, ReleaseListed
<1>5. g.size = u.size /\ \A x \in Node : x # p[i] => g.data[x] = u.data[x]
    BY <1>2, <1>3, ReleaseListed
<1>6. u.size = k /\ \A x \in Node : x # p[i] => u.data[x] = c.data[x]
    BY DEF Leaves
<1>7. Memory(g)
    BY <1>4 DEF Listed
<1>8. f = [head |-> g.head, tail |-> g.tail, size |-> k - 1, next |-> g.next,
           prev |-> g.prev, free |-> g.free, data |-> g.data, heap |-> g.heap]
    BY <1>5, <1>6, <1>7 DEF Memory
<1>9. Memory(f)
    BY <1>7, <1>8 DEF Memory
<1>10. Linked(f, k - 1, w) /\ Unused(f, k - 1, w, q2, m2, Nil) /\ f.size = k - 1 /\ f.data = g.data
    BY <1>4, <1>8 DEF Listed, Linked, Unused
<1>11. /\ \A j \in Nat : j < i => w[j] = p[j]
       /\ \A j \in Nat : j >= i => w[j] = p[j + 1]
    BY <1>1, <1>2 DEF Without
<1>12. Len(s) = k /\ \A j \in 1..k : s[j] = c.data[p[j - 1]]
    BY <1>2 DEF Elements
<1>13. ASSUME NEW a \in Nat, a < k, a # i PROVE g.data[p[a]] = s[a + 1]
    <2>1. p[a] \in Node /\ p[a] # p[i]
        BY <1>2, <1>13
    <2>2. g.data[p[a]] = c.data[p[a]]
        BY <1>5, <1>6, <2>1
    <2>3. a + 1 \in 1..k /\ (a + 1) - 1 = a
        BY <1>2, <1>13
    <2>. QED  BY <1>12, <2>2, <2>3
<1>14. ASSUME NEW j \in 1..(k - 1)
       PROVE  g.data[w[j - 1]] = IF j < i + 1 THEN s[j] ELSE s[j + 1]
    <2>1. CASE j < i + 1
        <3>1. j - 1 \in Nat /\ j - 1 < i /\ j - 1 < k /\ j - 1 # i /\ (j - 1) + 1 = j
            BY <1>2, <2>1
        <3>. QED  BY <1>11, <1>13, <2>1, <3>1
    <2>2. CASE j >= i + 1
        <3>1. j - 1 \in Nat /\ j - 1 >= i /\ (j - 1) + 1 = j /\ j \in Nat /\ j < k /\ j # i /\ ~(j < i + 1)
            BY <1>2, <2>2
        <3>. QED  BY <1>11, <1>13, <3>1
    <2>. QED  BY <2>1, <2>2
<1>15. Elements(f, k - 1, w) = Narrowed(s, i + 1)
    <2>1. Elements(f, k - 1, w) = [j \in 1..(k - 1) |-> g.data[w[j - 1]]]
        BY <1>10 DEF Elements
    <2>2. Narrowed(s, i + 1) = [j \in 1..(k - 1) |-> IF j < i + 1 THEN s[j] ELSE s[j + 1]]
        BY <1>12 DEF Narrowed
    <2>. QED  BY <1>14, <2>1, <2>2, ZenonT(40)
<1>. QED  BY <1>9, <1>10, <1>15 DEF Shows, Listed

\* The core whose node is destroyed before it is unlinked.
Destroyed(c, n) == [c EXCEPT !.data[n] = NoItem]

\* Destroying the object of a node leaves every link.
LEMMA DestroyedLinks ==
    ASSUME NEW c, Memory(c), NEW n \in Node
    PROVE  SameLinks(c, c, n) /\ SameLinks(c, Destroyed(c, n), n)
<1>1. SameLinks(c, c, n)
    BY DEF SameLinks
<1>2. PICK dt, d : dt = [c.data EXCEPT ![n] = NoItem] /\ d = Destroyed(c, n)
    OBVIOUS
<1>3. d = [head |-> c.head, tail |-> c.tail, size |-> c.size, next |-> c.next,
           prev |-> c.prev, free |-> c.free, data |-> dt, heap |-> c.heap]
    BY <1>2 DEF Destroyed, Memory
<1>4. dt \in [Node -> Value \cup {NoItem}] /\ \A x \in Node : x # n => dt[x] = c.data[x]
    BY <1>2 DEF Memory
<1>5. Memory(d)
    BY <1>3, <1>4 DEF Memory
<1>6. SameLinks(c, d, n)
    BY <1>3, <1>4, <1>5 DEF SameLinks
<1>. QED  BY <1>1, <1>2, <1>6

\* The three outcomes of taking out the node at position i.
TakenWith(c, n, u, w) ==
    {Fail("copy", c), [Done([release_node(u, n) EXCEPT !.size = @ - 1]) EXCEPT !.got = c.data[n]],
     Done([release_node(w, n) EXCEPT !.size = @ - 1])}

\* A removal answers with the element, or destroys it, or fails and changes nothing.
LEMMA LeaveAnswers ==
    ASSUME NEW c, NEW k, NEW p, NEW q, NEW m, Listed(c, k, p, q, m, Nil), c.size = k,
           NEW i \in Nat, i < k, NEW u, Leaves(c, k, p, i, u), NEW w, Leaves(c, k, p, i, w),
           NEW s, s = Elements(c, k, p), NEW r \in TakenWith(c, p[i], u, w)
    PROVE  Answers(r, s, Narrowed(s, i + 1), s[i + 1])
<1>1. PICK g, h, y, z : /\ g = release_node(u, p[i]) /\ y = [g EXCEPT !.size = @ - 1]
                        /\ h = release_node(w, p[i]) /\ z = [h EXCEPT !.size = @ - 1]
    OBVIOUS
<1>2. Shows(c, s) /\ Shows(y, Narrowed(s, i + 1)) /\ Shows(z, Narrowed(s, i + 1))
    <2>1. Shows(c, s)
        BY DEF Shows
    <2>2. Shows(y, Narrowed(s, i + 1))
        BY <1>1, LeaveShows
    <2>3. Shows(z, Narrowed(s, i + 1))
        BY <1>1, LeaveShows
    <2>. QED  BY <2>1, <2>2, <2>3
<1>3. s[i + 1] = c.data[p[i]]
    <2>1. i + 1 \in 1..k /\ (i + 1) - 1 = i
        BY ListedFacts
    <2>. QED  BY <2>1 DEF Elements
<1>4. CASE r = Fail("copy", c)
    BY <1>2, <1>4 DEF Fail, Answers
<1>5. CASE r = [Done(y) EXCEPT !.got = c.data[p[i]]]
    <2>1. r.st = "ok" /\ r.core = y /\ r.got = c.data[p[i]]
        BY <1>5 DEF Done
    <2>. QED  BY <1>2, <1>3, <2>1 DEF Answers
<1>6. CASE r = Done(z)
    <2>1. r.st = "ok" /\ r.core = z /\ r.got = NoItem
        BY <1>6 DEF Done
    <2>. QED  BY <1>2, <2>1 DEF Answers
<1>. QED  BY <1>1, <1>4, <1>5, <1>6 DEF TakenWith

-----------------------------------------------------------------------------
(***************************************************************************)
(* The calls                                                               *)
(***************************************************************************)

\* The two ends of make_node: nothing changed, or a new node to link.
LEMMA MakeAnswers ==
    ASSUME NEW c, NEW k, NEW p, NEW q, NEW m, Listed(c, k, p, q, m, Nil), c.size = k,
           NEW s, s = Elements(c, k, p), NEW v \in Value, NEW r \in make_node(c, v), NEW t
    PROVE  /\ r.st # "ok" => Answers(r, s, t, NoItem)
           /\ r.st = "ok" => /\ NewNode(c, k, p, v, r.node, r.core) /\ r.node \in Node
                             /\ \E q2, m2 : Listed(r.core, k, p, q2, m2, r.node)
<1>1. CASE r.st # "ok" /\ r.got = NoItem /\ Shows(r.core, s)
    BY <1>1 DEF Answers
<1>2. ASSUME NEW n \in Node, NEW d, r = Made(n, d), NewNode(c, k, p, v, n, d)
      PROVE  /\ r.st = "ok" /\ NewNode(c, k, p, v, r.node, r.core) /\ r.node \in Node
             /\ \E q2, m2 : Listed(r.core, k, p, q2, m2, r.node)
    <2>1. r.st = "ok" /\ r.node = n /\ r.core = d
        BY <1>2 DEF Made
    <2>. QED  BY <1>2, <2>1 DEF NewNode
<1>3. \/ r.st # "ok" /\ r.got = NoItem /\ Shows(r.core, s)
      \/ \E n \in Node : \E d : r = Made(n, d) /\ NewNode(c, k, p, v, n, d)
    BY MakeListed
<1>. QED  BY <1>1, <1>2, <1>3

\* push_front, whichever core: the new element is the first.
LEMMA InsertFrontAnswers ==
    ASSUME NEW c, NEW s, Shows(c, s), NEW v \in Value, NEW r \in insert_front(c, v)
    PROVE  Answers(r, s, Widened(s, 0, v), NoItem)
<1>1. PICK k, p, q, m : k = c.size /\ Listed(c, k, p, q, m, Nil) /\ s = Elements(c, k, p)
    BY DEF Shows
<1>2. PICK r0 \in make_node(c, v) :
        IF r0.st = "ok"
        THEN r = Done([(IF doubly THEN link_front(r0.core, r0.node)
                                  ELSE list_link_front(r0.core, r0.node)) EXCEPT !.size = @ + 1])
        ELSE r = r0
    BY DEF insert_front, Inserted
<1>3. CASE r0.st # "ok"
    BY <1>1, <1>2, <1>3, MakeAnswers
<1>4. CASE r0.st = "ok"
    <2>1. PICK u : u = IF doubly THEN link_front(r0.core, r0.node)
                                 ELSE list_link_front(r0.core, r0.node)
        OBVIOUS
    <2>2. NewNode(c, k, p, v, r0.node, r0.core) /\ r0.node \in Node
          /\ \E q2, m2 : Listed(r0.core, k, p, q2, m2, r0.node)
        BY <1>1, <1>2, <1>4, MakeAnswers
    <2>3. Enters(r0.core, k, p, 0, r0.node, u)
        BY <2>1, <2>2, FrontEnters
    <2>4. 0 \in 0..k
        BY <1>1, ListedFacts
    <2>5. r = Done([u EXCEPT !.size = @ + 1])
        BY <1>2, <1>4, <2>1
    <2>. QED  BY <1>1, <2>2, <2>3, <2>4, <2>5, EnterAnswers
<1>. QED  BY <1>3, <1>4

\* push_back, whichever core: the new element is the last.
LEMMA InsertBackAnswers ==
    ASSUME NEW c, NEW s, Shows(c, s), NEW v \in Value, NEW r \in insert_back(c, v)
    PROVE  Answers(r, s, Widened(s, Len(s), v), NoItem)
<1>1. PICK k, p, q, m : k = c.size /\ Listed(c, k, p, q, m, Nil) /\ s = Elements(c, k, p)
    BY DEF Shows
<1>2. PICK r0 \in make_node(c, v) :
        IF r0.st = "ok"
        THEN r = Done([(IF doubly THEN link_back(r0.core, r0.node)
                                  ELSE list_link_back(r0.core, r0.node)) EXCEPT !.size = @ + 1])
        ELSE r = r0
    BY DEF insert_back, Inserted
<1>3. CASE r0.st # "ok"
    BY <1>1, <1>2, <1>3, MakeAnswers
<1>4. CASE r0.st = "ok"
    <2>1. PICK u : u = IF doubly THEN link_back(r0.core, r0.node)
                                 ELSE list_link_back(r0.core, r0.node)
        OBVIOUS
    <2>2. NewNode(c, k, p, v, r0.node, r0.core) /\ r0.node \in Node
          /\ \E q2, m2 : Listed(r0.core, k, p, q2, m2, r0.node)
        BY <1>1, <1>2, <1>4, MakeAnswers
    <2>3. Enters(r0.core, k, p, k, r0.node, u)
        BY <2>1, <2>2, BackEnters
    <2>4. k \in 0..k /\ Len(s) = k
        <3>1. c.size \in Nat /\ Len(s) = c.size
            BY WalksShow
        <3>. QED  BY <1>1, <3>1
    <2>5. r = Done([u EXCEPT !.size = @ + 1])
        BY <1>2, <1>4, <2>1
    <2>. QED  BY <1>1, <2>2, <2>3, <2>4, <2>5, EnterAnswers
<1>. QED  BY <1>3, <1>4

\* insert_at: the new element is before the one that was at i; past the end
\* the call is refused.
LEMMA InsertAtAnswers ==
    ASSUME NEW c, NEW s, Shows(c, s), NEW i \in Nat, NEW v \in Value, NEW r \in insert_at(c, i, v)
    PROVE  Answers(r, s, IF i <= Len(s) THEN Widened(s, i, v) ELSE s, NoItem)
<1>1. PICK k, p, q, m : k = c.size /\ Listed(c, k, p, q, m, Nil) /\ s = Elements(c, k, p)
    BY DEF Shows
<1>2. k \in Nat /\ Len(s) = k
    BY <1>1, WalksShow
<1>3. CASE i > k
    <2>1. insert_at(c, i, v) = {Fail("invalid", c)}
        BY <1>1, <1>2, <1>3 DEF insert_at
    <2>2. r.st = "invalid" /\ r.core = c /\ r.got = NoItem
        BY <2>1 DEF Fail
    <2>. QED  BY <2>2 DEF Answers
<1>4. CASE i = 0
    <2>1. r \in insert_front(c, v)
        BY <1>1, <1>2, <1>4 DEF insert_at
    <2>2. i <= Len(s)
        BY <1>2, <1>4
    <2>. QED  BY <1>4, <2>1, <2>2, InsertFrontAnswers
<1>5. CASE i = k /\ i # 0
    <2>1. r \in insert_back(c, v)
        BY <1>1, <1>2, <1>5 DEF insert_at
    <2>2. i <= Len(s) /\ i = Len(s)
        BY <1>2, <1>5
    <2>. QED  BY <2>1, <2>2, InsertBackAnswers
<1>6. CASE i # 0 /\ i < k
    <2>0. i \in Nat /\ i - 1 \in Nat /\ i - 1 < k
        BY <1>2, <1>6
    <2>1. list_node_at(c, i) = p[i] /\ (doubly => dlist_node_at(c, i) = p[i])
        BY <1>1, <1>6, NodeAt, ZenonT(40)
    <2>2. list_node_at(c, i - 1) = p[i - 1]
        BY <1>1, <2>0, NodeAt, ZenonT(40)
    <2>3. r \in IF doubly THEN dlist_insert_middle(c, i, v) ELSE list_insert_middle(c, i, v)
        BY <1>1, <1>2, <1>6 DEF insert_at
    <2>4. PICK r0 \in make_node(c, v) :
            IF r0.st = "ok"
            THEN r = Done([(IF doubly THEN link_before(r0.core, p[i], r0.node)
                            ELSE [r0.core EXCEPT !.next[r0.node] = p[i],
                                                 !.next[p[i - 1]] = r0.node]) EXCEPT !.size = @ + 1])
            ELSE r = r0
        <3>1. CASE doubly
            BY <2>1, <2>3, <3>1 DEF dlist_insert_middle, Inserted
        <3>2. CASE ~doubly
            BY <2>1, <2>2, <2>3, <3>2 DEF list_insert_middle, Inserted
        <3>. QED  BY <3>1, <3>2
    <2>5. CASE r0.st # "ok"
        BY <1>1, <2>4, <2>5, MakeAnswers
    <2>6. CASE r0.st = "ok"
        <3>1. PICK u : u = IF doubly THEN link_before(r0.core, p[i], r0.node)
                           ELSE [r0.core EXCEPT !.next[r0.node] = p[i], !.next[p[i - 1]] = r0.node]
            OBVIOUS
        <3>2. NewNode(c, k, p, v, r0.node, r0.core) /\ r0.node \in Node
              /\ \E q2, m2 : Listed(r0.core, k, p, q2, m2, r0.node)
            BY <1>1, <2>4, <2>6, MakeAnswers
        <3>3. Enters(r0.core, k, p, i, r0.node, u)
            BY <1>6, <3>1, <3>2, MiddleEnters
        <3>4. i \in 0..k /\ i <= Len(s)
            BY <1>2, <1>6
        <3>5. r = Done([u EXCEPT !.size = @ + 1])
            BY <2>4, <2>6, <3>1
        <3>6. Answers(r, s, Widened(s, i, v), NoItem)
            BY <1>1, <3>2, <3>3, <3>4, <3>5, EnterAnswers
        <3>. QED  BY <3>4, <3>6
    <2>. QED  BY <2>5, <2>6
<1>. QED  BY <1>2, <1>3, <1>4, <1>5, <1>6

\* The removals as TakenWith.
LEMMA TakenIs ==
    ASSUME NEW c, NEW n, NEW i
    PROVE  /\ pop_node(c, n) = TakenWith(c, n, unlink_node(c, n), unlink_node(Destroyed(c, n), n))
           /\ n = c.head => list_pop_front(c) = TakenWith(c, n, unlink_front(c), unlink_front(Destroyed(c, n)))
           /\ n = list_node_at(c, c.size - 1) =>
                list_pop_back(c) = TakenWith(c, n, list_unlink_back(c), list_unlink_back(Destroyed(c, n)))
           /\ n = list_node_at(c, i) =>
                list_remove_middle(c, i) =
                  TakenWith(c, n, list_unlink_at(c, i), list_unlink_at(Destroyed(c, n), i))
<1>1. pop_node(c, n) = TakenWith(c, n, unlink_node(c, n), unlink_node(Destroyed(c, n), n))
    BY DEF pop_node, Taken, TakenWith, Destroyed
<1>2. ASSUME n = c.head
      PROVE  list_pop_front(c) = TakenWith(c, n, unlink_front(c), unlink_front(Destroyed(c, n)))
    BY <1>2 DEF list_pop_front, Taken, TakenWith, Destroyed
<1>3. ASSUME n = list_node_at(c, c.size - 1)
      PROVE  list_pop_back(c) = TakenWith(c, n, list_unlink_back(c), list_unlink_back(Destroyed(c, n)))
    BY <1>3 DEF list_pop_back, Taken, TakenWith, Destroyed
<1>4. ASSUME n = list_node_at(c, i)
      PROVE  list_remove_middle(c, i) =
               TakenWith(c, n, list_unlink_at(c, i), list_unlink_at(Destroyed(c, n), i))
    BY <1>4 DEF list_remove_middle, Taken, TakenWith, Destroyed
<1>. QED  BY <1>1, <1>2, <1>3, <1>4

\* dlist_core takes out any node it is given.
LEMMA PopNodeAnswers ==
    ASSUME doubly, NEW c, NEW k, NEW p, NEW q, NEW m, Listed(c, k, p, q, m, Nil), c.size = k,
           NEW i \in Nat, i < k, NEW s, s = Elements(c, k, p), NEW r \in pop_node(c, p[i])
    PROVE  Answers(r, s, Narrowed(s, i + 1), s[i + 1])
<1>1. PICK d, u, w : /\ d = Destroyed(c, p[i]) /\ u = unlink_node(c, p[i]) /\ w = unlink_node(d, p[i])
    OBVIOUS
<1>2. SameLinks(c, c, p[i]) /\ SameLinks(c, d, p[i])
    BY <1>1, ListedFacts, DestroyedLinks
<1>3. Leaves(c, k, p, i, u)
    BY <1>1, <1>2, NodeLeaves
<1>4. Leaves(c, k, p, i, w)
    BY <1>1, <1>2, NodeLeaves
<1>5. r \in TakenWith(c, p[i], u, w)
    BY <1>1, TakenIs
<1>. QED  BY <1>3, <1>4, <1>5, LeaveAnswers

\* pop_front of a list that has elements takes the first.
LEMMA PopFrontAnswers ==
    ASSUME NEW c, NEW s, Shows(c, s), c.size # 0, NEW r \in pop_front(c)
    PROVE  Answers(r, s, Narrowed(s, 1), s[1])
<1>1. PICK k, p, q, m : k = c.size /\ Listed(c, k, p, q, m, Nil) /\ s = Elements(c, k, p)
    BY DEF Shows
<1>2. k \in Nat /\ k # 0 /\ 0 \in Nat /\ 0 < k /\ p[0] = c.head /\ p[0] \in Node /\ Memory(c) /\ 0 + 1 = 1
    BY <1>1, ListedFacts
<1>3. CASE doubly
    <2>1. r \in pop_node(c, p[0])
        BY <1>2, <1>3 DEF pop_front
    <2>2. Answers(r, s, Narrowed(s, 0 + 1), s[0 + 1])
        BY <1>1, <1>2, <1>3, <2>1, PopNodeAnswers
    <2>. QED  BY <1>2, <2>2
<1>4. CASE ~doubly
    <2>1. PICK d, u, w : /\ d = Destroyed(c, p[0]) /\ u = unlink_front(c) /\ w = unlink_front(d)
        OBVIOUS
    <2>2. SameLinks(c, c, p[0]) /\ SameLinks(c, d, p[0])
        BY <1>2, <2>1, DestroyedLinks
    <2>3. Leaves(c, k, p, 0, u)
        BY <1>1, <1>2, <1>4, <2>1, <2>2, FrontLeaves
    <2>4. Leaves(c, k, p, 0, w)
        BY <1>1, <1>2, <1>4, <2>1, <2>2, FrontLeaves
    <2>5. r \in TakenWith(c, p[0], u, w)
        BY <1>2, <1>4, <2>1, TakenIs DEF pop_front
    <2>6. Answers(r, s, Narrowed(s, 0 + 1), s[0 + 1])
        BY <1>1, <1>2, <2>3, <2>4, <2>5, LeaveAnswers
    <2>. QED  BY <1>2, <2>6
<1>. QED  BY <1>3, <1>4

\* pop_back takes the last.
LEMMA PopBackAnswers ==
    ASSUME NEW c, NEW s, Shows(c, s), c.size # 0, NEW r \in pop_back(c)
    PROVE  Answers(r, s, Narrowed(s, Len(s)), s[Len(s)])
<1>1. PICK k, p, q, m : k = c.size /\ Listed(c, k, p, q, m, Nil) /\ s = Elements(c, k, p)
    BY DEF Shows
<1>2. k \in Nat /\ k # 0 /\ k - 1 \in Nat /\ k - 1 < k /\ p[k - 1] \in Node /\ Memory(c)
      /\ (k - 1) + 1 = k /\ c.tail = p[k - 1]
    <2>1. k \in Nat /\ k # 0 /\ k - 1 \in Nat /\ k - 1 < k /\ (k - 1) + 1 = k
        BY <1>1, ListedFacts
    <2>2. Memory(c) /\ c.tail = Before(p, k) /\ p[k - 1] \in Node
        BY <1>1, <2>1, ListedFacts
    <2>. QED  BY <2>1, <2>2 DEF Before
<1>3. Len(s) = k
    BY <1>1, WalksShow
<1>4. PICK i : i = k - 1
    OBVIOUS
<1>5. CASE doubly
    <2>1. r \in pop_node(c, p[i])
        BY <1>2, <1>4, <1>5 DEF pop_back
    <2>2. Answers(r, s, Narrowed(s, i + 1), s[i + 1])
        BY <1>1, <1>2, <1>4, <1>5, <2>1, PopNodeAnswers
    <2>. QED  BY <1>2, <1>3, <1>4, <2>2
<1>6. CASE ~doubly
    <2>1. PICK d, u, w : /\ d = Destroyed(c, p[i]) /\ u = list_unlink_back(c) /\ w = list_unlink_back(d)
        OBVIOUS
    <2>2. SameLinks(c, c, p[i]) /\ SameLinks(c, d, p[i])
        BY <1>2, <1>4, <2>1, DestroyedLinks
    <2>3. Leaves(c, k, p, k - 1, u)
        BY <1>1, <1>2, <1>4, <1>6, <2>1, <2>2, BackLeaves
    <2>4. Leaves(c, k, p, k - 1, w)
        BY <1>1, <1>2, <1>4, <1>6, <2>1, <2>2, BackLeaves
    <2>5. p[i] = list_node_at(c, c.size - 1)
        <3>1. i \in Nat /\ i < k /\ i = c.size - 1
            BY <1>1, <1>2, <1>4
        <3>2. list_node_at(c, i) = p[i]
            BY <1>1, <3>1, NodeAt, ZenonT(40)
        <3>. QED  BY <3>1, <3>2
    <2>6. r \in list_pop_back(c)
        BY <1>6 DEF pop_back
    <2>7. r \in TakenWith(c, p[i], u, w)
        BY <2>1, <2>5, <2>6, TakenIs
    <2>8. Answers(r, s, Narrowed(s, i + 1), s[i + 1])
        BY <1>1, <1>2, <1>4, <2>3, <2>4, <2>7, LeaveAnswers
    <2>. QED  BY <1>2, <1>3, <1>4, <2>8
<1>. QED  BY <1>5, <1>6

\* remove_at takes the element at i; past the end the call is refused.
LEMMA RemoveAtAnswers ==
    ASSUME NEW c, NEW s, Shows(c, s), NEW i \in Nat, NEW r \in remove_at(c, i)
    PROVE  /\ i < Len(s) => Answers(r, s, Narrowed(s, i + 1), s[i + 1])
           /\ i >= Len(s) => Answers(r, s, s, NoItem)
<1>1. PICK k, p, q, m : k = c.size /\ Listed(c, k, p, q, m, Nil) /\ s = Elements(c, k, p)
    BY DEF Shows
<1>2. k \in Nat /\ Len(s) = k /\ Memory(c)
    BY <1>1, WalksShow, ListedFacts
<1>3. CASE i >= k
    <2>1. remove_at(c, i) = {Fail("invalid", c)}
        BY <1>1, <1>2, <1>3 DEF remove_at
    <2>2. r.st = "invalid" /\ r.core = c /\ r.got = NoItem
        BY <2>1 DEF Fail
    <2>3. Answers(r, s, s, NoItem)
        BY <2>2 DEF Answers
    <2>. QED  BY <1>2, <1>3, <2>3
<1>4. CASE i = 0 /\ i < k
    <2>1. r \in pop_front(c) /\ c.size # 0
        BY <1>1, <1>2, <1>4 DEF remove_at
    <2>2. Answers(r, s, Narrowed(s, 1), s[1])
        BY <2>1, PopFrontAnswers
    <2>. QED  BY <1>2, <1>4, <2>2
<1>5. CASE i = k - 1 /\ 0 < i
    <2>1. r \in pop_back(c) /\ c.size # 0
        BY <1>1, <1>2, <1>5 DEF remove_at
    <2>2. Answers(r, s, Narrowed(s, Len(s)), s[Len(s)])
        BY <2>1, PopBackAnswers
    <2>3. i + 1 = Len(s) /\ i < Len(s)
        BY <1>2, <1>5
    <2>. QED  BY <2>2, <2>3
<1>6. CASE i # 0 /\ i + 1 < k
    <2>1. r \in IF doubly THEN dlist_remove_middle(c, i) ELSE list_remove_middle(c, i)
        BY <1>1, <1>2, <1>6 DEF remove_at
    <2>2. i \in Nat /\ i < k
        BY <1>2, <1>6
    <2>3. list_node_at(c, i) = p[i] /\ (doubly => dlist_node_at(c, i) = p[i])
        BY <1>1, <2>2, NodeAt, ZenonT(40)
    <2>4. CASE doubly
        <3>1. r \in pop_node(c, p[i])
            BY <2>1, <2>3, <2>4 DEF dlist_remove_middle
        <3>2. Answers(r, s, Narrowed(s, i + 1), s[i + 1])
            BY <1>1, <2>2, <2>4, <3>1, PopNodeAnswers
        <3>. QED  BY <1>2, <2>2, <3>2
    <2>5. CASE ~doubly
        <3>1. PICK d, u, w : d = Destroyed(c, p[i]) /\ u = list_unlink_at(c, i) /\ w = list_unlink_at(d, i)
            OBVIOUS
        <3>2. SameLinks(c, c, p[i]) /\ SameLinks(c, d, p[i])
            BY <1>1, <1>2, <2>2, <3>1, ListedFacts, DestroyedLinks
        <3>3. Leaves(c, k, p, i, u)
            BY <1>1, <1>6, <2>5, <3>1, <3>2, MiddleLeaves
        <3>4. Leaves(c, k, p, i, w)
            BY <1>1, <1>6, <2>5, <3>1, <3>2, MiddleLeaves
        <3>5. r \in TakenWith(c, p[i], u, w)
            BY <2>1, <2>3, <2>5, <3>1, TakenIs
        <3>6. Answers(r, s, Narrowed(s, i + 1), s[i + 1])
            BY <1>1, <2>2, <3>3, <3>4, <3>5, LeaveAnswers
        <3>. QED  BY <1>2, <2>2, <3>6
    <2>. QED  BY <2>4, <2>5
<1>. QED  BY <1>2, <1>3, <1>4, <1>5, <1>6

\* remove_first: the first element that equals v leaves, or there is none.
LEMMA RemoveFirstAnswers ==
    ASSUME NEW c, NEW s, Shows(c, s), NEW v \in Value, NEW hits, hits = {i \in 1..Len(s) : s[i] = v}
    PROVE  \E i \in hits \cup {0} :
             /\ \A j \in hits : 0 < i /\ i <= j
             /\ \A r \in remove_first(c, v) : Answers(r, s, IF i = 0 THEN s ELSE Narrowed(s, i), v)
<1>1. for_each(c) = s /\ Len(s) = c.size /\ c.size \in Nat
    BY WalksShow
<1>2. hits = {i \in 1..c.size : for_each(c)[i] = v}
    BY <1>1
<1>3. CASE hits = {}
    <2>1. remove_first(c, v) = {Fail("not_found", c)}
        BY <1>2, <1>3 DEF remove_first
    <2>2. ASSUME NEW r \in remove_first(c, v) PROVE Answers(r, s, s, v)
        <3>1. r.st = "not_found" /\ r.core = c /\ r.got = NoItem
            BY <2>1 DEF Fail
        <3>. QED  BY <3>1 DEF Answers
    <2>. QED  BY <1>3, <2>2
<1>4. CASE hits # {}
    <2>1. PICK i \in hits : \A j \in hits : i <= j
        <3>1. hits \subseteq Nat
            BY <1>1
        <3>. QED  BY <1>4, <3>1, SmallestOf
    <2>2. PICK i0 : i0 = CHOOSE x \in hits : \A j \in hits : x <= j
        OBVIOUS
    <2>3. i0 \in hits /\ \A j \in hits : i0 <= j
        BY <2>1, <2>2
    <2>4. i0 \in 1..Len(s) /\ s[i0] = v
        BY <2>3
    <2>5. PICK a : a = i0 - 1
        OBVIOUS
    <2>6. a \in Nat /\ a < Len(s) /\ a + 1 = i0 /\ i0 # 0 /\ 0 < i0
        BY <1>1, <2>4, <2>5
    <2>7. remove_first(c, v) = remove_at(c, a)
        BY <1>2, <1>4, <2>2, <2>5 DEF remove_first
    <2>8. ASSUME NEW r \in remove_first(c, v) PROVE Answers(r, s, Narrowed(s, i0), v)
        <3>1. r \in remove_at(c, a)
            BY <2>7
        <3>2. Answers(r, s, Narrowed(s, a + 1), s[a + 1])
            BY <2>6, <3>1, RemoveAtAnswers
        <3>. QED  BY <2>4, <2>6, <3>2
    <2>. QED  BY <2>3, <2>6, <2>8
<1>. QED  BY <1>3, <1>4

-----------------------------------------------------------------------------
(***************************************************************************)
(* clear                                                                   *)
(***************************************************************************)

\* A core with k nodes left in the list, size_ untouched.
Left(d, k, size) == d.size = size /\ \E p, q, m : Listed(d, k, p, q, m, Nil)

\* One round of clear's loop.
Drop(d) == release_node([(IF doubly THEN unlink_node(d, d.head) ELSE unlink_front(d))
                           EXCEPT !.data[d.head] = NoItem], d.head)

\* The function the definition of cleared chooses.
Rounds(c) ==
    CHOOSE after : after = [k \in 0..Cardinality(Node) |->
                              IF k = 0 THEN c
                              ELSE IF after[k - 1].head = Nil THEN after[k - 1] ELSE Drop(after[k - 1])]

\* A round takes the first node out.
LEMMA DropLeft ==
    ASSUME NEW d, NEW k, NEW size, Left(d, k, size)
    PROVE  /\ k \in Nat /\ (d.head = Nil <=> k = 0)
           /\ k # 0 => Left(Drop(d), k - 1, size)
<1>1. PICK p, q, m : Listed(d, k, p, q, m, Nil)
    BY DEF Left
<1>2. k \in Nat /\ p[0] = d.head /\ Memory(d) /\ (k = 0 => p[0] = Nil)
      /\ (k # 0 => 0 < k /\ p[0] \in Node /\ p[0] # Nil)
    BY <1>1, ListedFacts
<1>3. ASSUME k # 0 PROVE Left(Drop(d), k - 1, size)
    <2>1. PICK u, x, w, g : /\ u = IF doubly THEN unlink_node(d, p[0]) ELSE unlink_front(d)
                            /\ x = [u EXCEPT !.data[p[0]] = NoItem] /\ w = Without(p, 0)
                            /\ g = release_node(x, p[0])
        OBVIOUS
    <2>2. SameLinks(d, d, p[0]) /\ p[0] \in Node
        BY <1>2, <1>3, DestroyedLinks
    <2>3. Leaves(d, k, p, 0, u)
        <3>1. CASE doubly
            <4>1. u = unlink_node(d, p[0]) /\ 0 \in Nat /\ 0 < k
                BY <1>2, <1>3, <2>1, <3>1
            <4>. QED  BY <1>1, <2>2, <3>1, <4>1, NodeLeaves
        <3>2. CASE ~doubly
            <4>1. u = unlink_front(d)
                BY <2>1, <3>2
            <4>. QED  BY <1>1, <1>3, <2>2, <3>2, <4>1, FrontLeaves
        <3>. QED  BY <3>1, <3>2
    <2>4. Memory(u)
        BY <2>3 DEF Leaves
    <2>5. SameLinks(u, x, p[0])
        BY <2>1, <2>2, <2>4, DestroyedLinks DEF Destroyed
    <2>6. Leaves(d, k, p, 0, x)
        <3>1. /\ Memory(x) /\ x.head = u.head /\ x.tail = u.tail /\ x.size = u.size /\ x.next = u.next
              /\ x.prev = u.prev /\ x.free = u.free /\ x.heap = u.heap
              /\ \A y \in Node : y # p[0] => x.data[y] = u.data[y]
            BY <2>5 DEF SameLinks
        <3>. QED  BY <2>3, <3>1 DEF Leaves
    <2>7. Listed(x, k - 1, w, q, m, p[0])
        BY <1>1, <1>2, <1>3, <2>1, <2>6, LeavesListed
    <2>8. PICK n \in Node : n = p[0]
        BY <2>2
    <2>9. g = release_node(x, n) /\ Listed(x, k - 1, w, q, m, n)
        BY <2>1, <2>7, <2>8
    <2>10. /\ \E q2, m2 : Listed(g, k - 1, w, q2, m2, Nil)
           /\ g.size = x.size /\ \A y \in Node : y # n => g.data[y] = x.data[y]
        BY ONLY <2>9, n \in Node, ReleaseListed
    <2>11. x.size = d.size /\ d.size = size
        BY <2>6 DEF Leaves, Left
    <2>12. Drop(d) = g
        BY <1>2, <2>1 DEF Drop
    <2>. QED  BY <2>10, <2>11, <2>12 DEF Left
<1>. QED  BY <1>2, <1>3

\* What a round of clear's loop makes of the core; once head_ is null, nothing.
Round(d) == IF d.head = Nil THEN d ELSE Drop(d)

\* There is a function that tells every round from the one before.
LEMMA RoundsExist ==
    ASSUME NEW c, NEW N \in Nat
    PROVE  \E f : f = [k \in 0..N |-> IF k = 0 THEN c ELSE Round(f[k - 1])]
<1> DEFINE T == {j \in Nat : \E f : f = [k \in 0..j |-> IF k = 0 THEN c ELSE Round(f[k - 1])]}
<1>1. 0 \in T
    <2>1. PICK f : f = [k \in 0..0 |-> c]
        OBVIOUS
    <2>2. f = [k \in 0..0 |-> IF k = 0 THEN c ELSE Round(f[k - 1])]
        BY <2>1
    <2>. QED  BY <2>2
<1>2. ASSUME NEW j \in Nat, j \in T PROVE j + 1 \in T
    <2>1. PICK f : f = [k \in 0..j |-> IF k = 0 THEN c ELSE Round(f[k - 1])]
        BY <1>2
    <2>2. PICK g : g = [k \in 0..(j + 1) |-> IF k = j + 1 THEN Round(f[j]) ELSE f[k]]
        OBVIOUS
    <2>3. ASSUME NEW k \in 0..(j + 1) PROVE g[k] = IF k = 0 THEN c ELSE Round(g[k - 1])
        <3>1. CASE k = j + 1
            <4>1. k - 1 = j /\ k # 0 /\ j \in 0..(j + 1) /\ j # j + 1
                BY <3>1
            <4>2. g[j] = f[j]
                BY <2>2, <4>1
            <4>. QED  BY <2>2, <3>1, <4>1, <4>2
        <3>2. CASE k = 0
            <4>1. 0 \in 0..j /\ 0 \in 0..(j + 1) /\ 0 # j + 1
                OBVIOUS
            <4>2. f[0] = c
                BY <2>1, <4>1
            <4>. QED  BY <2>2, <3>2, <4>1, <4>2
        <3>3. CASE k # 0 /\ k # j + 1
            <4>1. k \in 0..j /\ k - 1 \in 0..(j + 1) /\ k - 1 # j + 1
                BY <3>3
            <4>2. g[k - 1] = f[k - 1] /\ g[k] = f[k]
                BY <2>2, <3>3, <4>1
            <4>3. f[k] = Round(f[k - 1])
                BY <2>1, <3>3, <4>1
            <4>. QED  BY <3>3, <4>2, <4>3
        <3>. QED  BY <3>1, <3>2, <3>3
    <2>4. g = [k \in 0..(j + 1) |-> IF k = 0 THEN c ELSE Round(g[k - 1])]
        BY <2>2, <2>3
    <2>. QED  BY <2>4
<1>3. N \in T
    <2>. HIDE DEF T
    <2>. QED  BY <1>1, <1>2, SetInduction
<1>. QED  BY <1>3

\* clear leaves an empty list: no node of the list is forgotten.
LEMMA ClearedShows ==
    ASSUME NEW c, NEW s, Shows(c, s)
    PROVE  Shows(cleared(c), <<>>)
<1>1. PICK size, p, q, m : size = c.size /\ Listed(c, size, p, q, m, Nil)
    BY DEF Shows
<1>2. size \in Nat /\ Cardinality(Node) \in Nat /\ size <= Cardinality(Node)
    BY <1>1, PathShort DEF Listed, Linked, Path
<1>3. PICK N \in Nat : N = Cardinality(Node)
    BY <1>2
<1>4. PICK f : f = Rounds(c)
    OBVIOUS
<1>5. f = [k \in 0..N |-> IF k = 0 THEN c ELSE IF f[k - 1].head = Nil THEN f[k - 1] ELSE Drop(f[k - 1])]
    <2>1. \E g : g = [k \in 0..N |-> IF k = 0 THEN c
                                     ELSE IF g[k - 1].head = Nil THEN g[k - 1] ELSE Drop(g[k - 1])]
        <3>1. PICK g : g = [k \in 0..N |-> IF k = 0 THEN c ELSE Round(g[k - 1])]
            BY RoundsExist
        <3>. QED  BY <3>1, Zenon DEF Round
    <2>2. Rounds(c) = [k \in 0..N |-> IF k = 0 THEN c
                                      ELSE IF Rounds(c)[k - 1].head = Nil THEN Rounds(c)[k - 1]
                                           ELSE Drop(Rounds(c)[k - 1])]
        BY <1>3, <2>1, Zenon DEF Rounds
    <2>. QED  BY <1>4, <2>2
<1> DEFINE rest(j) == IF j <= size THEN size - j ELSE 0
           T == {j \in Nat : j <= N => Left(f[j], rest(j), size)}
<1>6. 0 \in T
    <2>1. f[0] = c
        BY <1>5
    <2>2. Left(c, size, size)
        BY <1>1 DEF Left
    <2>. QED  BY <1>2, <2>1, <2>2
<1>7. ASSUME NEW j \in Nat, j \in T PROVE j + 1 \in T
    <2>1. SUFFICES ASSUME j + 1 <= N PROVE Left(f[j + 1], rest(j + 1), size)
        OBVIOUS
    <2>2. j <= N /\ j + 1 \in 0..N /\ j + 1 # 0 /\ (j + 1) - 1 = j
        BY <2>1
    <2>3. f[j + 1] = IF f[j].head = Nil THEN f[j] ELSE Drop(f[j])
        BY <1>5, <2>2
    <2>4. PICK d, k : d = f[j] /\ k = rest(j)
        OBVIOUS
    <2>5. Left(d, k, size)
        BY <1>7, <2>2, <2>4
    <2>6. k \in Nat /\ (d.head = Nil <=> k = 0) /\ (k # 0 => Left(Drop(d), k - 1, size))
        BY <2>5, DropLeft
    <2>7. (k # 0 => rest(j + 1) = k - 1) /\ (k = 0 => rest(j + 1) = 0)
        BY <1>2, <2>4
    <2>. HIDE DEF rest
    <2>. QED  BY <2>3, <2>4, <2>5, <2>6, <2>7
<1>8. N \in T
    <2>. HIDE DEF T
    <2>. QED  BY <1>6, <1>7, SetInduction
<1>9. PICK d : d = f[N]
    OBVIOUS
<1>10. Left(d, 0, size)
    <2>1. rest(N) = 0
        BY <1>2, <1>3
    <2>. QED  BY <1>8, <1>9, <2>1
<1>11. PICK p2, q2, m2 : Listed(d, 0, p2, q2, m2, Nil)
    BY <1>10 DEF Left
<1>12. PICK e : e = [d EXCEPT !.tail = Nil, !.size = 0]
    OBVIOUS
<1>13. e = [head |-> d.head, tail |-> Nil, size |-> 0, next |-> d.next,
            prev |-> d.prev, free |-> d.free, data |-> d.data, heap |-> d.heap]
    BY <1>11, <1>12 DEF Listed, Memory
<1>14. Memory(e)
    BY <1>11, <1>13 DEF Listed, Memory
<1>15. Linked(e, 0, p2) /\ Unused(e, 0, p2, q2, m2, Nil) /\ e.size = 0
    BY <1>11, <1>13 DEF Listed, Linked, Unused, Before
<1>16. Elements(e, 0, p2) = <<>>
    BY DEF Elements
<1>17. Shows(e, <<>>)
    BY <1>14, <1>15, <1>16 DEF Shows, Listed
<1>18. cleared(c) = [Rounds(c)[Cardinality(Node)] EXCEPT !.tail = Nil, !.size = 0]
    BY Zenon DEF cleared, Rounds, Drop
<1>. QED  BY <1>3, <1>4, <1>9, <1>12, <1>17, <1>18

-----------------------------------------------------------------------------
(***************************************************************************)
(* The invariant                                                           *)
(***************************************************************************)

\* The core shows some sequence: its nodes are one path from head_ to tail_, in
\* both directions for dlist_core, and every other node is on free_list_ or is
\* not allocated.
Good == doubly \in BOOLEAN /\ fixed \in BOOLEAN /\ \E s : Shows(core, s)

\* init leaves an empty list and every slot of a fixed pool on free_list_.
LEMMA InitGood == Init => Good
<1>. SUFFICES ASSUME Init PROVE Good
    OBVIOUS
<1>1. PICK p, q, m : /\ p = [j \in Nat |-> Nil] /\ m = NodeCapacity
                     /\ q = [j \in Nat |-> IF j < NodeCapacity THEN NodeCapacity - j ELSE Nil]
    OBVIOUS
<1>2. m \in Nat /\ m # 0 /\ NodeCapacity \in Nat
    BY <1>1, ListConstants
<1>3. core = [head |-> Nil, tail |-> Nil, size |-> 0,
              next |-> [n \in Node |-> IF fixed THEN n - 1 ELSE Nil],
              prev |-> [n \in Node |-> Nil],
              free |-> IF fixed THEN NodeCapacity ELSE Nil,
              data |-> [n \in Node |-> NoItem], heap |-> {}]
    BY DEF Init, init
<1>4. core.next \in [Node -> Nat] /\ core.prev \in [Node -> Nat]
    <2>1. \A n \in Node : n \in Nat /\ n - 1 \in Nat /\ Nil \in Nat
        BY ListConstants DEF Node, Nil
    <2>. QED  BY <1>3, <2>1
<1>5. Memory(core)
    BY <1>3, <1>4 DEF Memory
<1>6. Linked(core, 0, p)
    <2>1. p \in [Nat -> Nat] /\ \A j \in Nat : p[j] = Nil
        BY <1>1 DEF Nil
    <2>2. Path(core.next, core.head, p, 0)
        BY <1>3, <2>1 DEF Path
    <2>. QED  BY <1>3, <2>2 DEF Linked, Distinct, Before
<1>7. Unused(core, 0, p, q, m, Nil)
    <2>1. CASE fixed
        <3>1. Node = 1..m /\ core.free = m
            BY <1>1, <1>3, <2>1 DEF Node
        <3>2. /\ q \in [Nat -> Nat] /\ q[0] = m
              /\ \A j \in Nat : j < m => q[j] \in Node /\ q[j] = m - j
              /\ \A j \in Nat : j >= m => q[j] = Nil
            BY <1>1, <1>2, <3>1 DEF Nil
        <3>3. ASSUME NEW j \in Nat, j < m PROVE core.next[q[j]] = q[j + 1]
            <4>1. q[j] \in Node /\ q[j] = m - j
                BY <3>2, <3>3
            <4>2. core.next[q[j]] = (m - j) - 1
                BY <1>3, <2>1, <4>1
            <4>3. CASE j + 1 < m
                BY <1>2, <3>2, <4>2, <4>3
            <4>4. CASE j + 1 >= m
                <5>1. q[j + 1] = 0 /\ (m - j) - 1 = 0
                    BY <1>2, <3>2, <3>3, <4>4 DEF Nil
                <5>. QED  BY <4>2, <5>1
            <4>. QED  BY <1>2, <4>3, <4>4
        <3>4. Path(core.next, core.free, q, m)
            BY <1>2, <3>1, <3>2, <3>3 DEF Path
        <3>5. Distinct(q, m)
            BY <1>2, <3>2 DEF Distinct
        <3>6. ASSUME NEW n \in Node PROVE \E j \in Nat : j < m /\ n = q[j]
            <4>1. m - n \in Nat /\ m - n < m /\ m - (m - n) = n
                BY <1>2, <3>1
            <4>. QED  BY <3>2, <4>1
        <3>7. \A j \in Nat : j < m => q[j] # Nil
            BY <3>2, NodeNotNil
        <3>8. \A i, j \in Nat : i < 0 /\ j < m => p[i] # q[j]
            OBVIOUS
        <3>9. \A n \in Node : \/ n = Nil \/ \E i \in Nat : i < 0 /\ n = p[i]
                              \/ \E j \in Nat : j < m /\ n = q[j]
            BY <3>6
        <3>10. Nil \notin Node
            BY NodeNotNil
        <3>. QED  BY ONLY <2>1, <3>4, <3>5, <3>7, <3>8, <3>9, <3>10 DEF Unused
    <2>2. CASE ~fixed
        <3>1. core.heap = {} /\ \A j \in Nat : ~(j < 0)
            BY <1>3
        <3>. QED  BY <2>2, <3>1, NodeNotNil DEF Unused
    <2>. QED  BY <2>1, <2>2
<1>8. Shows(core, Elements(core, core.size, p))
    BY <1>3, <1>5, <1>6, <1>7 DEF Shows, Listed
<1>. QED  BY <1>8 DEF Good, Init

\* What a call returns is the state after it.
LEMMA NewCoreShows ==
    ASSUME UNCHANGED <<doubly, fixed>>, NEW d, core' = d, NEW s, Shows(d, s)
    PROVE  Shows(core, s)'
<1>1. PICK p, q, m : Listed(d, d.size, p, q, m, Nil) /\ s = Elements(d, d.size, p)
    BY DEF Shows
<1>2. Node' = Node
    BY DEF Node
<1>3. Memory(core)'
    BY <1>1, <1>2 DEF Listed, Memory
<1>4. Linked(core, core.size, p)'
    BY <1>1, <1>2 DEF Listed, Linked, Path, Distinct, Before
<1>5. Unused(core, core.size, p, q, m, Nil)'
    BY <1>1, <1>2 DEF Listed, Unused, Path, Distinct
<1>6. Listed(core, core.size, p, q, m, Nil)'
    BY <1>3, <1>4, <1>5 DEF Listed
<1>7. s = Elements(core, core.size, p)'
    BY <1>1 DEF Elements
<1>. QED  BY <1>6, <1>7 DEF Shows

\* Every result of a call that answers as it should keeps the invariant.
LEMMA ReturnGood ==
    ASSUME Good, NEW results, Return(results), \A r \in results : \E s : Shows(r.core, s)
    PROVE  Good'
<1>1. PICK r \in results : core' = r.core
    BY DEF Return
<1>2. UNCHANGED <<doubly, fixed>>
    BY DEF Return
<1>3. PICK d, s : d = r.core /\ Shows(d, s)
    BY <1>1
<1>4. Shows(core, s)'
    BY <1>1, <1>2, <1>3, NewCoreShows
<1>. QED  BY <1>2, <1>4 DEF Good

\* A call whose every outcome answers leaves a core that shows something.
LEMMA AnswersShow ==
    ASSUME NEW r, NEW s, NEW t, NEW e, Answers(r, s, t, e)
    PROVE  \E x : Shows(r.core, x)
BY DEF Answers

\* Every call keeps the invariant.
LEMMA NextGood == Good /\ [Next]_vars => Good'
<1>. SUFFICES ASSUME Good, [Next]_vars PROVE Good'
    OBVIOUS
<1>. PICK s : Shows(core, s)
    BY DEF Good
<1>0. core.size \in Nat
    BY WalksShow
<1>1. ASSUME NEW v \in Value, PushFront(v) PROVE Good'
    <2>1. \A r \in insert_front(core, v) : \E x : Shows(r.core, x)
        BY InsertFrontAnswers, AnswersShow
    <2>. QED  BY <1>1, <2>1, ReturnGood DEF PushFront
<1>2. ASSUME NEW v \in Value, PushBack(v) PROVE Good'
    <2>1. \A r \in insert_back(core, v) : \E x : Shows(r.core, x)
        BY InsertBackAnswers, AnswersShow
    <2>. QED  BY <1>2, <2>1, ReturnGood DEF PushBack
<1>3. ASSUME NEW v \in Value, RemoveFirst(v) PROVE Good'
    <2>1. PICK hits : hits = {i \in 1..Len(s) : s[i] = v}
        OBVIOUS
    <2>2. \A r \in remove_first(core, v) : \E x : Shows(r.core, x)
        BY <2>1, RemoveFirstAnswers, AnswersShow
    <2>. QED  BY <1>3, <2>2, ReturnGood DEF RemoveFirst
<1>4. ASSUME NEW i \in Nat, RemoveAt(i) PROVE Good'
    <2>1. ASSUME NEW r \in remove_at(core, i) PROVE \E x : Shows(r.core, x)
        <3>1. Len(s) \in Nat
            BY <1>0, WalksShow
        <3>2. Answers(r, s, Narrowed(s, i + 1), s[i + 1]) \/ Answers(r, s, s, NoItem)
            BY <3>1, RemoveAtAnswers
        <3>. QED  BY <3>2, AnswersShow
    <2>. QED  BY <1>4, <2>1, ReturnGood DEF RemoveAt
<1>5. ASSUME NEW i \in Nat, NEW v \in Value, InsertAt(i, v) PROVE Good'
    <2>1. \A r \in insert_at(core, i, v) : \E x : Shows(r.core, x)
        BY InsertAtAnswers, AnswersShow
    <2>. QED  BY <1>5, <2>1, ReturnGood DEF InsertAt
<1>6. CASE core.size # 0 /\ (PopFront \/ PopBack)
    <2>1. \A r \in pop_front(core) : \E x : Shows(r.core, x)
        BY <1>6, PopFrontAnswers, AnswersShow
    <2>2. \A r \in pop_back(core) : \E x : Shows(r.core, x)
        BY <1>6, PopBackAnswers, AnswersShow
    <2>3. CASE PopFront
        BY <2>1, <2>3, ReturnGood DEF PopFront
    <2>4. CASE PopBack
        BY <2>2, <2>4, ReturnGood DEF PopBack
    <2>. QED  BY <1>6, <2>3, <2>4
<1>7. CASE core.size = 0 /\ (PopFront \/ PopBack)
    <2>1. Return({Fail("empty", core)})
        BY <1>7 DEF PopFront, PopBack, pop_front, pop_back
    <2>2. \A r \in {Fail("empty", core)} : \E x : Shows(r.core, x)
        BY DEF Fail
    <2>. QED  BY <2>1, <2>2, ReturnGood
<1>8. CASE Clear
    <2>1. \A r \in {Done(cleared(core))} : \E x : Shows(r.core, x)
        BY ClearedShows DEF Done
    <2>. QED  BY <1>8, <2>1, ReturnGood DEF Clear
<1>9. CASE UNCHANGED vars
    <2>1. UNCHANGED <<doubly, fixed>> /\ core' = core
        BY <1>9 DEF vars
    <2>2. Shows(core, s)'
        BY <2>1, NewCoreShows
    <2>. QED  BY <2>1, <2>2 DEF Good
<1>10. 0..(core.size + 1) \subseteq Nat
    BY <1>0
<1>11. \/ \E v \in Value : PushFront(v) \/ PushBack(v) \/ RemoveFirst(v)
       \/ \E i \in Nat : RemoveAt(i) \/ \E v \in Value : InsertAt(i, v)
       \/ PopFront \/ PopBack \/ Clear \/ UNCHANGED vars
    BY <1>10, Zenon DEF Next
<1>. QED  BY <1>1, <1>2, <1>3, <1>4, <1>5, <1>6, <1>7, <1>8, <1>9, <1>11

\* The core always shows some sequence (init, and every call of list_core and
\* dlist_core, whichever allocation or copy fails).
THEOREM ListsInvariant == Spec => []Good
<1>1. Init => Good
    BY InitGood
<1>2. Good /\ [Next]_vars => Good'
    BY NextGood
<1>. QED  BY <1>1, <1>2, PTL DEF Spec

-----------------------------------------------------------------------------
(***************************************************************************)
(* The properties                                                          *)
(***************************************************************************)

\* A node is on exactly one of the list and the free list, or it is not allocated.
LEMMA GoodAccounted == Good => NodesAccounted
<1>. SUFFICES ASSUME Good PROVE NodesAccounted
    OBVIOUS
<1>1. PICK k, p, q, m : k = core.size /\ Listed(core, k, p, q, m, Nil)
    BY DEF Good, Shows
<1>2. k \in Nat /\ Path(core.next, core.head, p, k) /\ Distinct(p, k)
    BY <1>1 DEF Listed, Linked, Path
<1>3. Chain(core) = Nodes(p, k) /\ Cardinality(Chain(core)) = k
    BY <1>1, <1>2, PathReach DEF Chain
<1>4. Nodes(p, k) \subseteq Node /\ \A n \in Node : n \in Nodes(p, k) <=> \E i \in Nat : i < k /\ n = p[i]
    <2>1. \A i \in Nat : i < k <=> i \in 0..(k - 1)
        BY <1>2
    <2>2. 0..(k - 1) \subseteq Nat
        BY <1>2
    <2>. QED  BY <1>2, <2>1, <2>2 DEF Nodes, Path
<1>5. ASSUME NEW n \in Chain(core) PROVE core.data[n] \in Value
    BY <1>1, <1>3, <1>4 DEF Listed, Linked
<1>6. CASE fixed
    <2>1. Path(core.next, core.free, q, m) /\ Distinct(q, m) /\ m \in Nat
        BY <1>1, <1>6 DEF Listed, Unused, Path
    <2>2. m <= Cardinality(Node) /\ Cardinality(Node) \in Nat /\ Cardinality(Node) = NodeCapacity
        BY <1>6, <2>1, PathShort
    <2>3. FreeChain(core) = Nodes(q, m)
        BY <2>1, <2>2, PathReach DEF FreeChain
    <2>4. Nodes(q, m) \subseteq Node /\ \A n \in Node : n \in Nodes(q, m) <=> \E j \in Nat : j < m /\ n = q[j]
        <3>1. \A i \in Nat : i < m <=> i \in 0..(m - 1)
            BY <2>1
        <3>2. 0..(m - 1) \subseteq Nat
            BY <2>1
        <3>. QED  BY <2>1, <3>1, <3>2 DEF Nodes, Path
    <2>5. ASSUME NEW n \in Node PROVE n \in Nodes(q, m) <=> n \notin Nodes(p, k)
        <3>1. (\E i \in Nat : i < k /\ n = p[i]) \/ (\E j \in Nat : j < m /\ n = q[j])
            BY <1>1, <1>6, NodeNotNil DEF Listed, Unused
        <3>2. \A i, j \in Nat : i < k /\ j < m => p[i] # q[j]
            BY <1>1, <1>6 DEF Listed, Unused
        <3>. QED  BY <1>4, <2>4, <3>1, <3>2
    <2>6. FreeChain(core) = Node \ Chain(core)
        BY <1>3, <2>3, <2>4, <2>5
    <2>7. Follow(core.next, core.free, NodeCapacity) = Nil
        <3>1. Follow(core.next, core.free, NodeCapacity) = q[NodeCapacity]
            BY <2>1, <2>2, FollowPath
        <3>. QED  BY <2>1, <2>2, <3>1 DEF Path
    <2>. QED  BY <1>1, <1>3, <1>5, <1>6, <2>6, <2>7 DEF NodesAccounted
<1>7. CASE ~fixed
    <2>1. \A n \in Node : n \in core.heap <=> \E i \in Nat : i < k /\ n = p[i]
        BY <1>1, <1>7, NodeNotNil DEF Listed, Unused
    <2>2. core.heap \subseteq Node
        BY <1>1 DEF Listed, Memory
    <2>3. core.heap = Chain(core)
        BY <1>3, <1>4, <2>1, <2>2
    <2>. QED  BY <1>1, <1>3, <1>5, <1>7, <2>3 DEF NodesAccounted
<1>. QED  BY <1>6, <1>7

\* head_, tail_, size_ and the two directions agree.
LEMMA GoodAgrees == Good => LinksAgree
<1>. SUFFICES ASSUME Good PROVE LinksAgree
    OBVIOUS
<1>1. PICK s : Shows(core, s)
    BY DEF Good
<1>2. PICK k, p, q, m : k = core.size /\ Listed(core, k, p, q, m, Nil)
    BY <1>1 DEF Shows
<1>3. k \in Nat /\ Path(core.next, core.head, p, k) /\ core.tail = Before(p, k) /\ p[k] = Nil
    BY <1>2 DEF Listed, Linked, Path
<1>4. Follow(core.next, core.head, core.size) = Nil
    BY <1>2, <1>3, FollowPath
<1>5. core.tail = IF core.size = 0 THEN Nil ELSE Follow(core.next, core.head, core.size - 1)
    <2>1. CASE k = 0
        BY <1>2, <1>3, <2>1 DEF Before
    <2>2. CASE k # 0
        <3>1. k - 1 \in Nat
            BY <1>3, <2>2
        <3>2. Follow(core.next, core.head, k - 1) = p[k - 1]
            BY <1>3, <3>1, FollowPath
        <3>. QED  BY <1>2, <1>3, <2>2, <3>2 DEF Before
    <2>. QED  BY <2>1, <2>2
<1>6. /\ for_each(core) = s
      /\ \A i \in 1..core.size : peek_at(core, i - 1) = s[i]
      /\ doubly => \A i \in 1..core.size : for_each_reverse(core)[i] = s[core.size + 1 - i]
    BY <1>1, WalksShow
<1>. QED  BY <1>4, <1>5, <1>6 DEF LinksAgree

\* What CallsByPosition asks of the outcomes of a call.
Holds(results, s, t, e) ==
    \A r \in results : /\ for_each(r.core) = (IF r.st = "ok" THEN t ELSE s)
                        /\ r.got \in {NoItem, e}

\* An outcome that answers shows its sequence to for_each.
LEMMA AnswersHold ==
    ASSUME NEW results, NEW s, NEW t, NEW e, \A r \in results : Answers(r, s, t, e)
    PROVE  Holds(results, s, t, e)
<1>1. ASSUME NEW r \in results
      PROVE  for_each(r.core) = (IF r.st = "ok" THEN t ELSE s) /\ r.got \in {NoItem, e}
    <2>1. PICK d, x : d = r.core /\ x = IF r.st = "ok" THEN t ELSE s
        OBVIOUS
    <2>2. Shows(d, x) /\ r.got \in {NoItem, e}
        BY <1>1, <2>1 DEF Answers
    <2>3. for_each(d) = x
        BY <2>2, WalksShow
    <2>. QED  BY <2>1, <2>2, <2>3
<1>. QED  BY <1>1 DEF Holds

\* Every call acts on the sequence as its name says.
LEMMA GoodByPosition == Good => CallsByPosition
<1>. SUFFICES ASSUME Good PROVE CallsByPosition
    OBVIOUS
<1>1. PICK s : Shows(core, s)
    BY DEF Good
<1>2. PICK n : n = core.size
    OBVIOUS
<1>3. for_each(core) = s /\ s \in Seq(Value) /\ Len(s) = n /\ n \in Nat
    BY <1>1, <1>2, WalksShow
<1>4. ASSUME NEW v \in Value PROVE Holds(insert_front(core, v), s, <<v>> \o s, NoItem)
    <2>1. \A r \in insert_front(core, v) : Answers(r, s, Widened(s, 0, v), NoItem)
        BY <1>1, InsertFrontAnswers
    <2>2. Widened(s, 0, v) = <<v>> \o s
        BY <1>3, WidenedIs
    <2>. QED  BY <2>1, <2>2, AnswersHold
<1>5. ASSUME NEW v \in Value PROVE Holds(insert_back(core, v), s, Append(s, v), NoItem)
    <2>1. \A r \in insert_back(core, v) : Answers(r, s, Widened(s, Len(s), v), NoItem)
        BY <1>1, InsertBackAnswers
    <2>2. Widened(s, Len(s), v) = Append(s, v)
        BY <1>3, WidenedIs
    <2>. QED  BY <2>1, <2>2, AnswersHold
<1>6. ASSUME NEW v \in Value, NEW i \in 0..n
      PROVE  Holds(insert_at(core, i, v), s, S!InsertAt(s, i + 1, v), NoItem)
    <2>1. i \in Nat /\ i <= Len(s) /\ i \in 0..Len(s)
        BY <1>3
    <2>2. \A r \in insert_at(core, i, v) : Answers(r, s, Widened(s, i, v), NoItem)
        BY <1>1, <2>1, InsertAtAnswers
    <2>3. Widened(s, i, v) = S!InsertAt(s, i + 1, v)
        BY <1>3, <2>1, InsertedIs
    <2>. QED  BY <2>2, <2>3, AnswersHold
<1>7. ASSUME NEW i \in 1..n PROVE s # <<>> /\ Narrowed(s, i) = S!RemoveAt(s, i)
    <2>1. s # <<>> /\ i \in 1..Len(s)
        BY <1>3
    <2>. QED  BY <1>3, <2>1, NarrowedIs
<1>8. ASSUME NEW v \in Value
      PROVE  \E i \in {j \in 1..n : s[j] = v} \cup {0} :
               /\ \A j \in {j \in 1..n : s[j] = v} : 0 < i /\ i <= j
               /\ Holds(remove_first(core, v), s, IF i = 0 THEN s ELSE S!RemoveAt(s, i), v)
    <2>1. PICK hits : hits = {j \in 1..Len(s) : s[j] = v}
        OBVIOUS
    <2>2. PICK i \in hits \cup {0} :
            /\ \A j \in hits : 0 < i /\ i <= j
            /\ \A r \in remove_first(core, v) : Answers(r, s, IF i = 0 THEN s ELSE Narrowed(s, i), v)
        BY <1>1, <2>1, RemoveFirstAnswers
    <2>3. PICK t : t = IF i = 0 THEN s ELSE Narrowed(s, i)
        OBVIOUS
    <2>4. t = IF i = 0 THEN s ELSE S!RemoveAt(s, i)
        BY <1>3, <1>7, <2>1, <2>2, <2>3
    <2>5. Holds(remove_first(core, v), s, t, v)
        BY <2>2, <2>3, AnswersHold
    <2>6. hits = {j \in 1..n : s[j] = v}
        BY <1>3, <2>1
    <2>. QED  BY <2>2, <2>4, <2>5, <2>6
<1>9. ASSUME NEW i \in 1..n PROVE Holds(remove_at(core, i - 1), s, S!RemoveAt(s, i), s[i])
    <2>1. PICK a : a = i - 1
        OBVIOUS
    <2>2. a \in Nat /\ a < Len(s) /\ a + 1 = i
        BY <1>3, <2>1
    <2>3. \A r \in remove_at(core, a) : Answers(r, s, Narrowed(s, a + 1), s[a + 1])
        BY <1>1, <2>2, RemoveAtAnswers
    <2>. QED  BY <1>7, <2>1, <2>2, <2>3, AnswersHold
<1>10. ASSUME n > 0
       PROVE  Holds(pop_front(core), s, Tail(s), s[1]) /\ Holds(pop_back(core), s, S!Front(s), s[n])
    <2>1. core.size # 0 /\ s # <<>>
        BY <1>2, <1>3, <1>10
    <2>2. Narrowed(s, 1) = Tail(s) /\ Narrowed(s, Len(s)) = S!Front(s)
        BY <1>3, <2>1, NarrowedIs
    <2>3. \A r \in pop_front(core) : Answers(r, s, Narrowed(s, 1), s[1])
        BY <1>1, <2>1, PopFrontAnswers
    <2>4. \A r \in pop_back(core) : Answers(r, s, Narrowed(s, Len(s)), s[Len(s)])
        BY <1>1, <2>1, PopBackAnswers
    <2>. QED  BY <1>3, <2>2, <2>3, <2>4, AnswersHold
<1>11. /\ \A v \in Value :
            /\ Holds(insert_front(core, v), s, <<v>> \o s, NoItem)
            /\ Holds(insert_back(core, v), s, Append(s, v), NoItem)
            /\ \A i \in 0..n : Holds(insert_at(core, i, v), s, S!InsertAt(s, i + 1, v), NoItem)
            /\ \E i \in {j \in 1..n : s[j] = v} \cup {0} :
                 /\ \A j \in {j \in 1..n : s[j] = v} : 0 < i /\ i <= j
                 /\ Holds(remove_first(core, v), s, IF i = 0 THEN s ELSE S!RemoveAt(s, i), v)
       /\ \A i \in 1..n : Holds(remove_at(core, i - 1), s, S!RemoveAt(s, i), s[i])
       /\ n > 0 => /\ Holds(pop_front(core), s, Tail(s), s[1])
                    /\ Holds(pop_back(core), s, S!Front(s), s[n])
    BY ONLY <1>4, <1>5, <1>6, <1>8, <1>9, <1>10
<1>12. s = for_each(core) /\ n = core.size
    BY <1>2, <1>3
<1>13. /\ \A v \in Value :
            /\ Holds(insert_front(core, v), for_each(core), <<v>> \o for_each(core), NoItem)
            /\ Holds(insert_back(core, v), for_each(core), Append(for_each(core), v), NoItem)
            /\ \A i \in 0..core.size : Holds(insert_at(core, i, v), for_each(core), S!InsertAt(for_each(core), i + 1, v), NoItem)
            /\ \E i \in {j \in 1..core.size : for_each(core)[j] = v} \cup {0} :
                 /\ \A j \in {j \in 1..core.size : for_each(core)[j] = v} : 0 < i /\ i <= j
                 /\ Holds(remove_first(core, v), for_each(core), IF i = 0 THEN for_each(core) ELSE S!RemoveAt(for_each(core), i), v)
       /\ \A i \in 1..core.size : Holds(remove_at(core, i - 1), for_each(core), S!RemoveAt(for_each(core), i), for_each(core)[i])
       /\ core.size > 0 => /\ Holds(pop_front(core), for_each(core), Tail(for_each(core)), for_each(core)[1])
                    /\ Holds(pop_back(core), for_each(core), S!Front(for_each(core)), for_each(core)[core.size])
    BY ONLY <1>11, <1>12
<1>. QED  BY ONLY <1>13, Zenon DEF CallsByPosition, Holds

-----------------------------------------------------------------------------
(***************************************************************************)
(* Theorems                                                                *)
(***************************************************************************)

\* No node is lost and none is in two places, whatever calls failed on the way
\* (acquire_node, make_node, release_node of both cores, fixed pool or heap).
THEOREM ListsNodesAccounted == Spec => []NodesAccounted
BY ListsInvariant, GoodAccounted, PTL

\* The ends, size_ and the two directions always agree, and peek_at and
\* for_each_reverse show what for_each shows (link_*, unlink_*, node_at).
THEOREM ListsLinksAgree == Spec => []LinksAgree
BY ListsInvariant, GoodAgrees, PTL

\* In every reachable state every outcome of every call is what its name says of
\* the sequence for_each shows, and a call that fails changes nothing.
THEOREM ListsCallsByPosition == Spec => []CallsByPosition
BY ListsInvariant, GoodByPosition, PTL

-----------------------------------------------------------------------------
(***************************************************************************)
(* The LRU cache: one walk changes                                         *)
(***************************************************************************)

\* Two link fields agree on the nodes of a walk.
Agree(link, other, p, k) == \A i \in Nat : i < k => other[p[i]] = link[p[i]]

\* A walk only depends on the links of its nodes.
LEMMA WalkSame ==
    ASSUME NEW link, NEW start, NEW p, NEW k, Walk(link, start, p, k), NEW other, Agree(link, other, p, k)
    PROVE  Walk(other, start, p, k)
BY DEF Walk, Agree

\* How links differ when n is linked before the first node, and when the node at i is
\* taken out and the one before it, or the start, leads to the one after it.
Pushed(link, start, p, k, n, other) ==
    /\ n \in Nat /\ n # Nil /\ \A i \in Nat : i < k => p[i] # n
    /\ other[n] = start /\ Agree(link, other, p, k)
Cut(link, start, p, k, i, other, first) ==
    /\ i \in Nat /\ i < k /\ first = IF i = 0 THEN link[p[i]] ELSE start
    /\ i # 0 => other[p[i - 1]] = link[p[i]]
    /\ \A j \in Nat : j < k /\ j # i /\ j + 1 # i => other[p[j]] = link[p[j]]

LEMMA WalkPush ==
    ASSUME NEW link, NEW start, NEW p, NEW k, Walk(link, start, p, k), Distinct(p, k),
           NEW n, NEW other, Pushed(link, start, p, k, n, other), NEW w, w = With(p, 0, n)
    PROVE  /\ Walk(other, n, w, k + 1) /\ Distinct(w, k + 1)
           /\ w[0] = n /\ \A i \in Nat : w[i + 1] = p[i]
<1>1. k \in Nat /\ p \in [Nat -> Nat] /\ p[0] = start
      /\ n \in Nat /\ n # Nil /\ (\A i \in Nat : i < k => p[i] # n)
      /\ other[n] = start /\ (\A i \in Nat : i < k => other[p[i]] = link[p[i]])
    BY DEF Walk, Pushed, Agree
<1>2. w \in [Nat -> Nat] /\ w[0] = n /\ \A i \in Nat : i # 0 => w[i] = p[i - 1]
    BY <1>1 DEF With
<1>3. \A i \in Nat : w[i + 1] = p[i]
    BY <1>2
<1>4. ASSUME NEW i \in Nat PROVE i = 0 \/ (i # 0 /\ i - 1 \in Nat /\ (i - 1) + 1 = i)
    OBVIOUS
<1>5. ASSUME NEW i \in Nat, i < k + 1 PROVE w[i] # Nil /\ other[w[i]] = w[i + 1]
    <2>1. CASE i = 0
        BY <1>1, <1>2, <1>3, <2>1
    <2>2. CASE i # 0
        <3>1. i - 1 \in Nat /\ i - 1 < k /\ (i - 1) + 1 = i
            BY <1>1, <1>5, <2>2
        <3>2. link[p[i - 1]] = p[i] /\ p[i - 1] # Nil /\ other[p[i - 1]] = link[p[i - 1]]
            BY <1>1, <3>1 DEF Walk
        <3>. QED  BY <1>2, <1>3, <2>2, <3>2
    <2>. QED  BY <2>1, <2>2
<1>6. ASSUME NEW i \in Nat, i >= k + 1 PROVE w[i] = Nil
    <2>1. i # 0 /\ i - 1 \in Nat /\ i - 1 >= k
        BY <1>1, <1>6
    <2>. QED  BY <1>2, <2>1 DEF Walk
<1>7. Walk(other, n, w, k + 1)
    BY <1>1, <1>2, <1>5, <1>6 DEF Walk
<1>8. ASSUME NEW i \in Nat, NEW j \in Nat, i < k + 1, j < k + 1, w[i] = w[j] PROVE i = j
    <2>1. ASSUME NEW x \in Nat, x < k + 1, x # 0 PROVE x - 1 \in Nat /\ x - 1 < k /\ w[x] = p[x - 1] /\ w[x] # n
        BY <1>1, <1>2, <2>1
    <2>2. CASE i = 0 \/ j = 0
        BY <1>2, <1>8, <2>1, <2>2
    <2>3. CASE i # 0 /\ j # 0
        <3>1. i - 1 = j - 1
            BY <1>8, <2>1, <2>3 DEF Distinct
        <3>. QED  BY <3>1
    <2>. QED  BY <2>2, <2>3
<1>. QED  BY <1>2, <1>3, <1>7, <1>8 DEF Distinct

LEMMA WalkCut ==
    ASSUME NEW link, NEW start, NEW p, NEW k, Walk(link, start, p, k), Distinct(p, k),
           NEW i, NEW other, NEW first, Cut(link, start, p, k, i, other, first), NEW w, w = Without(p, i)
    PROVE  /\ Walk(other, first, w, k - 1) /\ Distinct(w, k - 1) /\ k - 1 \in Nat
           /\ \A j \in Nat : w[j] = IF j < i THEN p[j] ELSE p[j + 1]
           /\ \A j \in Nat : j < k - 1 => w[j] # p[i]
<1>1. k \in Nat /\ p \in [Nat -> Nat] /\ p[0] = start /\ k - 1 \in Nat /\ link[p[i]] = p[i + 1]
      /\ i \in Nat /\ i < k /\ (first = IF i = 0 THEN link[p[i]] ELSE start)
      /\ (i # 0 => other[p[i - 1]] = link[p[i]])
      /\ (\A j \in Nat : j < k /\ j # i /\ j + 1 # i => other[p[j]] = link[p[j]])
    BY DEF Walk, Cut
<1>2. w \in [Nat -> Nat] /\ \A j \in Nat : w[j] = IF j < i THEN p[j] ELSE p[j + 1]
    BY <1>1 DEF Without
<1>3. w[0] = first
    BY <1>1, <1>2
<1>4. ASSUME NEW j \in Nat, j < k - 1 PROVE w[j] # Nil /\ other[w[j]] = w[j + 1] /\ w[j] # p[i]
    <2>1. j < k /\ j + 1 < k /\ j + 1 \in Nat
        BY <1>1, <1>4
    <2>2. p[j] # Nil /\ p[j + 1] # Nil /\ link[p[j]] = p[j + 1] /\ link[p[j + 1]] = p[(j + 1) + 1]
        BY <2>1 DEF Walk
    <2>3. CASE j + 1 < i
        <3>1. other[p[j]] = link[p[j]] /\ j # i /\ j < i
            BY <1>1, <2>1, <2>3
        <3>2. p[j] # p[i]
            BY <1>1, <2>1, <3>1 DEF Distinct
        <3>. QED  BY <1>2, <2>1, <2>2, <2>3, <3>1, <3>2
    <2>4. CASE j + 1 = i
        <3>1. i - 1 = j /\ i # 0 /\ j # i /\ j < i /\ ~(j + 1 < i)
            BY <2>4
        <3>2. p[j] # p[i] /\ other[p[j]] = p[i + 1] /\ w[j] = p[j] /\ w[j + 1] = p[i + 1]
            BY <1>1, <1>2, <2>1, <2>4, <3>1 DEF Distinct
        <3>. QED  BY <2>2, <3>2
    <2>5. CASE i <= j
        <3>1. other[p[j + 1]] = link[p[j + 1]] /\ j + 1 # i /\ ~(j < i) /\ ~(j + 1 < i)
            BY <1>1, <2>1, <2>5
        <3>2. p[j + 1] # p[i]
            BY <1>1, <2>1, <3>1 DEF Distinct
        <3>. QED  BY <1>2, <2>1, <2>2, <3>1, <3>2
    <2>. QED  BY <1>1, <2>3, <2>4, <2>5
<1>5. ASSUME NEW j \in Nat, j >= k - 1 PROVE w[j] = Nil
    <2>1. ~(j < i) /\ j + 1 >= k /\ j + 1 \in Nat
        BY <1>1, <1>5
    <2>. QED  BY <1>2, <2>1 DEF Walk
<1>6. Walk(other, first, w, k - 1)
    BY <1>1, <1>2, <1>3, <1>4, <1>5 DEF Walk
<1>7. ASSUME NEW a \in Nat, NEW b \in Nat, a < k - 1, b < k - 1, w[a] = w[b] PROVE a = b
    <2>1. PICK x \in Nat : x = IF a < i THEN a ELSE a + 1
        OBVIOUS
    <2>2. PICK y \in Nat : y = IF b < i THEN b ELSE b + 1
        OBVIOUS
    <2>3. p[x] = p[y] /\ x < k /\ y < k
        BY <1>1, <1>2, <1>7, <2>1, <2>2
    <2>4. x = y
        BY <2>3 DEF Distinct
    <2>. QED  BY <1>1, <1>7, <2>1, <2>2, <2>4
<1>. QED  BY <1>1, <1>2, <1>4, <1>6, <1>7 DEF Distinct

-----------------------------------------------------------------------------
(***************************************************************************)
(* The LRU cache: chains and free list                                     *)
(***************************************************************************)

LEMMA EntryNotNil == Nil \notin Entry /\ Entry \subseteq Nat /\ Capacity \in Nat /\ Buckets \in Nat
BY LruConstants DEF Entry, Nil

\* The chains are numbered as the buckets, and the free list comes after them.  home says
\* which list an entry is on, and Away that it is on none.
Threads == 0..Buckets
Away == Buckets + 1

LEMMA ThreadNotAway == Away \notin Threads /\ Threads \subseteq Nat /\ Buckets \in Threads
BY EntryNotNil DEF Threads, Away

\* The walk p of k entries is one of these lists.
OnThread(next, start, home, t, p, k) ==
    /\ Walk(next, start, p, k) /\ Distinct(p, k)
    /\ \A i \in Nat : i < k => p[i] \in Entry /\ home[p[i]] = t
    /\ \A n \in Entry : home[n] = t => \E i \in Nat : i < k /\ p[i] = n

\* hash_next threads each entry on the list of home; first are the heads of the lists.
Threaded(next, first, home, P, K) ==
    /\ next \in [Entry -> Nat] /\ first \in [Threads -> Nat]
    /\ home \in [Entry -> Threads \cup {Away}]
    /\ P \in [Threads -> [Nat -> Nat]] /\ K \in [Threads -> Nat]
    /\ \A t \in Threads : OnThread(next, first[t], home, t, P[t], K[t])

\* An entry on no list is linked before the first of one.
LEMMA ThreadPush ==
    ASSUME NEW next, NEW first, NEW home, NEW P, NEW K, Threaded(next, first, home, P, K),
           NEW t \in Threads, NEW n \in Entry, home[n] = Away,
           NEW next2, next2 = [next EXCEPT ![n] = first[t]],
           NEW first2, first2 = [first EXCEPT ![t] = n],
           NEW home2, home2 = [home EXCEPT ![n] = t]
    PROVE  \E P2, K2 : Threaded(next2, first2, home2, P2, K2)
<1>1. /\ next \in [Entry -> Nat] /\ first \in [Threads -> Nat] /\ home \in [Entry -> Threads \cup {Away}]
      /\ P \in [Threads -> [Nat -> Nat]] /\ K \in [Threads -> Nat] /\ n \in Nat /\ n # Nil
      /\ t # Away
    BY EntryNotNil, ThreadNotAway DEF Threaded
<1>2. PICK w, k, s, p : w = With(P[t], 0, n) /\ k = K[t] /\ s = first[t] /\ p = P[t]
    OBVIOUS
<1>3. /\ Walk(next, s, p, k) /\ Distinct(p, k) /\ k \in Nat /\ s \in Nat /\ w = With(p, 0, n)
      /\ \A i \in Nat : i < k => p[i] \in Entry /\ home[p[i]] = t
      /\ \A x \in Entry : home[x] = t => \E i \in Nat : i < k /\ p[i] = x
    <2>1. OnThread(next, first[t], home, t, P[t], K[t])
        BY DEF Threaded
    <2>. QED  BY <1>1, <1>2, <2>1 DEF OnThread
<1>4. \A i \in Nat : i < k => p[i] # n
    BY <1>1, <1>3
<1>5. next2[n] = s /\ next2 \in [Entry -> Nat] /\ \A x \in Entry : x # n => next2[x] = next[x]
    BY <1>1, <1>2, <1>3
<1>6. Pushed(next, s, p, k, n, next2)
    BY <1>1, <1>3, <1>4, <1>5 DEF Pushed, Agree
<1>7. /\ Walk(next2, n, w, k + 1) /\ Distinct(w, k + 1)
      /\ w[0] = n /\ \A i \in Nat : w[i + 1] = p[i]
    BY ONLY <1>3, <1>6, WalkPush
<1>8. home2 \in [Entry -> Threads \cup {Away}] /\ home2[n] = t /\ \A x \in Entry : x # n => home2[x] = home[x]
    BY <1>1
<1>9. first2 \in [Threads -> Nat] /\ first2[t] = n /\ \A u \in Threads : u # t => first2[u] = first[u]
    BY <1>1
<1>10. PICK P2, K2 : P2 = [P EXCEPT ![t] = w] /\ K2 = [K EXCEPT ![t] = k + 1]
    OBVIOUS
<1>11. w \in [Nat -> Nat] /\ k + 1 \in Nat
    BY <1>7 DEF Walk
<1>12. /\ P2 \in [Threads -> [Nat -> Nat]] /\ K2 \in [Threads -> Nat] /\ P2[t] = w /\ K2[t] = k + 1
       /\ \A u \in Threads : u # t => P2[u] = P[u] /\ K2[u] = K[u]
    BY <1>1, <1>10, <1>11
<1>13. ASSUME NEW i \in Nat, i < k + 1 PROVE w[i] \in Entry /\ home2[w[i]] = t
    <2>1. CASE i = 0
        BY <1>7, <1>8, <2>1
    <2>2. CASE i # 0
        <3>1. i - 1 \in Nat /\ i - 1 < k /\ (i - 1) + 1 = i
            BY <1>3, <1>13, <2>2
        <3>2. w[i] = p[i - 1]
            BY <1>7, <3>1
        <3>. QED  BY <1>3, <1>4, <1>8, <3>1, <3>2
    <2>. QED  BY <2>1, <2>2
<1>14. ASSUME NEW x \in Entry, home2[x] = t PROVE \E i \in Nat : i < k + 1 /\ w[i] = x
    <2>1. CASE x = n
        BY <1>3, <1>7, <2>1
    <2>2. CASE x # n
        <3>1. PICK i \in Nat : i < k /\ p[i] = x
            BY <1>3, <1>8, <1>14, <2>2
        <3>2. i + 1 \in Nat /\ i + 1 < k + 1 /\ w[i + 1] = x
            BY <1>3, <1>7, <3>1
        <3>. QED  BY <3>2
    <2>. QED  BY <2>1, <2>2
<1>15. ASSUME NEW u \in Threads
       PROVE  OnThread(next2, first2[u], home2, u, P2[u], K2[u])
    <2>1. CASE u = t
        BY <1>7, <1>9, <1>12, <1>13, <1>14, <2>1 DEF OnThread
    <2>2. CASE u # t
        <3>1. PICK q, l, z : q = P[u] /\ l = K[u] /\ z = first[u]
            OBVIOUS
        <3>2. OnThread(next, z, home, u, q, l)
            BY <3>1 DEF Threaded
        <3>3. u # Away
            BY ThreadNotAway
        <3>4. \A i \in Nat : i < l => q[i] # n /\ next2[q[i]] = next[q[i]] /\ home2[q[i]] = u
            BY <1>5, <1>8, <3>2, <3>3 DEF OnThread
        <3>5. Walk(next2, z, q, l)
            <4>1. Walk(next, z, q, l) /\ Agree(next, next2, q, l)
                BY <3>2, <3>4 DEF OnThread, Agree
            <4>. QED  BY ONLY <4>1, WalkSame
        <3>6. \A x \in Entry : home2[x] = u => home[x] = u
            BY <1>8, <2>2
        <3>7. first2[u] = z /\ P2[u] = q /\ K2[u] = l
            BY <1>9, <1>12, <2>2, <3>1
        <3>. QED  BY <3>2, <3>4, <3>5, <3>6, <3>7 DEF OnThread
    <2>. QED  BY <2>1, <2>2
<1>16. Threaded(next2, first2, home2, P2, K2)
    BY <1>5, <1>8, <1>9, <1>12, <1>15 DEF Threaded
<1>. QED  BY <1>16

\* The entry n, at i of a list and after prev, is taken out.
TakenOut(next, first, P, K, t, i, n, prev, next2, first2) ==
    /\ t \in Threads /\ i \in Nat /\ i < K[t] /\ n = P[t][i] /\ prev = Before(P[t], i)
    /\ next2 = [(IF prev = Nil THEN next ELSE [next EXCEPT ![prev] = next[n]]) EXCEPT ![n] = Nil]
    /\ first2 = IF prev = Nil THEN [first EXCEPT ![t] = next[n]] ELSE first

LEMMA ThreadCut ==
    ASSUME NEW next, NEW first, NEW home, NEW P, NEW K, Threaded(next, first, home, P, K),
           NEW t, NEW i, NEW n, NEW prev, NEW next2, NEW first2,
           TakenOut(next, first, P, K, t, i, n, prev, next2, first2),
           NEW home2, home2 = [home EXCEPT ![n] = Away]
    PROVE  \E P2, K2 : Threaded(next2, first2, home2, P2, K2)
<1>1. /\ next \in [Entry -> Nat] /\ first \in [Threads -> Nat] /\ home \in [Entry -> Threads \cup {Away}]
      /\ P \in [Threads -> [Nat -> Nat]] /\ K \in [Threads -> Nat]
      /\ t # Away
      /\ t \in Threads /\ i \in Nat /\ i < K[t] /\ n = P[t][i] /\ prev = Before(P[t], i)
      /\ next2 = [(IF prev = Nil THEN next ELSE [next EXCEPT ![prev] = next[n]]) EXCEPT ![n] = Nil]
      /\ first2 = (IF prev = Nil THEN [first EXCEPT ![t] = next[n]] ELSE first)
    BY ThreadNotAway DEF Threaded, TakenOut
<1>2. PICK w, k, p : w = Without(P[t], i) /\ k = K[t] /\ p = P[t]
    OBVIOUS
<1>3. /\ Walk(next, first[t], p, k) /\ Distinct(p, k) /\ k \in Nat /\ w = Without(p, i) /\ i < k
      /\ i \in Nat /\ n = p[i] /\ prev = Before(p, i) /\ first[t] \in Nat
      /\ \A j \in Nat : j < k => p[j] \in Entry /\ home[p[j]] = t
      /\ \A x \in Entry : home[x] = t => \E j \in Nat : j < k /\ p[j] = x
    <2>1. OnThread(next, first[t], home, t, P[t], K[t])
        BY <1>1 DEF Threaded
    <2>. QED  BY <1>1, <1>2, <2>1 DEF OnThread
<1>4. n \in Entry /\ home[n] = t /\ next[n] \in Nat /\ Nil \in Nat
    BY <1>1, <1>3 DEF Nil
<1>5. /\ i = 0 => prev = Nil
      /\ i # 0 => /\ prev = p[i - 1] /\ i - 1 \in Nat /\ i - 1 < k /\ prev \in Entry /\ prev # Nil
                  /\ prev # n /\ home[prev] = t
    <2>1. CASE i = 0
        BY <1>3, <2>1 DEF Before
    <2>2. CASE i # 0
        <3>1. i - 1 \in Nat /\ i - 1 < k /\ i - 1 # i
            BY <1>3, <2>2
        <3>2. prev = p[i - 1] /\ prev # n
            BY <1>3, <2>2, <3>1 DEF Before, Distinct
        <3>. QED  BY <1>3, <2>2, <3>1, <3>2, EntryNotNil
    <2>. QED  BY <2>1, <2>2
<1>6. /\ next2 \in [Entry -> Nat] /\ (i # 0 => next2[prev] = next[n])
      /\ \A x \in Entry : x # n /\ x # prev => next2[x] = next[x]
    <2>1. CASE i = 0
        BY <1>1, <1>4, <1>5, <2>1
    <2>2. CASE i # 0
        BY <1>1, <1>4, <1>5, <2>2
    <2>. QED  BY <2>1, <2>2
<1>7. PICK f : f = IF i = 0 THEN next[p[i]] ELSE first[t]
    OBVIOUS
<1>8. \A j \in Nat : j < k /\ j # i /\ j + 1 # i => next2[p[j]] = next[p[j]]
    <2>1. ASSUME NEW j \in Nat, j < k, j # i, j + 1 # i PROVE p[j] \in Entry /\ p[j] # n /\ p[j] # prev
        <3>1. p[j] \in Entry /\ p[j] # n
            BY <1>3, <2>1 DEF Distinct
        <3>2. CASE i = 0
            BY <1>5, <3>1, <3>2, EntryNotNil
        <3>3. CASE i # 0
            <4>1. j # i - 1
                BY <1>3, <2>1
            <4>. QED  BY <1>3, <1>5, <2>1, <3>1, <3>3, <4>1 DEF Distinct
        <3>. QED  BY <3>1, <3>2, <3>3
    <2>. QED  BY <1>6, <2>1
<1>9. i # 0 => next2[p[i - 1]] = next[p[i]]
    BY <1>3, <1>5, <1>6
<1>10. /\ Walk(next2, f, w, k - 1) /\ Distinct(w, k - 1) /\ k - 1 \in Nat
       /\ \A j \in Nat : w[j] = IF j < i THEN p[j] ELSE p[j + 1]
       /\ \A j \in Nat : j < k - 1 => w[j] # p[i]
    <2>1. Cut(next, first[t], p, k, i, next2, f)
        BY <1>3, <1>7, <1>8, <1>9 DEF Cut
    <2>. QED  BY ONLY <1>3, <2>1, WalkCut
<1>11. f \in Nat /\ first2 \in [Threads -> Nat] /\ first2[t] = f /\ \A u \in Threads : u # t => first2[u] = first[u]
    <2>1. CASE i = 0
        BY <1>1, <1>3, <1>4, <1>5, <1>7, <2>1
    <2>2. CASE i # 0
        BY <1>1, <1>3, <1>4, <1>5, <1>7, <2>2
    <2>. QED  BY <2>1, <2>2
<1>12. home2 \in [Entry -> Threads \cup {Away}] /\ home2[n] = Away /\ \A x \in Entry : x # n => home2[x] = home[x]
    BY <1>1, <1>4
<1>13. PICK P2, K2 : P2 = [P EXCEPT ![t] = w] /\ K2 = [K EXCEPT ![t] = k - 1]
    OBVIOUS
<1>14. w \in [Nat -> Nat]
    BY <1>10 DEF Walk
<1>15. /\ P2 \in [Threads -> [Nat -> Nat]] /\ K2 \in [Threads -> Nat] /\ P2[t] = w /\ K2[t] = k - 1
       /\ \A u \in Threads : u # t => P2[u] = P[u] /\ K2[u] = K[u]
    BY <1>1, <1>10, <1>13, <1>14
<1>16. ASSUME NEW j \in Nat, j < k - 1 PROVE w[j] \in Entry /\ home2[w[j]] = t
    <2>1. PICK a \in Nat : a = IF j < i THEN j ELSE j + 1
        OBVIOUS
    <2>2. a < k /\ w[j] = p[a] /\ p[a] # n
        BY <1>3, <1>10, <1>16, <2>1
    <2>. QED  BY <1>3, <1>12, <2>2
<1>17. ASSUME NEW x \in Entry, home2[x] = t PROVE \E j \in Nat : j < k - 1 /\ w[j] = x
    <2>1. x # n
        BY <1>1, <1>12, <1>17
    <2>2. PICK a \in Nat : a < k /\ p[a] = x
        BY <1>3, <1>12, <1>17, <2>1
    <2>3. a # i
        BY <1>3, <2>1, <2>2
    <2>4. CASE a < i
        BY <1>3, <1>10, <2>2, <2>4
    <2>5. CASE ~(a < i)
        <3>1. a - 1 \in Nat /\ a - 1 < k - 1 /\ ~(a - 1 < i) /\ (a - 1) + 1 = a
            BY <1>3, <2>2, <2>3, <2>5
        <3>2. w[a - 1] = x
            BY <1>10, <2>2, <3>1
        <3>. QED  BY <3>1, <3>2
    <2>. QED  BY <2>4, <2>5
<1>18. ASSUME NEW u \in Threads
       PROVE  OnThread(next2, first2[u], home2, u, P2[u], K2[u])
    <2>1. CASE u = t
        BY <1>10, <1>11, <1>15, <1>16, <1>17, <2>1 DEF OnThread
    <2>2. CASE u # t
        <3>1. PICK q, l, z : q = P[u] /\ l = K[u] /\ z = first[u]
            OBVIOUS
        <3>2. OnThread(next, z, home, u, q, l)
            BY <3>1 DEF Threaded
        <3>3. \A j \in Nat : j < l => q[j] # n /\ q[j] # prev
            BY <1>4, <1>5, <2>2, <3>2, EntryNotNil DEF OnThread
        <3>4. \A j \in Nat : j < l => next2[q[j]] = next[q[j]] /\ home2[q[j]] = u
            BY <1>6, <1>12, <3>2, <3>3 DEF OnThread
        <3>5. Walk(next2, z, q, l)
            <4>1. Walk(next, z, q, l) /\ Agree(next, next2, q, l)
                BY <3>2, <3>4 DEF OnThread, Agree
            <4>. QED  BY ONLY <4>1, WalkSame
        <3>6. u # Away
            BY ThreadNotAway
        <3>7. \A x \in Entry : home2[x] = u => home[x] = u
            BY <1>12, <3>6
        <3>8. first2[u] = z /\ P2[u] = q /\ K2[u] = l
            BY <1>11, <1>15, <2>2, <3>1
        <3>. QED  BY <3>2, <3>4, <3>5, <3>7, <3>8 DEF OnThread
    <2>. QED  BY <2>1, <2>2
<1>19. Threaded(next2, first2, home2, P2, K2)
    BY <1>6, <1>11, <1>12, <1>15, <1>18 DEF Threaded
<1>. QED  BY <1>19

-----------------------------------------------------------------------------
(***************************************************************************)
(* The LRU cache: the recency list                                         *)
(***************************************************************************)

\* The members of the core, with their types.
CacheMemory(c) ==
    /\ c = [head |-> c.head, tail |-> c.tail, size |-> c.size, free |-> c.free,
            lru_prev |-> c.lru_prev, lru_next |-> c.lru_next, hash_next |-> c.hash_next,
            bucket |-> c.bucket, key |-> c.key, val |-> c.val]
    /\ c.lru_prev \in [Entry -> Nat] /\ c.lru_next \in [Entry -> Nat]
    /\ c.hash_next \in [Entry -> Nat] /\ c.free \in Nat
    /\ c.bucket \in [0..(Buckets - 1) -> Nat]
    /\ c.key \in [Entry -> Key \cup {NoObject}] /\ c.val \in [Entry -> CacheValue \cup {NoObject}]

\* lru_next runs through q[0], ..., q[k - 1], and lru_prev back.
Recency(c, q, k) ==
    /\ Walk(c.lru_next, c.head, q, k) /\ Distinct(q, k) /\ c.tail = Before(q, k)
    /\ \A i \in Nat : i < k => q[i] \in Entry /\ c.lru_prev[q[i]] = Before(q, i)

\* Two cores that differ in the recency list only.
SameButRecency(c, d) ==
    /\ d.size = c.size /\ d.free = c.free /\ d.hash_next = c.hash_next /\ d.bucket = c.bucket
    /\ d.key = c.key /\ d.val = c.val

LEMMA RecencyPush ==
    ASSUME NEW c, NEW q, NEW k, CacheMemory(c), Recency(c, q, k), NEW n \in Entry,
           \A i \in Nat : i < k => q[i] # n, NEW d, d = lru_push_front(c, n), NEW w, w = With(q, 0, n)
    PROVE  CacheMemory(d) /\ Recency(d, w, k + 1) /\ SameButRecency(c, d)
<1>1. /\ Walk(c.lru_next, c.head, q, k) /\ Distinct(q, k) /\ k \in Nat /\ q \in [Nat -> Nat] /\ q[0] = c.head
      /\ n \in Nat /\ n # Nil
      /\ \A i \in Nat : i < k => q[i] \in Entry /\ q[i] # Nil /\ c.lru_prev[q[i]] = Before(q, i)
      /\ c.lru_prev \in [Entry -> Nat] /\ c.lru_next \in [Entry -> Nat] /\ Nil \in Nat
    BY EntryNotNil DEF Recency, Walk, CacheMemory, Nil
<1>2. /\ k = 0 => c.head = Nil
      /\ k # 0 => 0 < k /\ c.head \in Entry /\ c.head # Nil /\ c.head # n
    BY <1>1 DEF Recency, Walk
<1>3. PICK nx, pv, tl :
        /\ d = [head |-> n, tail |-> tl, size |-> c.size, free |-> c.free,
                lru_prev |-> pv, lru_next |-> nx, hash_next |-> c.hash_next,
                bucket |-> c.bucket, key |-> c.key, val |-> c.val]
        /\ nx = [c.lru_next EXCEPT ![n] = c.head]
        /\ pv = (IF c.head = Nil THEN [c.lru_prev EXCEPT ![n] = Nil]
                 ELSE [[c.lru_prev EXCEPT ![n] = Nil] EXCEPT ![c.head] = n])
        /\ tl = (IF c.head = Nil THEN n ELSE c.tail)
    BY DEF lru_push_front, CacheMemory
<1>4. /\ d.head = n /\ d.tail = tl /\ d.size = c.size /\ d.free = c.free /\ d.lru_prev = pv
      /\ d.lru_next = nx /\ d.hash_next = c.hash_next /\ d.bucket = c.bucket /\ d.key = c.key /\ d.val = c.val
    BY <1>3
<1>5. nx \in [Entry -> Nat] /\ nx[n] = c.head /\ \A x \in Entry : x # n => nx[x] = c.lru_next[x]
    BY <1>1, <1>3
<1>6. /\ pv \in [Entry -> Nat] /\ pv[n] = Nil /\ (k # 0 => pv[c.head] = n)
      /\ \A x \in Entry : x # n /\ x # c.head => pv[x] = c.lru_prev[x]
    <2>1. CASE k = 0
        BY <1>1, <1>2, <1>3, <2>1
    <2>2. CASE k # 0
        BY <1>1, <1>2, <1>3, <2>2
    <2>. QED  BY <2>1, <2>2
<1>7. CacheMemory(d)
    BY <1>3, <1>4, <1>5, <1>6 DEF CacheMemory
<1>8. Pushed(c.lru_next, c.head, q, k, n, nx)
    BY <1>1, <1>5 DEF Pushed, Agree
<1>9. /\ Walk(nx, n, w, k + 1) /\ Distinct(w, k + 1) /\ w[0] = n /\ \A i \in Nat : w[i + 1] = q[i]
    BY ONLY <1>1, <1>8, w = With(q, 0, n), WalkPush
<1>10. ASSUME NEW i \in Nat, i < k + 1 PROVE w[i] \in Entry /\ pv[w[i]] = Before(w, i)
    <2>1. CASE i = 0
        BY <1>6, <1>9, <2>1 DEF Before
    <2>2. CASE i = 1
        <3>1. 0 < k /\ w[1] = q[0] /\ w[1] = c.head
            <4>1. w[0 + 1] = q[0] /\ 0 + 1 = 1
                BY <1>9
            <4>. QED  BY <1>1, <1>10, <2>2, <4>1
        <3>. QED  BY <1>2, <1>6, <1>9, <2>2, <3>1 DEF Before
    <2>3. CASE i # 0 /\ i # 1
        <3>1. PICK j \in Nat : j = i - 1
            BY <2>3
        <3>2. PICK h \in Nat : h = j - 1
            BY <2>3, <3>1
        <3>3. j < k /\ h < k /\ j # 0 /\ j + 1 = i /\ h + 1 = j /\ i - 1 = j /\ j - 1 = h
            BY <1>1, <1>10, <2>3, <3>1, <3>2
        <3>4. w[i] = q[j] /\ w[j] = q[h]
            BY <1>9, <3>3
        <3>5. q[j] # q[0] /\ 0 < k
            BY <1>1, <3>3 DEF Distinct
        <3>6. q[j] \in Entry /\ q[j] # n /\ c.lru_prev[q[j]] = q[h]
            BY <1>1, <3>3 DEF Before
        <3>7. Before(w, i) = w[j]
            BY <2>3, <3>3 DEF Before
        <3>. QED  BY <1>1, <1>6, <3>4, <3>5, <3>6, <3>7
    <2>. QED  BY <2>1, <2>2, <2>3
<1>11. tl = Before(w, k + 1)
    <2>1. Before(w, k + 1) = w[k]
        BY <1>1 DEF Before
    <2>2. CASE k = 0
        BY <1>2, <1>3, <1>9, <2>1, <2>2
    <2>3. CASE k # 0
        <3>1. k - 1 \in Nat /\ (k - 1) + 1 = k
            BY <1>1, <2>3
        <3>2. w[k] = q[k - 1]
            BY <1>9, <3>1
        <3>3. c.tail = q[k - 1]
            BY <2>3 DEF Recency, Before
        <3>. QED  BY <1>2, <1>3, <2>1, <2>3, <3>2, <3>3
    <2>. QED  BY <2>2, <2>3
<1>12. Recency(d, w, k + 1)
    BY <1>4, <1>9, <1>10, <1>11 DEF Recency
<1>. QED  BY <1>4, <1>7, <1>12 DEF SameButRecency

LEMMA RecencyCut ==
    ASSUME NEW c, NEW q, NEW k, CacheMemory(c), Recency(c, q, k), NEW i \in Nat, i < k,
           NEW d, d = lru_unlink(c, q[i]), NEW w, w = Without(q, i)
    PROVE  /\ CacheMemory(d) /\ Recency(d, w, k - 1) /\ SameButRecency(c, d)
           /\ \A j \in Nat : j < k - 1 => w[j] # q[i]
<1>1. /\ Walk(c.lru_next, c.head, q, k) /\ Distinct(q, k) /\ k \in Nat /\ q \in [Nat -> Nat] /\ q[0] = c.head
      /\ \A j \in Nat : j < k => /\ q[j] \in Entry /\ q[j] # Nil /\ c.lru_prev[q[j]] = Before(q, j)
                                 /\ c.lru_next[q[j]] = q[j + 1]
      /\ \A j \in Nat : j >= k => q[j] = Nil
      /\ c.lru_prev \in [Entry -> Nat] /\ c.lru_next \in [Entry -> Nat] /\ Nil \in Nat
    BY EntryNotNil DEF Recency, Walk, CacheMemory, Nil
<1>2. PICK n, p, s : n = q[i] /\ p = Before(q, i) /\ s = q[i + 1]
    OBVIOUS
<1>3. n \in Entry /\ n # Nil /\ c.lru_prev[n] = p /\ c.lru_next[n] = s /\ s \in Nat
    BY <1>1, <1>2
<1>4. /\ i = 0 => p = Nil
      /\ i # 0 => i - 1 \in Nat /\ i - 1 < k /\ p = q[i - 1] /\ p \in Entry /\ p # Nil /\ p # n
    <2>1. CASE i = 0
        BY <1>2, <2>1 DEF Before
    <2>2. CASE i # 0
        <3>1. i - 1 \in Nat /\ i - 1 < k /\ i - 1 # i
            BY <1>1, <2>2
        <3>2. p = q[i - 1]
            BY <1>2, <2>2 DEF Before
        <3>. QED  BY <1>1, <1>2, <2>2, <3>1, <3>2 DEF Distinct
    <2>. QED  BY <2>1, <2>2
<1>5. /\ i + 1 = k => s = Nil
      /\ i + 1 # k => i + 1 \in Nat /\ i + 1 < k /\ s \in Entry /\ s # Nil /\ s # n /\ s # p
    <2>1. CASE i + 1 = k
        BY <1>1, <1>2, <2>1
    <2>2. CASE i + 1 # k
        <3>1. i + 1 \in Nat /\ i + 1 < k /\ i + 1 # i /\ i + 1 # i - 1
            BY <1>1, <2>2
        <3>2. s \in Entry /\ s # Nil /\ s # n
            BY <1>1, <1>2, <3>1 DEF Distinct
        <3>3. s # p
            <4>1. CASE i = 0
                BY <1>4, <3>2, <4>1
            <4>2. CASE i # 0
                BY <1>1, <1>2, <1>4, <3>1, <4>2 DEF Distinct
            <4>. QED  BY <4>1, <4>2
        <3>. QED  BY <2>2, <3>1, <3>2, <3>3
    <2>. QED  BY <2>1, <2>2
<1>6. PICK nx, pv, hd, tl :
        /\ d = [head |-> hd, tail |-> tl, size |-> c.size, free |-> c.free,
                lru_prev |-> pv, lru_next |-> nx, hash_next |-> c.hash_next,
                bucket |-> c.bucket, key |-> c.key, val |-> c.val]
        /\ nx = [(IF p = Nil THEN c.lru_next ELSE [c.lru_next EXCEPT ![p] = s]) EXCEPT ![n] = Nil]
        /\ pv = [(IF s = Nil THEN c.lru_prev ELSE [c.lru_prev EXCEPT ![s] = p]) EXCEPT ![n] = Nil]
        /\ hd = (IF p = Nil THEN s ELSE c.head) /\ tl = (IF s = Nil THEN p ELSE c.tail)
    <2>1. d = lru_unlink(c, n)
        BY <1>2
    <2>. QED  BY <1>3, <2>1, ZenonT(40) DEF lru_unlink, CacheMemory
<1>7. /\ d.head = hd /\ d.tail = tl /\ d.size = c.size /\ d.free = c.free /\ d.lru_prev = pv
      /\ d.lru_next = nx /\ d.hash_next = c.hash_next /\ d.bucket = c.bucket /\ d.key = c.key /\ d.val = c.val
    BY <1>6
<1>8. /\ nx \in [Entry -> Nat] /\ (i # 0 => nx[p] = s)
      /\ \A x \in Entry : x # n /\ (i # 0 => x # p) => nx[x] = c.lru_next[x]
    <2>1. CASE i = 0
        BY <1>1, <1>3, <1>4, <1>6, <2>1
    <2>2. CASE i # 0
        BY <1>1, <1>3, <1>4, <1>6, <2>2
    <2>. QED  BY <2>1, <2>2
<1>9. /\ pv \in [Entry -> Nat] /\ (i + 1 # k => pv[s] = p)
      /\ \A x \in Entry : x # n /\ (i + 1 # k => x # s) => pv[x] = c.lru_prev[x]
    <2>0. p \in Nat
        BY <1>1, <1>4
    <2>1. CASE i + 1 = k
        BY <1>1, <1>3, <1>5, <1>6, <2>1
    <2>2. CASE i + 1 # k
        BY <1>1, <1>3, <1>5, <1>6, <2>0, <2>2
    <2>. QED  BY <2>1, <2>2
<1>10. CacheMemory(d)
    BY <1>6, <1>7, <1>8, <1>9 DEF CacheMemory
<1>11. Cut(c.lru_next, c.head, q, k, i, nx, hd)
    <2>1. hd = IF i = 0 THEN c.lru_next[q[i]] ELSE c.head
        BY <1>2, <1>3, <1>4, <1>6
    <2>2. i # 0 => nx[q[i - 1]] = c.lru_next[q[i]]
        BY <1>2, <1>3, <1>4, <1>8
    <2>3. ASSUME NEW j \in Nat, j < k, j # i, j + 1 # i PROVE nx[q[j]] = c.lru_next[q[j]]
        <3>1. q[j] \in Entry /\ q[j] # n
            BY <1>1, <1>2, <2>3 DEF Distinct
        <3>2. ASSUME i # 0 PROVE q[j] # p
            <4>1. j # i - 1
                BY <2>3
            <4>. QED  BY <1>1, <1>4, <2>3, <3>2, <4>1 DEF Distinct
        <3>. QED  BY <1>8, <3>1, <3>2
    <2>. QED  BY <2>1, <2>2, <2>3 DEF Cut
<1>12. /\ Walk(nx, hd, w, k - 1) /\ Distinct(w, k - 1) /\ k - 1 \in Nat
       /\ \A j \in Nat : w[j] = IF j < i THEN q[j] ELSE q[j + 1]
       /\ \A j \in Nat : j < k - 1 => w[j] # q[i]
    BY ONLY <1>1, <1>11, w = Without(q, i), WalkCut
<1>13. ASSUME NEW j \in Nat, j < k - 1 PROVE w[j] \in Entry /\ pv[w[j]] = Before(w, j)
    <2>1. CASE j < i
        <3>1. w[j] = q[j] /\ j < k /\ q[j] \in Entry /\ q[j] # n /\ c.lru_prev[q[j]] = Before(q, j)
            BY <1>1, <1>2, <1>12, <2>1 DEF Distinct
        <3>2. i + 1 # k => q[j] # s
            <4>1. i + 1 # j /\ j < k
                BY <1>1, <2>1
            <4>. QED  BY <1>1, <1>2, <1>5, <4>1 DEF Distinct
        <3>3. pv[q[j]] = Before(q, j)
            BY <1>9, <3>1, <3>2
        <3>4. Before(w, j) = Before(q, j)
            <4>1. CASE j = 0
                BY <4>1 DEF Before
            <4>2. CASE j # 0
                <5>1. j - 1 \in Nat /\ j - 1 < i
                    BY <2>1, <4>2
                <5>. QED  BY <1>12, <4>2, <5>1 DEF Before
            <4>. QED  BY <4>1, <4>2
        <3>. QED  BY <3>1, <3>3, <3>4
    <2>2. CASE j = i
        <3>1. w[j] = s /\ i + 1 # k
            BY <1>1, <1>2, <1>12, <1>13, <2>2
        <3>2. Before(w, j) = p
            <4>1. CASE i = 0
                BY <1>4, <2>2, <4>1 DEF Before
            <4>2. CASE i # 0
                <5>1. i - 1 < i /\ i - 1 \in Nat
                    BY <4>2
                <5>. QED  BY <1>4, <1>12, <2>2, <4>2, <5>1 DEF Before
            <4>. QED  BY <4>1, <4>2
        <3>. QED  BY <1>5, <1>9, <3>1, <3>2
    <2>3. CASE j > i
        <3>1. j + 1 \in Nat /\ j + 1 < k /\ ~(j < i) /\ j + 1 # i /\ j + 1 # i + 1 /\ j # 0
            BY <1>1, <1>13, <2>3
        <3>2. w[j] = q[j + 1] /\ q[j + 1] \in Entry /\ q[j + 1] # n
            BY <1>1, <1>2, <1>12, <3>1 DEF Distinct
        <3>3. i + 1 # k => q[j + 1] # s
            BY <1>1, <1>2, <1>5, <3>1 DEF Distinct
        <3>4. pv[q[j + 1]] = q[j]
            <4>1. c.lru_prev[q[j + 1]] = Before(q, j + 1)
                BY <1>1, <3>1
            <4>2. Before(q, j + 1) = q[j]
                BY DEF Before
            <4>. QED  BY <1>9, <3>2, <3>3, <4>1, <4>2
        <3>5. Before(w, j) = q[j]
            <4>1. j - 1 \in Nat /\ ~(j - 1 < i) /\ (j - 1) + 1 = j
                BY <2>3
            <4>2. w[j - 1] = q[j]
                BY <1>12, <4>1
            <4>. QED  BY <3>1, <4>2 DEF Before
        <3>. QED  BY <3>2, <3>4, <3>5
    <2>. QED  BY <2>1, <2>2, <2>3
<1>14. tl = Before(w, k - 1)
    <2>1. CASE i + 1 = k
        <3>1. tl = p /\ k - 1 = i
            BY <1>1, <1>5, <1>6, <2>1
        <3>2. CASE i = 0
            BY <1>4, <3>1, <3>2 DEF Before
        <3>3. CASE i # 0
            <4>1. i - 1 < i /\ i - 1 \in Nat
                BY <3>3
            <4>. QED  BY <1>4, <1>12, <3>1, <3>3, <4>1 DEF Before
        <3>. QED  BY <3>2, <3>3
    <2>2. CASE i + 1 # k
        <3>1. tl = c.tail /\ k - 1 # 0 /\ (k - 1) - 1 \in Nat /\ ~((k - 1) - 1 < i)
              /\ ((k - 1) - 1) + 1 = k - 1 /\ k # 0
            BY <1>1, <1>5, <1>6, <2>2
        <3>2. c.tail = q[k - 1]
            BY <3>1 DEF Recency, Before
        <3>3. w[(k - 1) - 1] = q[k - 1]
            BY <1>12, <3>1
        <3>. QED  BY <3>1, <3>2, <3>3 DEF Before
    <2>. QED  BY <2>1, <2>2
<1>15. Recency(d, w, k - 1)
    BY <1>7, <1>12, <1>13, <1>14 DEF Recency
<1>. QED  BY <1>7, <1>10, <1>12, <1>15 DEF SameButRecency

-----------------------------------------------------------------------------
(***************************************************************************)
(* The LRU cache: what links an entry and what takes it out                *)
(***************************************************************************)

LEMMA HashIs ==
    ASSUME NEW x \in Key
    PROVE  /\ hash(x) \in Threads /\ hash(x) # Buckets /\ hash(x) # Away
           /\ hash(x) \in 0..(Buckets - 1) /\ hash(x) \in Nat
<1>1. x \in Nat /\ HashRange \in Nat \ {0} /\ Buckets \in Nat \ {0}
    BY LruConstants
<1>2. x % HashRange \in 0..(HashRange - 1)
    BY <1>1, ModDef
<1>3. (x % HashRange) \in Nat
    BY <1>1, <1>2
<1>4. (x % HashRange) % Buckets \in 0..(Buckets - 1)
    BY <1>1, <1>3, ModDef
<1>. QED  BY <1>1, <1>4 DEF hash, Threads, Away

\* The first entries of the lists, and that hash_next threads the entries as home says.
Heads(c) == [t \in Threads |-> IF t = Buckets THEN c.free ELSE c.bucket[t]]

BucketSet(c, d, b, x) ==
    /\ c.bucket \in [0..(Buckets - 1) -> Nat] /\ b \in Threads /\ b # Buckets
    /\ d.bucket = [c.bucket EXCEPT ![b] = x] /\ d.free = c.free

LEMMA HeadsBucket ==
    ASSUME NEW c, NEW d, NEW b, NEW x, BucketSet(c, d, b, x)
    PROVE  Heads(d) = [Heads(c) EXCEPT ![b] = x]
<1>1. (\A t \in Threads : t # Buckets => t \in 0..(Buckets - 1)) /\ b \in Threads /\ b # Buckets
    BY EntryNotNil DEF Threads, BucketSet
<1>2. PICK e : e = [Heads(c) EXCEPT ![b] = x]
    OBVIOUS
<1>3. /\ e = [t \in Threads |-> e[t]] /\ e[b] = x
      /\ \A t \in Threads : t # b => e[t] = IF t = Buckets THEN c.free ELSE c.bucket[t]
    BY <1>1, <1>2 DEF Heads
<1>4. \A t \in Threads : e[t] = IF t = Buckets THEN d.free ELSE d.bucket[t]
    BY <1>1, <1>3 DEF BucketSet
<1>5. e = [t \in Threads |-> IF t = Buckets THEN d.free ELSE d.bucket[t]]
    BY <1>3, <1>4
<1>. QED  BY <1>2, <1>5 DEF Heads

HashLists(c, home) == \E P, K : Threaded(c.hash_next, Heads(c), home, P, K)

\* The entries in chains are those of the recency list, each in the chain of its key,
\* and no two have the same key.
Kept(c, home, q, k) ==
    /\ \A n \in Entry : home[n] # Buckets /\ home[n] # Away => \E i \in Nat : i < k /\ q[i] = n
    /\ \A i \in Nat : i < k => /\ c.key[q[i]] \in Key /\ c.val[q[i]] \in CacheValue
                               /\ home[q[i]] = hash(c.key[q[i]])
    /\ \A i, j \in Nat : i < k /\ j < k /\ c.key[q[i]] = c.key[q[j]] => i = j

\* The core c holds the k entries of q, used last first.
Cached(c, home, q, k) ==
    CacheMemory(c) /\ HashLists(c, home) /\ Recency(c, q, k) /\ Kept(c, home, q, k)

LEMMA CachedFacts ==
    ASSUME NEW c, NEW home, NEW q, NEW k, Cached(c, home, q, k)
    PROVE  /\ k \in Nat /\ q \in [Nat -> Nat] /\ home \in [Entry -> Threads \cup {Away}]
           /\ q[0] = c.head /\ (k = 0 => c.head = Nil) /\ c.tail = Before(q, k)
           /\ \A i \in Nat : i < k => /\ q[i] \in Entry /\ q[i] # Nil /\ c.key[q[i]] \in Key
                                      /\ c.val[q[i]] \in CacheValue /\ home[q[i]] = hash(c.key[q[i]])
                                      /\ home[q[i]] # Buckets /\ home[q[i]] # Away
           /\ \A i, j \in Nat : i < k /\ j < k /\ q[i] = q[j] => i = j
           /\ \A i, j \in Nat : i < k /\ j < k /\ c.key[q[i]] = c.key[q[j]] => i = j
           /\ \A n \in Entry : home[n] # Buckets /\ home[n] # Away => \E i \in Nat : i < k /\ q[i] = n
<1>1. /\ k \in Nat /\ q \in [Nat -> Nat] /\ q[0] = c.head /\ (k = 0 => c.head = Nil)
      /\ c.tail = Before(q, k)
      /\ \A i \in Nat : i < k => q[i] \in Entry /\ q[i] # Nil
      /\ \A i, j \in Nat : i < k /\ j < k /\ q[i] = q[j] => i = j
    BY DEF Cached, Recency, Walk, Distinct
<1>2. home \in [Entry -> Threads \cup {Away}]
    BY DEF Cached, HashLists, Threaded
<1>3. /\ \A n \in Entry : home[n] # Buckets /\ home[n] # Away => \E i \in Nat : i < k /\ q[i] = n
      /\ \A i \in Nat : i < k => /\ c.key[q[i]] \in Key /\ c.val[q[i]] \in CacheValue
                                 /\ home[q[i]] = hash(c.key[q[i]])
      /\ \A i, j \in Nat : i < k /\ j < k /\ c.key[q[i]] = c.key[q[j]] => i = j
    BY DEF Cached, Kept
<1>4. ASSUME NEW i \in Nat, i < k PROVE home[q[i]] # Buckets /\ home[q[i]] # Away
    <2>1. c.key[q[i]] \in Key /\ home[q[i]] = hash(c.key[q[i]])
        BY <1>3, <1>4
    <2>. QED  BY <2>1, HashIs
<1>. QED  BY <1>1, <1>2, <1>3, <1>4

\* prev is the entry before n on its list.
Ahead(c, home, n, prev) ==
    \E P, K : /\ Threaded(c.hash_next, Heads(c), home, P, K)
              /\ \E i \in Nat : i < K[home[n]] /\ P[home[n]][i] = n /\ prev = Before(P[home[n]], i)

\* The hash side of a core does not see the rest.
LEMMA HashSame ==
    ASSUME NEW c, NEW d, d.hash_next = c.hash_next, d.free = c.free, d.bucket = c.bucket, NEW home
    PROVE  /\ HashLists(c, home) => HashLists(d, home)
           /\ \A n, prev : Ahead(c, home, n, prev) => Ahead(d, home, n, prev)
<1>1. Heads(d) = Heads(c)
    BY DEF Heads
<1>. QED  BY <1>1 DEF HashLists, Ahead

\* Nor does the recency side.
LEMMA RecencySame ==
    ASSUME NEW c, NEW q, NEW k, Recency(c, q, k), NEW d, d.head = c.head, d.tail = c.tail,
           \A i \in Nat : i < k => /\ d.lru_next[q[i]] = c.lru_next[q[i]]
                                   /\ d.lru_prev[q[i]] = c.lru_prev[q[i]]
    PROVE  Recency(d, q, k)
<1>1. Walk(c.lru_next, c.head, q, k) /\ Agree(c.lru_next, d.lru_next, q, k)
    BY DEF Recency, Agree
<1>2. Walk(d.lru_next, c.head, q, k)
    BY ONLY <1>1, WalkSame
<1>. QED  BY <1>2 DEF Recency

\* Two cores with the same elements.
SameData(c, d) == d.size = c.size /\ d.key = c.key /\ d.val = c.val

\* The entry at i leaves both lists; its objects are destroyed.
Drops(c, home, q, i, prev, d, h, w) ==
    /\ Ahead(c, home, q[i], prev)
    /\ d = hash_unlink(lru_unlink(destroy_entry(c, q[i]), q[i]), home[q[i]], q[i], prev)
    /\ h = [home EXCEPT ![q[i]] = Away] /\ w = Without(q, i)

LEMMA DropIs ==
    ASSUME NEW c, NEW home, NEW q, NEW k, Cached(c, home, q, k), NEW i \in Nat, i < k,
           NEW prev, NEW d, NEW h, NEW w, Drops(c, home, q, i, prev, d, h, w)
    PROVE  /\ Cached(d, h, w, k - 1)
           /\ d.size = c.size
           /\ \A x \in Entry : x # q[i] => d.key[x] = c.key[x] /\ d.val[x] = c.val[x]
<1>0. PICK n : /\ n = q[i] /\ Ahead(c, home, n, prev)
               /\ d = hash_unlink(lru_unlink(destroy_entry(c, n), n), home[n], n, prev)
               /\ h = [home EXCEPT ![n] = Away] /\ w = Without(q, i)
    BY DEF Drops
<1>1. /\ k \in Nat /\ q \in [Nat -> Nat] /\ n \in Entry /\ home \in [Entry -> Threads \cup {Away}]
      /\ home[n] # Buckets /\ home[n] # Away /\ CacheMemory(c) /\ Recency(c, q, k)
      /\ \A a \in Nat : a < k => /\ q[a] \in Entry /\ q[a] # Nil /\ c.key[q[a]] \in Key
                                 /\ c.val[q[a]] \in CacheValue /\ home[q[a]] = hash(c.key[q[a]])
                                 /\ home[q[a]] # Buckets /\ home[q[a]] # Away
      /\ \A a, b \in Nat : a < k /\ b < k /\ q[a] = q[b] => a = b
      /\ \A a, b \in Nat : a < k /\ b < k /\ c.key[q[a]] = c.key[q[b]] => a = b
      /\ \A x \in Entry : home[x] # Buckets /\ home[x] # Away => \E a \in Nat : a < k /\ q[a] = x
    <2>1. CacheMemory(c) /\ Recency(c, q, k)
        BY DEF Cached
    <2>2. n = q[i]
        BY <1>0
    <2>. QED  BY <2>1, <2>2, CachedFacts
<1>2. PICK x : x = destroy_entry(c, n)
    OBVIOUS
<1>2a. PICK kk, vv :
        /\ x = [head |-> c.head, tail |-> c.tail, size |-> c.size, free |-> c.free,
                lru_prev |-> c.lru_prev, lru_next |-> c.lru_next, hash_next |-> c.hash_next,
                bucket |-> c.bucket, key |-> kk, val |-> vv]
        /\ kk = [c.key EXCEPT ![n] = NoObject] /\ vv = [c.val EXCEPT ![n] = NoObject]
    <2>1. CacheMemory(c)
        BY <1>1
    <2>. QED  BY ONLY <1>2, <2>1 DEF destroy_entry, CacheMemory
<1>3. /\ x.head = c.head /\ x.tail = c.tail /\ x.size = c.size /\ x.free = c.free
      /\ x.lru_prev = c.lru_prev /\ x.lru_next = c.lru_next /\ x.hash_next = c.hash_next
      /\ x.bucket = c.bucket /\ x.key = kk /\ x.val = vv
      /\ kk \in [Entry -> Key \cup {NoObject}] /\ vv \in [Entry -> CacheValue \cup {NoObject}]
      /\ \A y \in Entry : y # n => kk[y] = c.key[y] /\ vv[y] = c.val[y]
    <2>1. /\ x.head = c.head /\ x.tail = c.tail /\ x.size = c.size /\ x.free = c.free
          /\ x.lru_prev = c.lru_prev /\ x.lru_next = c.lru_next /\ x.hash_next = c.hash_next
          /\ x.bucket = c.bucket /\ x.key = kk /\ x.val = vv
        BY ONLY <1>2a
    <2>2. c.key \in [Entry -> Key \cup {NoObject}] /\ c.val \in [Entry -> CacheValue \cup {NoObject}]
        BY <1>1 DEF CacheMemory
    <2>3. kk = [c.key EXCEPT ![n] = NoObject] /\ vv = [c.val EXCEPT ![n] = NoObject] /\ n \in Entry
        BY <1>1, <1>2a
    <2>. QED  BY ONLY <2>1, <2>2, <2>3
<1>4. CacheMemory(x)
    BY <1>1, <1>2a, <1>3 DEF CacheMemory
<1>5. Recency(x, q, k)
    BY <1>1, <1>3 DEF Recency
<1>6. PICK y : y = lru_unlink(x, n) /\ w = Without(q, i)
    BY <1>0
<1>7. CacheMemory(y) /\ Recency(y, w, k - 1) /\ SameButRecency(x, y)
    <2>1. y = lru_unlink(x, q[i])
        BY <1>0, <1>6
    <2>. QED  BY <1>4, <1>5, <1>6, <2>1, RecencyCut
<1>8. y.hash_next = c.hash_next /\ y.bucket = c.bucket /\ y.free = c.free /\ y.key = kk /\ y.val = vv /\ y.size = c.size
    BY <1>3, <1>7 DEF SameButRecency
<1>9. PICK P, K : /\ Threaded(c.hash_next, Heads(c), home, P, K)
                  /\ \E a \in Nat : a < K[home[n]] /\ P[home[n]][a] = n /\ prev = Before(P[home[n]], a)
    BY <1>0 DEF Ahead
<1>10. PICK b \in Threads : b = home[n]
    BY <1>1
<1>11. PICK a \in Nat : a < K[b] /\ n = P[b][a] /\ prev = Before(P[b], a)
    BY <1>9, <1>10
<1>12. PICK nx, bk :
        /\ nx = [(IF prev = Nil THEN c.hash_next ELSE [c.hash_next EXCEPT ![prev] = c.hash_next[n]]) EXCEPT ![n] = Nil]
        /\ bk = (IF prev = Nil THEN [c.bucket EXCEPT ![b] = c.hash_next[n]] ELSE c.bucket)
        /\ h = [home EXCEPT ![n] = Away]
    BY <1>0
<1>13. d = [head |-> y.head, tail |-> y.tail, size |-> c.size, free |-> c.free,
            lru_prev |-> y.lru_prev, lru_next |-> y.lru_next, hash_next |-> nx,
            bucket |-> bk, key |-> kk, val |-> vv]
    <2>1. d = hash_unlink(y, b, n, prev)
        BY <1>0, <1>2, <1>6, <1>10
    <2>2. y = [head |-> y.head, tail |-> y.tail, size |-> c.size, free |-> c.free,
               lru_prev |-> y.lru_prev, lru_next |-> y.lru_next, hash_next |-> c.hash_next,
               bucket |-> c.bucket, key |-> kk, val |-> vv]
        BY <1>7, <1>8 DEF CacheMemory
    <2>3. CASE prev = Nil
        <3>1. PICK e : e = [y EXCEPT !.bucket[b] = y.hash_next[n]]
            OBVIOUS
        <3>2. e = [head |-> y.head, tail |-> y.tail, size |-> c.size, free |-> c.free,
                   lru_prev |-> y.lru_prev, lru_next |-> y.lru_next, hash_next |-> c.hash_next,
                   bucket |-> bk, key |-> kk, val |-> vv]
            BY ONLY <1>8, <1>12, <2>2, <2>3, <3>1
        <3>3. d = [e EXCEPT !.hash_next[n] = Nil]
            BY ONLY <2>1, <2>3, <3>1 DEF hash_unlink
        <3>. QED  BY ONLY <1>12, <2>3, <3>2, <3>3
    <2>4. CASE prev # Nil
        <3>1. PICK e : e = [y EXCEPT !.hash_next[prev] = y.hash_next[n]]
            OBVIOUS
        <3>2. e = [head |-> y.head, tail |-> y.tail, size |-> c.size, free |-> c.free,
                   lru_prev |-> y.lru_prev, lru_next |-> y.lru_next,
                   hash_next |-> [c.hash_next EXCEPT ![prev] = c.hash_next[n]],
                   bucket |-> bk, key |-> kk, val |-> vv]
            BY ONLY <1>8, <1>12, <2>2, <2>4, <3>1
        <3>3. d = [e EXCEPT !.hash_next[n] = Nil]
            BY ONLY <2>1, <2>4, <3>1 DEF hash_unlink
        <3>. QED  BY ONLY <1>12, <2>4, <3>2, <3>3
    <2>. QED  BY <2>3, <2>4
<1>14. /\ d.head = y.head /\ d.tail = y.tail /\ d.size = c.size /\ d.free = c.free
       /\ d.lru_prev = y.lru_prev /\ d.lru_next = y.lru_next /\ d.hash_next = nx
       /\ d.bucket = bk /\ d.key = kk /\ d.val = vv
    BY <1>13
<1>15. c.hash_next \in [Entry -> Nat] /\ c.bucket \in [0..(Buckets - 1) -> Nat] /\ b \in 0..(Buckets - 1)
       /\ c.hash_next[n] \in Nat
    <2>1. c.hash_next \in [Entry -> Nat] /\ c.bucket \in [0..(Buckets - 1) -> Nat] /\ n \in Entry
        BY <1>1 DEF CacheMemory
    <2>2. b \in Threads /\ b # Buckets
        BY <1>1, <1>10
    <2>3. b \in 0..(Buckets - 1)
        BY ONLY <2>2, EntryNotNil DEF Threads
    <2>. QED  BY ONLY <2>1, <2>3
<1>16. bk \in [0..(Buckets - 1) -> Nat]
    BY <1>12, <1>15
<1>17. Heads(d) = IF prev = Nil THEN [Heads(c) EXCEPT ![b] = c.hash_next[n]] ELSE Heads(c)
    <2>1. CASE prev = Nil
        <3>1. BucketSet(c, d, b, c.hash_next[n])
            BY <1>1, <1>10, <1>12, <1>14, <1>15, <2>1 DEF BucketSet
        <3>2. Heads(d) = [Heads(c) EXCEPT ![b] = c.hash_next[n]]
            BY ONLY <3>1, HeadsBucket
        <3>. QED  BY <2>1, <3>2
    <2>2. CASE prev # Nil
        BY <1>12, <1>14, <2>2 DEF Heads
    <2>. QED  BY <2>1, <2>2
<1>18. \E P2, K2 : Threaded(nx, Heads(d), h, P2, K2)
    <2>1. Threaded(c.hash_next, Heads(c), home, P, K)
        BY <1>9
    <2>2. TakenOut(c.hash_next, Heads(c), P, K, b, a, n, prev, nx, Heads(d))
        BY <1>11, <1>12, <1>17 DEF TakenOut
    <2>3. h = [home EXCEPT ![n] = Away]
        BY <1>12
    <2>. QED  BY ONLY <2>1, <2>2, <2>3, ThreadCut
<1>19. nx \in [Entry -> Nat]
    BY <1>18 DEF Threaded
<1>20. CacheMemory(d)
    BY <1>3, <1>7, <1>13, <1>14, <1>15, <1>16, <1>19, <1>1 DEF CacheMemory
<1>21. HashLists(d, h)
    BY <1>14, <1>18 DEF HashLists
<1>22. Recency(d, w, k - 1)
    BY <1>7, <1>14 DEF Recency
<1>23. Kept(d, h, w, k - 1)
    <2>0. k - 1 \in Nat /\ h[n] = Away /\ \A z \in Entry : z # n => h[z] = home[z]
        BY <1>1, <1>12
    <2>1. \A j \in Nat : w[j] = IF j < i THEN q[j] ELSE q[j + 1]
        BY <1>1, <1>6 DEF Without
    <2>2. ASSUME NEW j \in Nat, j < k - 1
          PROVE  \E e \in Nat : e < k /\ e # i /\ w[j] = q[e] /\ e = IF j < i THEN j ELSE j + 1
        BY <1>1, <2>1, <2>2
    <2>3. ASSUME NEW e \in Nat, e < k, e # i
          PROVE  q[e] # n /\ d.key[q[e]] = c.key[q[e]] /\ d.val[q[e]] = c.val[q[e]] /\ h[q[e]] = home[q[e]]
        BY <1>0, <1>1, <1>3, <1>14, <2>0, <2>3
    <2>4. ASSUME NEW z \in Entry, h[z] # Buckets, h[z] # Away
          PROVE  \E j \in Nat : j < k - 1 /\ w[j] = z
        <3>1. z # n /\ home[z] # Buckets /\ home[z] # Away
            BY <2>0, <2>4
        <3>2. PICK e \in Nat : e < k /\ q[e] = z
            BY <1>1, <3>1
        <3>3. e # i
            BY <1>0, <3>1, <3>2
        <3>4. CASE e < i
            <4>1. e < k - 1 /\ w[e] = q[e]
                BY <1>1, <2>1, <3>2, <3>4
            <4>. QED  BY <3>2, <4>1
        <3>5. CASE ~(e < i)
            <4>1. e - 1 \in Nat /\ e - 1 < k - 1 /\ ~(e - 1 < i) /\ (e - 1) + 1 = e
                BY <1>1, <3>2, <3>3, <3>5
            <4>. QED  BY <2>1, <3>2, <4>1
        <3>. QED  BY <3>4, <3>5
    <2>5. ASSUME NEW j \in Nat, j < k - 1
          PROVE  /\ d.key[w[j]] \in Key /\ d.val[w[j]] \in CacheValue
                 /\ h[w[j]] = hash(d.key[w[j]])
        <3>1. PICK e \in Nat : e < k /\ e # i /\ w[j] = q[e]
            BY <2>2, <2>5
        <3>. QED  BY <1>1, <2>3, <3>1
    <2>6. ASSUME NEW j \in Nat, NEW l \in Nat, j < k - 1, l < k - 1, d.key[w[j]] = d.key[w[l]]
          PROVE  j = l
        <3>1. PICK e \in Nat : e < k /\ e # i /\ w[j] = q[e] /\ e = IF j < i THEN j ELSE j + 1
            BY <2>2, <2>6
        <3>2. PICK f \in Nat : f < k /\ f # i /\ w[l] = q[f] /\ f = IF l < i THEN l ELSE l + 1
            BY <2>2, <2>6
        <3>3. c.key[q[e]] = c.key[q[f]]
            BY <2>3, <2>6, <3>1, <3>2
        <3>4. e = f
            BY <1>1, <3>1, <3>2, <3>3
        <3>. QED  BY <3>1, <3>2, <3>4
    <2>. QED  BY <2>4, <2>5, <2>6 DEF Kept
<1>24. Cached(d, h, w, k - 1)
    BY <1>20, <1>21, <1>22, <1>23 DEF Cached
<1>25. d.size = c.size /\ \A z \in Entry : z # q[i] => d.key[z] = c.key[z] /\ d.val[z] = c.val[z]
    BY <1>0, <1>3, <1>14
<1>. QED  BY <1>24, <1>25

\* What Kept says only depends on the entries of the recency list.
LEMMA KeptSame ==
    ASSUME NEW c, NEW home, NEW q, NEW k, Kept(c, home, q, k), NEW d, NEW home2,
           \A i \in Nat : i < k => /\ d.key[q[i]] = c.key[q[i]] /\ d.val[q[i]] = c.val[q[i]]
                                   /\ home2[q[i]] = home[q[i]],
           \A n \in Entry : home2[n] # Buckets /\ home2[n] # Away => home2[n] = home[n]
    PROVE  Kept(d, home2, q, k)
<1>1. \A n \in Entry : home2[n] # Buckets /\ home2[n] # Away => \E i \in Nat : i < k /\ q[i] = n
    BY DEF Kept
<1>2. \A i \in Nat : i < k => /\ d.key[q[i]] \in Key /\ d.val[q[i]] \in CacheValue
                              /\ home2[q[i]] = hash(d.key[q[i]])
    BY DEF Kept
<1>3. \A i, j \in Nat : i < k /\ j < k /\ d.key[q[i]] = d.key[q[j]] => i = j
    BY DEF Kept
<1>. QED  BY <1>1, <1>2, <1>3 DEF Kept

\* free_list_ is empty when no entry is at home there.
LEMMA FreeIs ==
    ASSUME NEW c, NEW home, HashLists(c, home)
    PROVE  /\ c.free = Nil => \A n \in Entry : home[n] # Buckets
           /\ c.free # Nil => /\ c.free \in Entry /\ home[c.free] = Buckets
                              /\ Ahead(c, home, c.free, Nil)
<1>1. PICK P, K : Threaded(c.hash_next, Heads(c), home, P, K)
    BY DEF HashLists
<1>2. Buckets \in Threads
    BY EntryNotNil DEF Threads
<1>3. PICK p, k : p = P[Buckets] /\ k = K[Buckets]
    OBVIOUS
<1>4. OnThread(c.hash_next, c.free, home, Buckets, p, k)
    BY <1>1, <1>2, <1>3 DEF Threaded, Heads
<1>5. k \in Nat /\ p[0] = c.free /\ (k = 0 => p[0] = Nil) /\ (k # 0 => 0 < k)
    BY <1>4 DEF OnThread, Walk
<1>6. ASSUME c.free = Nil, NEW n \in Entry PROVE home[n] # Buckets
    <2>1. k = 0
        BY <1>4, <1>5, <1>6, EntryNotNil DEF OnThread
    <2>2. ~(\E i \in Nat : i < k)
        BY <2>1
    <2>. QED  BY <1>4, <2>2 DEF OnThread
<1>7. ASSUME c.free # Nil
      PROVE  c.free \in Entry /\ home[c.free] = Buckets /\ Ahead(c, home, c.free, Nil)
    <2>1. 0 < k /\ 0 \in Nat
        BY <1>5, <1>7
    <2>2. c.free \in Entry /\ home[c.free] = Buckets
        BY <1>4, <1>5, <2>1 DEF OnThread
    <2>3. 0 < K[home[c.free]] /\ P[home[c.free]][0] = c.free /\ Nil = Before(P[home[c.free]], 0)
        BY <1>3, <1>5, <2>1, <2>2 DEF Before
    <2>. QED  BY <1>1, <2>1, <2>2, <2>3 DEF Ahead
<1>. QED  BY <1>6, <1>7

\* acquire_entry takes the first entry of free_list_.
Popped(c) == [c EXCEPT !.free = c.hash_next[c.free], !.hash_next[c.free] = Nil]

LEMMA AcquireIs ==
    ASSUME NEW c, NEW home, NEW q, NEW k, Cached(c, home, q, k), NEW n, n = c.free, n # Nil,
           NEW d, d = Popped(c)
    PROVE  /\ n \in Entry /\ home[n] = Buckets
           /\ Cached(d, [home EXCEPT ![n] = Away], q, k) /\ SameData(c, d)
<1>1. CacheMemory(c) /\ HashLists(c, home) /\ Recency(c, q, k) /\ Kept(c, home, q, k)
    BY DEF Cached
<1>2. n \in Entry /\ home[n] = Buckets /\ Ahead(c, home, n, Nil)
    BY <1>1, FreeIs
<1>3. PICK P, K : /\ Threaded(c.hash_next, Heads(c), home, P, K)
                  /\ \E a \in Nat : a < K[home[n]] /\ P[home[n]][a] = n /\ Nil = Before(P[home[n]], a)
    BY <1>2 DEF Ahead
<1>4. PICK a \in Nat : a < K[Buckets] /\ P[Buckets][a] = n /\ Nil = Before(P[Buckets], a)
    BY <1>2, <1>3
<1>5. PICK nx, fr : nx = [c.hash_next EXCEPT ![n] = Nil] /\ fr = c.hash_next[n]
    OBVIOUS
<1>6. d = [head |-> c.head, tail |-> c.tail, size |-> c.size, free |-> fr,
           lru_prev |-> c.lru_prev, lru_next |-> c.lru_next, hash_next |-> nx,
           bucket |-> c.bucket, key |-> c.key, val |-> c.val]
    BY ONLY <1>1, <1>5, n = c.free, d = Popped(c) DEF CacheMemory, Popped
<1>7. /\ d.head = c.head /\ d.tail = c.tail /\ d.size = c.size /\ d.free = fr
      /\ d.lru_prev = c.lru_prev /\ d.lru_next = c.lru_next /\ d.hash_next = nx
      /\ d.bucket = c.bucket /\ d.key = c.key /\ d.val = c.val
    BY ONLY <1>6
<1>8. Buckets \in Threads /\ home \in [Entry -> Threads \cup {Away}] /\ c.hash_next \in [Entry -> Nat]
    <2>1. home \in [Entry -> Threads \cup {Away}]
        BY CachedFacts
    <2>2. c.hash_next \in [Entry -> Nat]
        BY <1>1 DEF CacheMemory
    <2>. QED  BY <2>1, <2>2, ThreadNotAway
<1>9. Heads(d) = [Heads(c) EXCEPT ![Buckets] = fr]
    <2>1. \A t \in Threads : (IF t = Buckets THEN d.free ELSE d.bucket[t]) = [Heads(c) EXCEPT ![Buckets] = fr][t]
        BY <1>7 DEF Heads
    <2>. QED  BY <1>7, <2>1 DEF Heads
<1>10. PICK h : h = [home EXCEPT ![n] = Away]
    OBVIOUS
<1>11. TakenOut(c.hash_next, Heads(c), P, K, Buckets, a, n, Nil, nx, Heads(d))
    BY <1>4, <1>5, <1>8, <1>9 DEF TakenOut
<1>12. \E P2, K2 : Threaded(nx, Heads(d), h, P2, K2)
    BY ONLY <1>3, <1>10, <1>11, ThreadCut
<1>13. HashLists(d, h)
    BY <1>7, <1>12 DEF HashLists
<1>14. CacheMemory(d)
    <2>1. nx \in [Entry -> Nat] /\ fr \in Nat
        BY <1>2, <1>5, <1>8 DEF Nil
    <2>. QED  BY <1>1, <1>6, <1>7, <2>1 DEF CacheMemory
<1>15. Recency(d, q, k)
    BY <1>1, <1>7 DEF Recency
<1>16. Kept(d, h, q, k)
    <2>1. h[n] = Away /\ \A x \in Entry : x # n => h[x] = home[x]
        BY <1>2, <1>8, <1>10
    <2>2. \A i \in Nat : i < k => q[i] \in Entry /\ home[q[i]] # Buckets
        BY CachedFacts
    <2>3. \A i \in Nat : i < k => h[q[i]] = home[q[i]] /\ d.key[q[i]] = c.key[q[i]] /\ d.val[q[i]] = c.val[q[i]]
        BY <1>2, <1>7, <2>1, <2>2
    <2>4. \A x \in Entry : h[x] # Buckets /\ h[x] # Away => h[x] = home[x]
        BY <2>1
    <2>. QED  BY ONLY <1>1, <2>3, <2>4, KeptSame
<1>. QED  BY <1>2, <1>7, <1>10, <1>13, <1>14, <1>15, <1>16 DEF Cached, SameData

\* release_entry puts an entry that is on no list on free_list_.
LEMMA ReleaseIs ==
    ASSUME NEW c, NEW home, NEW q, NEW k, Cached(c, home, q, k), NEW n \in Entry, home[n] = Away,
           NEW d, d = release_entry(c, n)
    PROVE  Cached(d, [home EXCEPT ![n] = Buckets], q, k) /\ SameData(c, d)
<1>1. CacheMemory(c) /\ HashLists(c, home) /\ Recency(c, q, k) /\ Kept(c, home, q, k)
    BY DEF Cached
<1>2. PICK P, K : Threaded(c.hash_next, Heads(c), home, P, K)
    BY <1>1 DEF HashLists
<1>3. PICK nx, pv, ln : /\ nx = [c.hash_next EXCEPT ![n] = c.free] /\ pv = [c.lru_prev EXCEPT ![n] = Nil]
                        /\ ln = [c.lru_next EXCEPT ![n] = Nil]
    OBVIOUS
<1>4. d = [head |-> c.head, tail |-> c.tail, size |-> c.size, free |-> n,
           lru_prev |-> pv, lru_next |-> ln, hash_next |-> nx,
           bucket |-> c.bucket, key |-> c.key, val |-> c.val]
    BY ONLY <1>1, <1>3, d = release_entry(c, n) DEF release_entry, CacheMemory
<1>5. /\ d.head = c.head /\ d.tail = c.tail /\ d.size = c.size /\ d.free = n
      /\ d.lru_prev = pv /\ d.lru_next = ln /\ d.hash_next = nx
      /\ d.bucket = c.bucket /\ d.key = c.key /\ d.val = c.val
    BY ONLY <1>4
<1>6. /\ Buckets \in Threads /\ home \in [Entry -> Threads \cup {Away}] /\ c.hash_next \in [Entry -> Nat]
      /\ c.free \in Nat /\ n \in Nat /\ c.lru_prev \in [Entry -> Nat] /\ c.lru_next \in [Entry -> Nat]
      /\ Nil \in Nat /\ Buckets # Away
    <2>1. home \in [Entry -> Threads \cup {Away}]
        BY CachedFacts
    <2>2. c.hash_next \in [Entry -> Nat] /\ c.free \in Nat /\ c.lru_prev \in [Entry -> Nat]
          /\ c.lru_next \in [Entry -> Nat]
        BY <1>1 DEF CacheMemory
    <2>3. n \in Nat /\ Nil \in Nat
        BY EntryNotNil DEF Nil
    <2>. QED  BY <2>1, <2>2, <2>3, ThreadNotAway
<1>7. Heads(d) = [Heads(c) EXCEPT ![Buckets] = n] /\ Heads(c)[Buckets] = c.free
    <2>1. \A t \in Threads : (IF t = Buckets THEN d.free ELSE d.bucket[t]) = [Heads(c) EXCEPT ![Buckets] = n][t]
        BY <1>5 DEF Heads
    <2>. QED  BY <1>5, <1>6, <2>1 DEF Heads
<1>8. PICK h : h = [home EXCEPT ![n] = Buckets]
    OBVIOUS
<1>9. \E P2, K2 : Threaded(nx, Heads(d), h, P2, K2)
    <2>1. nx = [c.hash_next EXCEPT ![n] = Heads(c)[Buckets]]
        BY <1>3, <1>7
    <2>. QED  BY ONLY <1>2, <1>6, <1>7, <1>8, <2>1, n \in Entry, home[n] = Away, ThreadPush
<1>10. HashLists(d, h)
    BY <1>5, <1>9 DEF HashLists
<1>11. /\ pv \in [Entry -> Nat] /\ ln \in [Entry -> Nat]
       /\ \A x \in Entry : x # n => pv[x] = c.lru_prev[x] /\ ln[x] = c.lru_next[x]
    BY <1>3, <1>6
<1>12. CacheMemory(d)
    <2>1. nx \in [Entry -> Nat]
        BY <1>3, <1>6
    <2>. QED  BY <1>1, <1>4, <1>5, <1>6, <1>11, <2>1 DEF CacheMemory
<1>13. \A i \in Nat : i < k => q[i] \in Entry /\ q[i] # n
    BY CachedFacts
<1>14. Recency(d, q, k)
    BY <1>1, <1>5, <1>11, <1>13, RecencySame
<1>15. Kept(d, h, q, k)
    <2>1. h[n] = Buckets /\ \A x \in Entry : x # n => h[x] = home[x]
        BY <1>6, <1>8
    <2>2. \A i \in Nat : i < k => h[q[i]] = home[q[i]] /\ d.key[q[i]] = c.key[q[i]] /\ d.val[q[i]] = c.val[q[i]]
        BY <1>5, <1>13, <2>1
    <2>3. \A x \in Entry : h[x] # Buckets /\ h[x] # Away => h[x] = home[x]
        BY <2>1
    <2>. QED  BY ONLY <1>1, <2>2, <2>3, KeptSame
<1>. QED  BY <1>5, <1>8, <1>10, <1>12, <1>14, <1>15 DEF Cached, SameData

\* Objects are constructed in an entry that is on no list.
Filled(c, n, x, v) == [c EXCEPT !.key[n] = x, !.val[n] = v]

LEMMA FillIs ==
    ASSUME NEW c, NEW home, NEW q, NEW k, Cached(c, home, q, k), NEW n \in Entry, home[n] = Away,
           NEW x \in Key, NEW v \in CacheValue, NEW d, d = Filled(c, n, x, v)
    PROVE  /\ Cached(d, home, q, k) /\ d.size = c.size /\ d.key[n] = x /\ d.val[n] = v
           /\ \A y \in Entry : y # n => d.key[y] = c.key[y] /\ d.val[y] = c.val[y]
<1>1. CacheMemory(c) /\ HashLists(c, home) /\ Recency(c, q, k) /\ Kept(c, home, q, k)
    BY DEF Cached
<1>2. PICK kk, vv : kk = [c.key EXCEPT ![n] = x] /\ vv = [c.val EXCEPT ![n] = v]
    OBVIOUS
<1>3. d = [head |-> c.head, tail |-> c.tail, size |-> c.size, free |-> c.free,
           lru_prev |-> c.lru_prev, lru_next |-> c.lru_next, hash_next |-> c.hash_next,
           bucket |-> c.bucket, key |-> kk, val |-> vv]
    BY ONLY <1>1, <1>2, d = Filled(c, n, x, v) DEF CacheMemory, Filled
<1>4. /\ d.head = c.head /\ d.tail = c.tail /\ d.size = c.size /\ d.free = c.free
      /\ d.lru_prev = c.lru_prev /\ d.lru_next = c.lru_next /\ d.hash_next = c.hash_next
      /\ d.bucket = c.bucket /\ d.key = kk /\ d.val = vv
    BY ONLY <1>3
<1>5. /\ kk \in [Entry -> Key \cup {NoObject}] /\ vv \in [Entry -> CacheValue \cup {NoObject}]
      /\ kk[n] = x /\ vv[n] = v /\ \A y \in Entry : y # n => kk[y] = c.key[y] /\ vv[y] = c.val[y]
    <2>1. c.key \in [Entry -> Key \cup {NoObject}] /\ c.val \in [Entry -> CacheValue \cup {NoObject}]
        BY <1>1 DEF CacheMemory
    <2>. QED  BY <1>2, <2>1
<1>6. CacheMemory(d)
    BY <1>1, <1>3, <1>4, <1>5 DEF CacheMemory
<1>7. HashLists(d, home)
    BY <1>1, <1>4, HashSame
<1>8. Recency(d, q, k)
    BY <1>1, <1>4 DEF Recency
<1>9. \A i \in Nat : i < k => q[i] \in Entry /\ q[i] # n
    BY CachedFacts
<1>10. \A i \in Nat : i < k => home[q[i]] = home[q[i]] /\ d.key[q[i]] = c.key[q[i]] /\ d.val[q[i]] = c.val[q[i]]
    BY <1>4, <1>5, <1>9
<1>11. Kept(d, home, q, k)
    BY ONLY <1>1, <1>10, KeptSame
<1>. QED  BY <1>4, <1>5, <1>6, <1>7, <1>8, <1>11 DEF Cached

\* An entry on no list enters the chain of its key and the front of the recency list.
Joined(c, n, x) ==
    lru_push_front([c EXCEPT !.hash_next[n] = c.bucket[hash(x)], !.bucket[hash(x)] = n], n)
Outside(c, home, q, k, n, x) ==
    /\ n \in Entry /\ home[n] = Away /\ c.key[n] = x /\ c.val[n] \in CacheValue
    /\ \A i \in Nat : i < k => c.key[q[i]] # x

LEMMA LinkIs ==
    ASSUME NEW c, NEW home, NEW q, NEW k, Cached(c, home, q, k), NEW x \in Key, NEW n,
           Outside(c, home, q, k, n, x), NEW d, d = Joined(c, n, x)
    PROVE  Cached(d, [home EXCEPT ![n] = hash(x)], With(q, 0, n), k + 1) /\ SameData(c, d)
<1>0. /\ n \in Entry /\ home[n] = Away /\ c.key[n] = x /\ c.val[n] \in CacheValue
      /\ \A i \in Nat : i < k => c.key[q[i]] # x
    BY DEF Outside
<1>1. CacheMemory(c) /\ HashLists(c, home) /\ Recency(c, q, k) /\ Kept(c, home, q, k)
    BY DEF Cached
<1>2. PICK P, K : Threaded(c.hash_next, Heads(c), home, P, K)
    BY <1>1 DEF HashLists
<1>3. PICK b \in Threads : b = hash(x)
    BY HashIs
<1>4. PICK nx, bk : nx = [c.hash_next EXCEPT ![n] = c.bucket[b]] /\ bk = [c.bucket EXCEPT ![b] = n]
    OBVIOUS
<1>5. PICK e : e = [c EXCEPT !.hash_next[n] = c.bucket[b], !.bucket[b] = n]
    OBVIOUS
<1>6. e = [head |-> c.head, tail |-> c.tail, size |-> c.size, free |-> c.free,
           lru_prev |-> c.lru_prev, lru_next |-> c.lru_next, hash_next |-> nx,
           bucket |-> bk, key |-> c.key, val |-> c.val]
    BY ONLY <1>1, <1>4, <1>5 DEF CacheMemory
<1>7. /\ e.head = c.head /\ e.tail = c.tail /\ e.size = c.size /\ e.free = c.free
      /\ e.lru_prev = c.lru_prev /\ e.lru_next = c.lru_next /\ e.hash_next = nx
      /\ e.bucket = bk /\ e.key = c.key /\ e.val = c.val
    BY ONLY <1>6
<1>8. b # Buckets /\ b # Away /\ b \in 0..(Buckets - 1)
    BY <1>3, HashIs
<1>9. c.bucket \in [0..(Buckets - 1) -> Nat] /\ c.hash_next \in [Entry -> Nat] /\ n \in Nat
    BY <1>0, <1>1, EntryNotNil DEF CacheMemory
<1>10. Heads(e) = [Heads(c) EXCEPT ![b] = n] /\ Heads(c)[b] = c.bucket[b]
    <2>1. BucketSet(c, e, b, n)
        BY <1>4, <1>7, <1>8, <1>9 DEF BucketSet
    <2>2. Heads(e) = [Heads(c) EXCEPT ![b] = n]
        BY ONLY <2>1, HeadsBucket
    <2>. QED  BY <1>8, <2>2 DEF Heads
<1>11. PICK h : h = [home EXCEPT ![n] = b]
    OBVIOUS
<1>12. \E P2, K2 : Threaded(nx, Heads(e), h, P2, K2)
    <2>1. nx = [c.hash_next EXCEPT ![n] = Heads(c)[b]]
        BY <1>4, <1>10
    <2>2. n \in Entry /\ home[n] = Away
        BY <1>0
    <2>. QED  BY ONLY <1>2, <1>10, <1>11, <2>1, <2>2, b \in Threads, ThreadPush
<1>13. nx \in [Entry -> Nat] /\ bk \in [0..(Buckets - 1) -> Nat]
    BY <1>0, <1>4, <1>8, <1>9
<1>14. CacheMemory(e)
    BY <1>1, <1>6, <1>7, <1>13 DEF CacheMemory
<1>15. Recency(e, q, k)
    BY <1>1, <1>7 DEF Recency
<1>16. /\ k \in Nat /\ q \in [Nat -> Nat] /\ home \in [Entry -> Threads \cup {Away}]
       /\ \A i \in Nat : i < k => /\ q[i] \in Entry /\ q[i] # n /\ c.key[q[i]] \in Key
                                  /\ c.val[q[i]] \in CacheValue /\ home[q[i]] = hash(c.key[q[i]])
       /\ \A i, j \in Nat : i < k /\ j < k /\ c.key[q[i]] = c.key[q[j]] => i = j
       /\ \A y \in Entry : home[y] # Buckets /\ home[y] # Away => \E i \in Nat : i < k /\ q[i] = y
    BY <1>0, CachedFacts
<1>17. PICK w : w = With(q, 0, n)
    OBVIOUS
<1>18. CacheMemory(d) /\ Recency(d, w, k + 1) /\ SameButRecency(e, d)
    <2>1. d = lru_push_front(e, n)
        BY <1>3, <1>5 DEF Joined
    <2>2. \A i \in Nat : i < k => q[i] # n
        BY <1>16
    <2>. QED  BY ONLY <1>14, <1>15, <1>17, <2>1, <2>2, <1>0, RecencyPush
<1>19. /\ d.size = c.size /\ d.free = c.free /\ d.hash_next = nx /\ d.bucket = bk
       /\ d.key = c.key /\ d.val = c.val
    BY <1>7, <1>18 DEF SameButRecency
<1>20. HashLists(d, h)
    <2>1. Heads(d) = Heads(e)
        BY <1>7, <1>19 DEF Heads
    <2>. QED  BY <1>12, <1>19, <2>1 DEF HashLists
<1>21. Kept(d, h, w, k + 1)
    <2>1. w[0] = n /\ \A i \in Nat : i # 0 => w[i] = q[i - 1]
        BY <1>16, <1>17 DEF With
    <2>2. ASSUME NEW i \in Nat, i < k + 1, i # 0
          PROVE  i - 1 \in Nat /\ i - 1 < k /\ w[i] = q[i - 1]
        BY <1>16, <2>1, <2>2
    <2>3. h[n] = b /\ \A y \in Entry : y # n => h[y] = home[y]
        BY <1>0, <1>11, <1>16
    <2>4. ASSUME NEW y \in Entry, h[y] # Buckets, h[y] # Away
          PROVE  \E i \in Nat : i < k + 1 /\ w[i] = y
        <3>1. CASE y = n
            BY <1>16, <2>1, <3>1
        <3>2. CASE y # n
            <4>1. PICK i \in Nat : i < k /\ q[i] = y
                BY <1>16, <2>3, <2>4, <3>2
            <4>2. i + 1 \in Nat /\ i + 1 < k + 1 /\ i + 1 # 0 /\ (i + 1) - 1 = i
                BY <1>16, <4>1
            <4>. QED  BY <2>1, <4>1, <4>2
        <3>. QED  BY <3>1, <3>2
    <2>5. ASSUME NEW i \in Nat, i < k + 1
          PROVE  /\ d.key[w[i]] \in Key /\ d.val[w[i]] \in CacheValue
                 /\ h[w[i]] = hash(d.key[w[i]])
        <3>1. CASE i = 0
            BY <1>0, <1>3, <1>19, <2>1, <2>3, <3>1
        <3>2. CASE i # 0
            BY <1>16, <1>19, <2>2, <2>3, <2>5, <3>2
        <3>. QED  BY <3>1, <3>2
    <2>6. ASSUME NEW i \in Nat, NEW j \in Nat, i < k + 1, j < k + 1, d.key[w[i]] = d.key[w[j]]
          PROVE  i = j
        <3>1. CASE i = 0 /\ j = 0
            BY <3>1
        <3>2. CASE i = 0 /\ j # 0
            BY <1>0, <1>19, <2>1, <2>2, <2>6, <3>2
        <3>3. CASE i # 0 /\ j = 0
            BY <1>0, <1>19, <2>1, <2>2, <2>6, <3>3
        <3>4. CASE i # 0 /\ j # 0
            <4>1. i - 1 = j - 1
                BY <1>16, <1>19, <2>2, <2>6, <3>4
            <4>. QED  BY <4>1
        <3>. QED  BY <3>1, <3>2, <3>3, <3>4
    <2>. QED  BY <2>4, <2>5, <2>6 DEF Kept
<1>. QED  BY <1>3, <1>11, <1>17, <1>18, <1>19, <1>20, <1>21 DEF Cached, SameData

\* The list with its node at i moved to the front.
IsMoved(w, q, i) ==
    /\ w[0] = q[i]
    /\ \A j \in Nat : (j < i => w[j + 1] = q[j]) /\ (j > i => w[j] = q[j])

\* promote moves an entry to the front.
LEMMA PromoteIs ==
    ASSUME NEW c, NEW home, NEW q, NEW k, Cached(c, home, q, k), NEW i \in Nat, i < k,
           NEW d, d = promote(c, q[i])
    PROVE  \E w : Cached(d, home, w, k) /\ IsMoved(w, q, i) /\ SameData(c, d)
<1>1. /\ CacheMemory(c) /\ HashLists(c, home) /\ Recency(c, q, k) /\ Kept(c, home, q, k)
      /\ k \in Nat /\ q \in [Nat -> Nat] /\ q[0] = c.head /\ q[i] \in Entry
      /\ \A a, b \in Nat : a < k /\ b < k /\ q[a] = q[b] => a = b
    <2>1. CacheMemory(c) /\ HashLists(c, home) /\ Recency(c, q, k) /\ Kept(c, home, q, k)
        BY DEF Cached
    <2>. QED  BY <2>1, CachedFacts
<1>2. CASE i = 0
    <2>1. d = c
        BY <1>1, <1>2 DEF promote
    <2>2. IsMoved(q, q, i)
        BY <1>2 DEF IsMoved
    <2>. QED  BY <2>1, <2>2 DEF SameData
<1>3. CASE i # 0
    <2>1. 0 < k /\ c.head # q[i]
        BY <1>1, <1>3
    <2>2. PICK e, v, n, w : e = lru_unlink(c, q[i]) /\ v = Without(q, i) /\ n = q[i] /\ w = With(v, 0, n)
        OBVIOUS
    <2>3. d = lru_push_front(e, n)
        BY <2>1, <2>2 DEF promote
    <2>4. CacheMemory(e) /\ Recency(e, v, k - 1) /\ SameButRecency(c, e) /\ (\A j \in Nat : j < k - 1 => v[j] # n)
        BY <1>1, <2>2, RecencyCut
    <2>5. CacheMemory(d) /\ Recency(d, w, (k - 1) + 1) /\ SameButRecency(e, d)
        <3>1. n \in Entry
            BY <1>1, <2>2
        <3>. QED  BY ONLY <2>2, <2>3, <2>4, <3>1, RecencyPush
    <2>6. (k - 1) + 1 = k
        BY <1>1
    <2>7. /\ d.size = c.size /\ d.free = c.free /\ d.hash_next = c.hash_next /\ d.bucket = c.bucket
          /\ d.key = c.key /\ d.val = c.val
        BY <2>4, <2>5 DEF SameButRecency
    <2>8. HashLists(d, home)
        BY <1>1, <2>7, HashSame
    <2>9. v \in [Nat -> Nat] /\ \A j \in Nat : v[j] = IF j < i THEN q[j] ELSE q[j + 1]
        BY <1>1, <2>2 DEF Without
    <2>10. w[0] = n /\ \A j \in Nat : j # 0 => w[j] = v[j - 1]
        BY <2>2, <2>9 DEF With
    <2>11. ASSUME NEW j \in Nat PROVE (j < i => w[j + 1] = q[j]) /\ (j > i => w[j] = q[j])
        <3>1. ASSUME j < i PROVE w[j + 1] = q[j]
            <4>1. j + 1 \in Nat /\ j + 1 # 0 /\ (j + 1) - 1 = j
                OBVIOUS
            <4>. QED  BY <2>9, <2>10, <3>1, <4>1
        <3>2. ASSUME j > i PROVE w[j] = q[j]
            <4>1. j # 0 /\ j - 1 \in Nat /\ ~(j - 1 < i) /\ (j - 1) + 1 = j
                BY <3>2
            <4>. QED  BY <2>9, <2>10, <4>1
        <3>. QED  BY <3>1, <3>2
    <2>12. IsMoved(w, q, i)
        BY <2>2, <2>10, <2>11 DEF IsMoved
    <2>13. ASSUME NEW j \in Nat, j < k
           PROVE  \E a \in Nat : a < k /\ w[j] = q[a] /\ a = IF j = 0 THEN i ELSE IF j <= i THEN j - 1 ELSE j
        <3>1. CASE j = 0
            BY <2>2, <2>10, <3>1
        <3>2. CASE j # 0 /\ j <= i
            <4>1. j - 1 \in Nat /\ j - 1 < i /\ (j - 1) + 1 = j /\ j - 1 < k
                BY <1>1, <2>13, <3>2
            <4>. QED  BY <2>11, <3>2, <4>1
        <3>3. CASE j # 0 /\ j > i
            BY <2>11, <2>13, <3>3
        <3>. QED  BY <3>1, <3>2, <3>3
    <2>14. ASSUME NEW a \in Nat, a < k PROVE \E j \in Nat : j < k /\ w[j] = q[a]
        <3>1. CASE a = i
            BY <2>1, <2>2, <2>10, <3>1
        <3>2. CASE a < i
            <4>1. a + 1 \in Nat /\ a + 1 < k
                BY <1>1, <3>2
            <4>. QED  BY <2>11, <3>2, <4>1
        <3>3. CASE a > i
            BY <2>11, <2>14, <3>3
        <3>. QED  BY <3>1, <3>2, <3>3
    <2>15. Kept(d, home, w, k)
        <3>1. /\ \A y \in Entry : home[y] # Buckets /\ home[y] # Away => \E a \in Nat : a < k /\ q[a] = y
              /\ \A a \in Nat : a < k => /\ c.key[q[a]] \in Key /\ c.val[q[a]] \in CacheValue
                                         /\ home[q[a]] = hash(c.key[q[a]])
              /\ \A a, b \in Nat : a < k /\ b < k /\ c.key[q[a]] = c.key[q[b]] => a = b
            BY <1>1 DEF Kept
        <3>2. \A y \in Entry : home[y] # Buckets /\ home[y] # Away => \E j \in Nat : j < k /\ w[j] = y
            BY <2>14, <3>1
        <3>3. ASSUME NEW j \in Nat, j < k
              PROVE  d.key[w[j]] \in Key /\ d.val[w[j]] \in CacheValue /\ home[w[j]] = hash(d.key[w[j]])
            <4>1. PICK a \in Nat : a < k /\ w[j] = q[a]
                BY <2>13, <3>3
            <4>. QED  BY <2>7, <3>1, <4>1
        <3>4. ASSUME NEW j \in Nat, NEW l \in Nat, j < k, l < k, d.key[w[j]] = d.key[w[l]] PROVE j = l
            <4>1. PICK a \in Nat : a < k /\ w[j] = q[a] /\ a = IF j = 0 THEN i ELSE IF j <= i THEN j - 1 ELSE j
                BY <2>13, <3>4
            <4>2. PICK b \in Nat : b < k /\ w[l] = q[b] /\ b = IF l = 0 THEN i ELSE IF l <= i THEN l - 1 ELSE l
                BY <2>13, <3>4
            <4>3. a = b
                BY <2>7, <3>1, <3>4, <4>1, <4>2
            <4>. QED  BY <4>1, <4>2, <4>3
        <3>. QED  BY <3>2, <3>3, <3>4 DEF Kept
    <2>. QED  BY <2>5, <2>6, <2>7, <2>8, <2>12, <2>15 DEF Cached, SameData
<1>. QED  BY <1>2, <1>3

-----------------------------------------------------------------------------
(***************************************************************************)
(* The LRU cache: searching and counting                                   *)
(***************************************************************************)

LEMMA EntriesFinite ==
    /\ IsFiniteSet(Entry) /\ Cardinality(Entry) = Capacity
    /\ \A T \in SUBSET Entry : /\ IsFiniteSet(T) /\ Cardinality(T) \in Nat
                               /\ Cardinality(T) <= Capacity
<1>1. Capacity \in Nat \ {0}
    BY LruConstants
<1>2. IsFiniteSet(1..Capacity) /\ Cardinality(1..Capacity) = (IF 1 > Capacity THEN 0 ELSE Capacity - 1 + 1)
    BY <1>1, FS_Interval
<1>3. IsFiniteSet(Entry) /\ Cardinality(Entry) = Capacity
    BY <1>1, <1>2 DEF Entry
<1>4. ASSUME NEW T \in SUBSET Entry
      PROVE  IsFiniteSet(T) /\ Cardinality(T) \in Nat /\ Cardinality(T) <= Capacity
    <2>1. IsFiniteSet(T) /\ Cardinality(T) <= Cardinality(Entry)
        BY <1>3, FS_Subset
    <2>2. Cardinality(T) \in Nat
        BY <2>1, FS_CardinalityType
    <2>. QED  BY <1>3, <2>1, <2>2
<1>. QED  BY <1>3, <1>4

\* The steps along its chain that meet the key, and where the search ends.
HitSet(c, x) == {i \in 0..Capacity : /\ Follow(c.hash_next, c.bucket[hash(x)], i) # Nil
                                     /\ c.key[Follow(c.hash_next, c.bucket[hash(x)], i)] = x}
FirstOf(H) == CHOOSE a \in H : \A b \in H : a <= b
Spot(c, x, i) ==
    [entry |-> Follow(c.hash_next, c.bucket[hash(x)], i),
     prev |-> IF i = 0 THEN Nil ELSE Follow(c.hash_next, c.bucket[hash(x)], i - 1)]

LEMMA FindForm ==
    ASSUME NEW c, NEW x
    PROVE  find_entry(c, x) = IF HitSet(c, x) = {} THEN [entry |-> Nil, prev |-> Nil]
                              ELSE Spot(c, x, FirstOf(HitSet(c, x)))
BY Zenon DEF find_entry, HitSet, FirstOf, Spot

\* A search ends at the entry of the key, or at the end of its chain.
LEMMA FindIs ==
    ASSUME NEW c, NEW home, NEW q, NEW k, Cached(c, home, q, k), NEW x \in Key,
           NEW f, f = find_entry(c, x)
    PROVE  \/ f.entry = Nil /\ \A i \in Nat : i < k => c.key[q[i]] # x
           \/ /\ f.entry # Nil /\ c.key[f.entry] = x /\ home[f.entry] = hash(x)
              /\ Ahead(c, home, f.entry, f.prev)
              /\ \E i \in Nat : i < k /\ q[i] = f.entry
<1>1. PICK P, K : Threaded(c.hash_next, Heads(c), home, P, K)
    BY DEF Cached, HashLists
<1>2. PICK t \in Threads : t = hash(x) /\ t # Buckets /\ t # Away
    BY HashIs
<1>3. PICK p, m : p = P[t] /\ m = K[t]
    OBVIOUS
<1>4. OnThread(c.hash_next, c.bucket[t], home, t, p, m)
    <2>1. Heads(c)[t] = c.bucket[t]
        BY <1>2 DEF Heads
    <2>. QED  BY <1>1, <1>3, <2>1 DEF Threaded
<1>5. /\ Walk(c.hash_next, c.bucket[t], p, m) /\ Distinct(p, m) /\ m \in Nat /\ p \in [Nat -> Nat]
      /\ \A i \in Nat : i < m => p[i] \in Entry /\ p[i] # Nil /\ home[p[i]] = t
      /\ \A i \in Nat : i >= m => p[i] = Nil
      /\ \A n \in Entry : home[n] = t => \E i \in Nat : i < m /\ p[i] = n
    BY <1>4 DEF OnThread, Walk
<1>6. m <= Capacity /\ Capacity \in Nat
    <2>1. Cardinality(Nodes(p, m)) = m
        BY ONLY <1>5, WalkSize
    <2>2. Nodes(p, m) \subseteq Entry
        BY <1>5 DEF Nodes
    <2>. QED  BY <2>1, <2>2, EntriesFinite, EntryNotNil
<1>7. PICK H : H = {i \in 0..Capacity : p[i] # Nil /\ c.key[p[i]] = x}
    OBVIOUS
<1>8. \A i \in Nat : Follow(c.hash_next, c.bucket[hash(x)], i) = p[i]
    BY ONLY <1>2, <1>5, FollowWalk
<1>9. PICK j : j = CHOOSE a \in H : \A b \in H : a <= b
    OBVIOUS
<1>10. f = IF H = {} THEN [entry |-> Nil, prev |-> Nil]
           ELSE [entry |-> p[j], prev |-> IF j = 0 THEN Nil ELSE p[j - 1]]
    <2>1. HitSet(c, x) = H
        BY <1>6, <1>7, <1>8 DEF HitSet
    <2>2. CASE H = {}
        BY <2>1, <2>2, FindForm
    <2>3. CASE H # {}
        <3>1. j \in H
            <4>1. H \subseteq Nat
                BY <1>6, <1>7
            <4>2. \E a \in H : \A b \in H : a <= b
                BY <2>3, <4>1, SmallestOf
            <4>. QED  BY <1>9, <4>2
        <3>2. j \in Nat /\ (j # 0 => j - 1 \in Nat)
            BY <1>6, <1>7, <3>1
        <3>3. Follow(c.hash_next, c.bucket[hash(x)], j) = p[j]
              /\ (j # 0 => Follow(c.hash_next, c.bucket[hash(x)], j - 1) = p[j - 1])
            BY <1>8, <3>2
        <3>4. j = FirstOf(H)
            BY <1>9 DEF FirstOf
        <3>5. f = Spot(c, x, j)
            BY <2>1, <2>3, <3>4, FindForm
        <3>. QED  BY <2>3, <3>3, <3>5 DEF Spot
    <2>. QED  BY <2>2, <2>3
<1>11. \A i \in Nat : i < k => q[i] \in Entry /\ home[q[i]] = hash(c.key[q[i]])
    BY CachedFacts
<1>12. CASE H = {}
    <2>1. f.entry = Nil
        BY <1>10, <1>12
    <2>2. ASSUME NEW i \in Nat, i < k, c.key[q[i]] = x PROVE FALSE
        <3>1. q[i] \in Entry /\ home[q[i]] = t
            BY <1>2, <1>11, <2>2
        <3>2. PICK a \in Nat : a < m /\ p[a] = q[i]
            BY <1>5, <3>1
        <3>3. a \in H
            BY <1>5, <1>6, <1>7, <2>2, <3>2
        <3>. QED  BY <1>12, <3>3
    <2>. QED  BY <2>1, <2>2
<1>13. CASE H # {}
    <2>1. j \in H
        <3>1. H \subseteq Nat
            BY <1>6, <1>7
        <3>2. \E a \in H : \A b \in H : a <= b
            BY <1>13, <3>1, SmallestOf
        <3>. QED  BY <1>9, <3>2
    <2>2. j \in Nat /\ p[j] # Nil /\ c.key[p[j]] = x
        BY <1>6, <1>7, <2>1
    <2>3. f.entry = p[j] /\ f.prev = Before(p, j)
        BY <1>10, <1>13 DEF Before
    <2>4. j < m
        BY <1>5, <2>2
    <2>5. p[j] \in Entry /\ home[p[j]] = t
        BY <1>5, <2>2, <2>4
    <2>6. Ahead(c, home, f.entry, f.prev)
        BY <1>1, <1>3, <2>2, <2>3, <2>4, <2>5 DEF Ahead
    <2>7. \E i \in Nat : i < k /\ q[i] = f.entry
        BY <1>2, <2>3, <2>5, CachedFacts
    <2>. QED  BY <1>2, <2>2, <2>3, <2>5, <2>6, <2>7
<1>. QED  BY <1>12, <1>13

\* The entries that are on no list.
Gone(home) == {n \in Entry : home[n] = Away}

\* With no free entry, the entries in use and the lost ones are all there are.
LEMMA CacheCounts ==
    ASSUME NEW c, NEW home, NEW q, NEW k, Cached(c, home, q, k)
    PROVE  /\ Cardinality(Gone(home)) \in Nat /\ k <= Capacity /\ IsFiniteSet(Gone(home))
           /\ c.free = Nil => k + Cardinality(Gone(home)) = Capacity
           /\ c.free # Nil => k + Cardinality(Gone(home)) < Capacity
<1>1. PICK Q, G, R : Q = Nodes(q, k) /\ G = Gone(home) /\ R = {n \in Entry : home[n] = Buckets}
    OBVIOUS
<1>2. /\ k \in Nat /\ q \in [Nat -> Nat] /\ Buckets # Away
      /\ \A i \in Nat : i < k => q[i] \in Entry /\ home[q[i]] # Buckets /\ home[q[i]] # Away
      /\ \A n \in Entry : home[n] # Buckets /\ home[n] # Away => \E i \in Nat : i < k /\ q[i] = n
    BY CachedFacts, ThreadNotAway
<1>3. \A n : n \in Q <=> n \in Entry /\ home[n] # Buckets /\ home[n] # Away
    <2>1. ASSUME NEW n \in Q PROVE n \in Entry /\ home[n] # Buckets /\ home[n] # Away
        BY <1>1, <1>2 DEF Nodes
    <2>2. ASSUME NEW n \in Entry, home[n] # Buckets, home[n] # Away PROVE n \in Q
        <3>1. PICK i \in Nat : i < k /\ q[i] = n
            BY <1>2, <2>2
        <3>2. i \in 0..(k - 1)
            BY <1>2, <3>1
        <3>. QED  BY <1>1, <3>1, <3>2 DEF Nodes
    <2>. QED  BY <2>1, <2>2
<1>4. Cardinality(Q) = k
    <2>1. Walk(c.lru_next, c.head, q, k) /\ Distinct(q, k)
        BY DEF Cached, Recency
    <2>. QED  BY <1>1, <2>1, WalkSize
<1>5. /\ Q \cup G \in SUBSET Entry /\ Q \in SUBSET Entry /\ G \in SUBSET Entry /\ Q \cap G = {}
      /\ R \in SUBSET Entry /\ (Q \cup G) \cap R = {} /\ (Q \cup G) \cup R = Entry
    BY <1>1, <1>2, <1>3 DEF Gone
<1>6. IsFiniteSet(Q) /\ IsFiniteSet(G) /\ IsFiniteSet(R) /\ IsFiniteSet(Q \cup G)
      /\ Cardinality(G) \in Nat /\ Cardinality(R) \in Nat /\ Cardinality(Entry) = Capacity
      /\ Capacity \in Nat /\ k <= Capacity
    BY <1>4, <1>5, EntriesFinite, EntryNotNil
<1>7. Cardinality(Q \cup G) = k + Cardinality(G)
    <2>1. Cardinality(Q \cup G) = Cardinality(Q) + Cardinality(G) - Cardinality(Q \cap G)
        BY <1>6, FS_Union
    <2>2. Cardinality(Q \cap G) = 0
        BY <1>5, FS_EmptySet
    <2>. QED  BY <1>2, <1>4, <1>6, <2>1, <2>2
<1>8. Capacity = (k + Cardinality(G)) + Cardinality(R)
    <2>1. Cardinality((Q \cup G) \cup R) = Cardinality(Q \cup G) + Cardinality(R) - Cardinality((Q \cup G) \cap R)
        BY <1>6, FS_Union
    <2>2. Cardinality((Q \cup G) \cap R) = 0
        BY <1>5, FS_EmptySet
    <2>3. PICK a \in Nat, b \in Nat : a = Cardinality(G) /\ b = Cardinality(R)
        BY <1>6
    <2>4. Cardinality((Q \cup G) \cup R) = Capacity
        BY ONLY <1>5, <1>6
    <2>5. Capacity = ((k + a) + b) - 0
        <3>1. k \in Nat /\ Cardinality(Q \cup G) = k + a
            BY ONLY <1>2, <1>7, <2>3
        <3>. QED  BY ONLY <2>1, <2>2, <2>3, <2>4, <3>1
    <2>6. k + a \in Nat /\ Capacity = (k + a) + b
        BY ONLY <1>2, <2>3, <2>5
    <2>. QED  BY ONLY <2>3, <2>6
<1>9. HashLists(c, home)
    BY DEF Cached
<1>10. ASSUME c.free = Nil PROVE Cardinality(R) = 0
    <2>1. R = {}
        BY <1>1, <1>9, <1>10, FreeIs
    <2>. QED  BY <2>1, FS_EmptySet
<1>11. ASSUME c.free # Nil PROVE Cardinality(R) > 0
    <2>1. R # {}
        BY <1>1, <1>9, <1>11, FreeIs
    <2>2. Cardinality(R) # 0
        BY <1>6, <2>1, FS_EmptySet
    <2>. QED  BY <1>6, <2>2
<1>. QED  BY <1>1, <1>2, <1>6, <1>8, <1>10, <1>11

-----------------------------------------------------------------------------
(***************************************************************************)
(* The LRU cache: clear                                                    *)
(***************************************************************************)

InChains(home) == {n \in Entry : home[n] # Buckets /\ home[n] # Away}
NoChains(c) == \A b \in DOMAIN c.bucket : c.bucket[b] = Nil

\* An entry in a chain is reached from its bucket.
LEMMA ChainsEmpty ==
    ASSUME NEW c, NEW home, CacheMemory(c), HashLists(c, home), NoChains(c)
    PROVE  InChains(home) = {}
<1>1. PICK P, K : Threaded(c.hash_next, Heads(c), home, P, K)
    BY DEF HashLists
<1>2. SUFFICES ASSUME NEW n \in Entry, home[n] # Buckets, home[n] # Away PROVE FALSE
    BY DEF InChains
<1>3. PICK t \in Threads : t = home[n] /\ t # Buckets
    <2>1. home \in [Entry -> Threads \cup {Away}]
        BY <1>1 DEF Threaded
    <2>. QED  BY <1>2, <2>1
<1>4. Heads(c)[t] = Nil
    <2>1. t \in 0..(Buckets - 1)
        BY <1>3, EntryNotNil DEF Threads
    <2>2. c.bucket \in [0..(Buckets - 1) -> Nat]
        BY DEF CacheMemory
    <2>3. c.bucket[t] = Nil
        BY <2>1, <2>2 DEF NoChains
    <2>. QED  BY <1>3, <2>3 DEF Heads
<1>5. PICK p, k : p = P[t] /\ k = K[t] /\ OnThread(c.hash_next, Nil, home, t, p, k)
    BY <1>1, <1>4 DEF Threaded
<1>6. PICK i \in Nat : i < k /\ p[i] = n
    BY <1>2, <1>3, <1>5 DEF OnThread
<1>7. k \in Nat /\ 0 < k /\ p[0] = Nil /\ (0 < k => p[0] # Nil)
    <2>1. k \in Nat /\ p[0] = Nil /\ \A j \in Nat : j < k => p[j] # Nil
        BY <1>5 DEF OnThread, Walk
    <2>. QED  BY <1>6, <2>1
<1>. QED  BY <1>7

\* The chain clear takes an entry from, and what it does with its first entry.
FirstChain(c) == CHOOSE x \in DOMAIN c.bucket :
                    c.bucket[x] # Nil /\ \A y \in DOMAIN c.bucket : c.bucket[y] # Nil => x <= y
DropFrom(c, b, n) == release_entry(destroy_entry([c EXCEPT !.bucket[b] = c.hash_next[n]], n), n)

LEMMA DropFirstIs ==
    ASSUME NEW c, NEW home, CacheMemory(c), HashLists(c, home), ~NoChains(c),
           NEW d, d = drop_first(c)
    PROVE  \E n, h : /\ CacheMemory(d) /\ HashLists(d, h) /\ Gone(h) = Gone(home)
                     /\ n \in InChains(home) /\ InChains(h) = InChains(home) \ {n}
<1>1. PICK b, n : b = FirstChain(c) /\ n = c.bucket[b]
    OBVIOUS
<1>2. d = DropFrom(c, b, n)
    <2>1. drop_first(c) = DropFrom(c, FirstChain(c), c.bucket[FirstChain(c)])
        BY Zenon DEF drop_first, DropFrom, FirstChain
    <2>. QED  BY <1>1, <2>1
<1>3. c.bucket \in [0..(Buckets - 1) -> Nat] /\ DOMAIN c.bucket = 0..(Buckets - 1) /\ Buckets \in Nat
    BY EntryNotNil DEF CacheMemory
<1>4. b \in 0..(Buckets - 1) /\ n # Nil
    <2>1. PICK T : T = {x \in DOMAIN c.bucket : c.bucket[x] # Nil}
        OBVIOUS
    <2>2. T \subseteq Nat /\ T # {}
        BY <1>3, <2>1 DEF NoChains
    <2>3. \E x \in T : \A y \in T : x <= y
        BY <2>2, SmallestOf
    <2>4. \E x \in DOMAIN c.bucket : /\ c.bucket[x] # Nil
                                     /\ \A y \in DOMAIN c.bucket : c.bucket[y] # Nil => x <= y
        BY <2>1, <2>3
    <2>5. b \in DOMAIN c.bucket /\ c.bucket[b] # Nil
        BY <1>1, <2>4 DEF FirstChain
    <2>. QED  BY <1>1, <1>3, <2>5
<1>5. b \in Threads /\ b # Buckets /\ b # Away /\ Buckets \in Threads
    BY <1>3, <1>4 DEF Threads, Away
<1>6. PICK P, K : Threaded(c.hash_next, Heads(c), home, P, K)
    BY DEF HashLists
<1>7. PICK p, k : p = P[b] /\ k = K[b] /\ OnThread(c.hash_next, n, home, b, p, k)
    <2>1. Heads(c)[b] = n
        BY <1>1, <1>5 DEF Heads
    <2>. QED  BY <1>5, <1>6, <2>1 DEF Threaded
<1>8. k \in Nat /\ 0 < k /\ p[0] = n /\ n \in Entry /\ home[n] = b
    <2>1. k \in Nat /\ p[0] = n /\ \A i \in Nat : i >= k => p[i] = Nil
        BY <1>7 DEF OnThread, Walk
    <2>2. 0 < k
        BY <1>4, <2>1
    <2>. QED  BY <1>7, <2>1, <2>2 DEF OnThread
<1>9. home \in [Entry -> Threads \cup {Away}] /\ c.hash_next \in [Entry -> Nat] /\ c.hash_next[n] \in Nat
      /\ Heads(c) \in [Threads -> Nat] /\ Heads(c)[Buckets] = c.free
    <2>1. home \in [Entry -> Threads \cup {Away}] /\ c.hash_next \in [Entry -> Nat] /\ Heads(c) \in [Threads -> Nat]
        BY <1>6 DEF Threaded
    <2>. QED  BY <1>5, <1>8, <2>1 DEF Heads
<1>10. PICK nx, first, h :
        /\ nx = [c.hash_next EXCEPT ![n] = Nil] /\ first = [Heads(c) EXCEPT ![b] = c.hash_next[n]]
        /\ h = [home EXCEPT ![n] = Away]
    OBVIOUS
<1>11. PICK P2, K2 : Threaded(nx, first, h, P2, K2)
    <2>1. TakenOut(c.hash_next, Heads(c), P, K, b, 0, n, Nil, nx, first)
        BY <1>5, <1>7, <1>8, <1>10 DEF TakenOut, Before
    <2>2. h = [home EXCEPT ![n] = Away]
        BY <1>10
    <2>. QED  BY ONLY <1>6, <2>1, <2>2, ThreadCut
<1>12. PICK nx2, first2, h2 :
        /\ nx2 = [nx EXCEPT ![n] = first[Buckets]] /\ first2 = [first EXCEPT ![Buckets] = n]
        /\ h2 = [h EXCEPT ![n] = Buckets]
    OBVIOUS
<1>13. \E P3, K3 : Threaded(nx2, first2, h2, P3, K3)
    <2>1. h[n] = Away /\ n \in Entry
        BY <1>8, <1>9, <1>10
    <2>. QED  BY ONLY <1>5, <1>11, <1>12, <2>1, ThreadPush
<1>14. PICK bk, pv, ln, kk, vv, hn :
        /\ bk = [c.bucket EXCEPT ![b] = c.hash_next[n]] /\ hn = [c.hash_next EXCEPT ![n] = c.free]
        /\ pv = [c.lru_prev EXCEPT ![n] = Nil] /\ ln = [c.lru_next EXCEPT ![n] = Nil]
        /\ kk = [c.key EXCEPT ![n] = NoObject] /\ vv = [c.val EXCEPT ![n] = NoObject]
    OBVIOUS
<1>14a. d = [head |-> c.head, tail |-> c.tail, size |-> c.size, free |-> n,
             lru_prev |-> pv, lru_next |-> ln, hash_next |-> hn,
             bucket |-> bk, key |-> kk, val |-> vv]
    <2>1. PICK x : x = [c EXCEPT !.bucket[b] = c.hash_next[n]]
        OBVIOUS
    <2>2. x = [head |-> c.head, tail |-> c.tail, size |-> c.size, free |-> c.free,
               lru_prev |-> c.lru_prev, lru_next |-> c.lru_next, hash_next |-> c.hash_next,
               bucket |-> bk, key |-> c.key, val |-> c.val]
        BY ONLY <1>14, <2>1, CacheMemory(c) DEF CacheMemory
    <2>3. PICK y : y = destroy_entry(x, n)
        OBVIOUS
    <2>4. y = [head |-> c.head, tail |-> c.tail, size |-> c.size, free |-> c.free,
               lru_prev |-> c.lru_prev, lru_next |-> c.lru_next, hash_next |-> c.hash_next,
               bucket |-> bk, key |-> kk, val |-> vv]
        BY ONLY <1>14, <2>2, <2>3 DEF destroy_entry
    <2>5. d = release_entry(y, n)
        BY ONLY <1>2, <2>1, <2>3 DEF DropFrom
    <2>. QED  BY ONLY <1>14, <2>4, <2>5 DEF release_entry
<1>15. /\ d.head = c.head /\ d.tail = c.tail /\ d.size = c.size /\ d.free = n
       /\ d.lru_prev = pv /\ d.lru_next = ln /\ d.hash_next = hn
       /\ d.bucket = bk /\ d.key = kk /\ d.val = vv
    BY ONLY <1>14a
<1>16. /\ bk \in [0..(Buckets - 1) -> Nat] /\ bk[b] = c.hash_next[n]
       /\ \A x \in 0..(Buckets - 1) : x # b => bk[x] = c.bucket[x]
    BY <1>3, <1>4, <1>9, <1>14
<1>17. hn = nx2
    <2>1. first[Buckets] = c.free
        BY <1>5, <1>9, <1>10
    <2>. QED  BY <1>8, <1>9, <1>10, <1>12, <1>14, <2>1
<1>18. Heads(d) = first2
    <2>1. first2 = [t \in Threads |-> first2[t]]
        BY <1>9, <1>10, <1>12
    <2>2. first2[Buckets] = n /\ \A t \in Threads : t # Buckets => first2[t] = first[t]
        BY <1>5, <1>9, <1>10, <1>12
    <2>3. first[b] = c.hash_next[n] /\ \A t \in Threads : t # b => first[t] = Heads(c)[t]
        BY <1>5, <1>9, <1>10
    <2>4. \A t \in Threads : t # Buckets => t \in 0..(Buckets - 1)
        BY <1>3 DEF Threads
    <2>5. \A t \in Threads : t # Buckets => Heads(c)[t] = c.bucket[t]
        BY DEF Heads
    <2>6. ASSUME NEW t \in Threads PROVE first2[t] = IF t = Buckets THEN d.free ELSE d.bucket[t]
        BY <1>15, <1>16, <2>2, <2>3, <2>4, <2>5
    <2>. QED  BY <2>1, <2>6 DEF Heads
<1>19. HashLists(d, h2)
    BY <1>13, <1>15, <1>17, <1>18 DEF HashLists
<1>20. CacheMemory(d)
    <2>1. /\ c.lru_prev \in [Entry -> Nat] /\ c.lru_next \in [Entry -> Nat] /\ c.free \in Nat
          /\ c.key \in [Entry -> Key \cup {NoObject}] /\ c.val \in [Entry -> CacheValue \cup {NoObject}]
        BY DEF CacheMemory
    <2>2. /\ pv \in [Entry -> Nat] /\ ln \in [Entry -> Nat] /\ hn \in [Entry -> Nat]
          /\ kk \in [Entry -> Key \cup {NoObject}] /\ vv \in [Entry -> CacheValue \cup {NoObject}]
        BY <1>9, <1>14, <2>1 DEF Nil
    <2>3. n \in Nat
        BY <1>8, EntryNotNil
    <2>. QED  BY <1>14a, <1>15, <1>16, <2>2, <2>3 DEF CacheMemory
<1>21. h2[n] = Buckets /\ \A x \in Entry : x # n => h2[x] = home[x]
    BY <1>8, <1>9, <1>10, <1>12
<1>22. Gone(h2) = Gone(home) /\ n \in InChains(home) /\ InChains(h2) = InChains(home) \ {n}
    BY <1>5, <1>8, <1>21, ThreadNotAway DEF Gone, InChains
<1>. QED  BY <1>19, <1>20, <1>22

\* A round of clear's loop; once the chains are empty, nothing.
ClearRound(d) == IF NoChains(d) THEN d ELSE drop_first(d)
IsRounds(f, c, k) ==
    f = [i \in 0..k |->
           IF i = 0 THEN c
           ELSE IF \A b \in DOMAIN c.bucket : f[i - 1].bucket[b] = Nil THEN f[i - 1]
           ELSE drop_first(f[i - 1])]
ClearRounds(c) == CHOOSE f : IsRounds(f, c, Capacity)

LEMMA ClearRoundsExist ==
    ASSUME NEW c, NEW N \in Nat
    PROVE  \E f : IsRounds(f, c, N)
<1> DEFINE After(d) == IF \A b \in DOMAIN c.bucket : d.bucket[b] = Nil THEN d ELSE drop_first(d)
           T == {j \in Nat : \E f : f = [k \in 0..j |-> IF k = 0 THEN c ELSE After(f[k - 1])]}
<1> HIDE DEF After
<1>1. 0 \in T
    <2>1. PICK f : f = [k \in 0..0 |-> c]
        OBVIOUS
    <2>2. f = [k \in 0..0 |-> IF k = 0 THEN c ELSE After(f[k - 1])]
        BY <2>1
    <2>. QED  BY <2>2
<1>2. ASSUME NEW j \in Nat, j \in T PROVE j + 1 \in T
    <2>1. PICK f : f = [k \in 0..j |-> IF k = 0 THEN c ELSE After(f[k - 1])]
        BY <1>2
    <2>2. PICK g : g = [k \in 0..(j + 1) |-> IF k = j + 1 THEN After(f[j]) ELSE f[k]]
        OBVIOUS
    <2>3. ASSUME NEW k \in 0..(j + 1) PROVE g[k] = IF k = 0 THEN c ELSE After(g[k - 1])
        <3>1. CASE k = j + 1
            <4>1. k - 1 = j /\ k # 0 /\ j \in 0..(j + 1) /\ j # j + 1
                BY <3>1
            <4>2. g[j] = f[j]
                BY <2>2, <4>1
            <4>. QED  BY <2>2, <3>1, <4>1, <4>2
        <3>2. CASE k = 0
            <4>1. 0 \in 0..j /\ 0 \in 0..(j + 1) /\ 0 # j + 1
                OBVIOUS
            <4>2. f[0] = c
                BY <2>1, <4>1
            <4>. QED  BY <2>2, <3>2, <4>1, <4>2
        <3>3. CASE k # 0 /\ k # j + 1
            <4>1. k \in 0..j /\ k - 1 \in 0..(j + 1) /\ k - 1 # j + 1
                BY <3>3
            <4>2. g[k - 1] = f[k - 1] /\ g[k] = f[k]
                BY <2>2, <3>3, <4>1
            <4>3. f[k] = After(f[k - 1])
                BY <2>1, <3>3, <4>1
            <4>. QED  BY <3>3, <4>2, <4>3
        <3>. QED  BY <3>1, <3>2, <3>3
    <2>4. g = [k \in 0..(j + 1) |-> IF k = 0 THEN c ELSE After(g[k - 1])]
        BY <2>2, <2>3
    <2>. QED  BY <2>4
<1>3. N \in T
    <2>. HIDE DEF T
    <2>. QED  BY <1>1, <1>2, SetInduction
<1>4. PICK f : f = [k \in 0..N |-> IF k = 0 THEN c ELSE After(f[k - 1])]
    BY <1>3
<1>5. IsRounds(f, c, N)
    BY <1>4, Zenon DEF After, IsRounds
<1>. QED  BY <1>5

\* While clear runs, at most k entries are in chains.
Emptying(d, gone, k) ==
    \E home : /\ CacheMemory(d) /\ HashLists(d, home) /\ Gone(home) = gone
              /\ Cardinality(InChains(home)) <= k

LEMMA ClearRoundIs ==
    ASSUME NEW d, NEW gone, NEW k \in Nat, Emptying(d, gone, k)
    PROVE  Emptying(ClearRound(d), gone, IF k = 0 THEN 0 ELSE k - 1)
<1>1. PICK home : /\ CacheMemory(d) /\ HashLists(d, home) /\ Gone(home) = gone
                  /\ Cardinality(InChains(home)) <= k
    BY DEF Emptying
<1>2. \A h : InChains(h) \in SUBSET Entry
    BY DEF InChains
<1>3. CASE NoChains(d)
    <2>1. Cardinality(InChains(home)) = 0
        <3>1. InChains(home) = {}
            BY <1>1, <1>3, ChainsEmpty
        <3>. QED  BY <3>1, FS_EmptySet
    <2>. QED  BY <1>1, <1>3, <2>1 DEF ClearRound, Emptying
<1>4. CASE ~NoChains(d)
    <2>1. PICK e : e = drop_first(d)
        OBVIOUS
    <2>2. PICK n, h : /\ CacheMemory(e) /\ HashLists(e, h) /\ Gone(h) = Gone(home)
                      /\ n \in InChains(home) /\ InChains(h) = InChains(home) \ {n}
        BY <1>1, <1>4, <2>1, DropFirstIs
    <2>3. PICK a \in Nat : a = Cardinality(InChains(home)) /\ IsFiniteSet(InChains(home))
        BY <1>2, EntriesFinite
    <2>4. Cardinality(InChains(h)) = a - 1
        BY <2>2, <2>3, FS_RemoveElement
    <2>5. a # 0
        BY <2>2, <2>3, FS_EmptySet
    <2>6. Cardinality(InChains(h)) <= IF k = 0 THEN 0 ELSE k - 1
        BY ONLY <1>1, <2>3, <2>4, <2>5, k \in Nat
    <2>7. ClearRound(d) = e
        BY <1>4, <2>1 DEF ClearRound
    <2>. QED  BY <1>1, <2>2, <2>6, <2>7 DEF Emptying
<1>. QED  BY <1>3, <1>4

\* clear gives every entry in a chain back, and no other.
LEMMA ClearIs ==
    ASSUME NEW c, NEW home, NEW q, NEW k, Cached(c, home, q, k), NEW d, d = chains_cleared(c)
    PROVE  \E h, w : Cached(d, h, w, 0) /\ d.size = 0 /\ Gone(h) = Gone(home)
<1>1. Capacity \in Nat /\ CacheMemory(c) /\ HashLists(c, home)
    BY EntryNotNil DEF Cached
<1>2. PICK f : f = ClearRounds(c)
    OBVIOUS
<1>3. f = [i \in 0..Capacity |->
             IF i = 0 THEN c
             ELSE IF \A b \in DOMAIN c.bucket : f[i - 1].bucket[b] = Nil THEN f[i - 1]
             ELSE drop_first(f[i - 1])]
    <2>1. \E g : IsRounds(g, c, Capacity)
        BY ONLY <1>1, ClearRoundsExist
    <2>2. IsRounds(f, c, Capacity)
        BY ONLY <1>2, <2>1, Zenon DEF ClearRounds
    <2>. QED  BY ONLY <2>2, Zenon DEF IsRounds
<1>4. PICK gone : gone = Gone(home)
    OBVIOUS
<1> DEFINE T == {j \in Nat : j <= Capacity => Emptying(f[j], gone, Capacity - j)}
<1>5. 0 \in T
    <2>1. f[0] = c
        BY <1>1, <1>3
    <2>2. InChains(home) \in SUBSET Entry
        BY DEF InChains
    <2>3. Cardinality(InChains(home)) <= Capacity - 0
        BY <1>1, <2>2, EntriesFinite
    <2>. QED  BY <1>1, <1>4, <2>1, <2>3 DEF Emptying
<1>6. ASSUME NEW j \in Nat, j \in T PROVE j + 1 \in T
    <2>1. SUFFICES ASSUME j + 1 <= Capacity PROVE Emptying(f[j + 1], gone, Capacity - (j + 1))
        OBVIOUS
    <2>2. j <= Capacity /\ j + 1 \in 0..Capacity /\ j + 1 # 0 /\ (j + 1) - 1 = j
        BY <1>1, <2>1
    <2>3. PICK x, k0 : x = f[j] /\ k0 = Capacity - j
        OBVIOUS
    <2>4. k0 \in Nat /\ k0 # 0 /\ Capacity - (j + 1) = k0 - 1 /\ Emptying(x, gone, k0)
        BY <1>1, <1>6, <2>1, <2>2, <2>3
    <2>5. f[j + 1] = IF \A b \in DOMAIN c.bucket : x.bucket[b] = Nil THEN x ELSE drop_first(x)
        BY <1>3, <2>2, <2>3
    <2>6. DOMAIN c.bucket = DOMAIN x.bucket
        <3>1. CacheMemory(x)
            BY <2>4 DEF Emptying
        <3>. QED  BY <1>1, <3>1 DEF CacheMemory
    <2>7. f[j + 1] = ClearRound(x)
        BY ONLY <2>5, <2>6, Zenon DEF ClearRound, NoChains
    <2>8. Emptying(ClearRound(x), gone, IF k0 = 0 THEN 0 ELSE k0 - 1)
        BY ONLY <2>4, ClearRoundIs
    <2>. QED  BY <2>4, <2>7, <2>8
<1>7. Capacity \in T
    <2>. HIDE DEF T
    <2>. QED  BY <1>1, <1>5, <1>6, SetInduction
<1>8. PICK e : e = f[Capacity]
    OBVIOUS
<1>9. PICK h : CacheMemory(e) /\ HashLists(e, h) /\ Gone(h) = gone /\ InChains(h) = {}
    <2>1. Emptying(e, gone, 0)
        BY <1>1, <1>7, <1>8
    <2>2. PICK h : CacheMemory(e) /\ HashLists(e, h) /\ Gone(h) = gone /\ Cardinality(InChains(h)) <= 0
        BY <2>1 DEF Emptying
    <2>3. InChains(h) \in SUBSET Entry
        BY DEF InChains
    <2>4. IsFiniteSet(InChains(h)) /\ Cardinality(InChains(h)) = 0
        <3>1. PICK a \in Nat : a = Cardinality(InChains(h)) /\ IsFiniteSet(InChains(h))
            BY <2>3, EntriesFinite
        <3>. QED  BY <2>2, <3>1
    <2>5. InChains(h) = {}
        BY <2>4, FS_EmptySet
    <2>. QED  BY <2>2, <2>5
<1>10. d = [e EXCEPT !.head = Nil, !.tail = Nil, !.size = 0]
    <2>1. chains_cleared(c) = [ClearRounds(c)[Capacity] EXCEPT !.head = Nil, !.tail = Nil, !.size = 0]
        BY Zenon DEF chains_cleared, ClearRounds, IsRounds
    <2>. QED  BY <1>2, <1>8, <2>1
<1>11. d = [head |-> Nil, tail |-> Nil, size |-> 0, free |-> e.free,
            lru_prev |-> e.lru_prev, lru_next |-> e.lru_next, hash_next |-> e.hash_next,
            bucket |-> e.bucket, key |-> e.key, val |-> e.val]
    BY ONLY <1>9, <1>10 DEF CacheMemory
<1>12. /\ d.head = Nil /\ d.tail = Nil /\ d.size = 0 /\ d.free = e.free
       /\ d.lru_prev = e.lru_prev /\ d.lru_next = e.lru_next /\ d.hash_next = e.hash_next
       /\ d.bucket = e.bucket /\ d.key = e.key /\ d.val = e.val
    BY ONLY <1>11
<1>13. CacheMemory(d)
    BY <1>9, <1>11, <1>12 DEF CacheMemory
<1>14. HashLists(d, h)
    BY <1>9, <1>12, HashSame
<1>15. PICK w : w = [i \in Nat |-> Nil]
    OBVIOUS
<1>16. Recency(d, w, 0)
    BY <1>12, <1>15 DEF Recency, Walk, Distinct, Before, Nil
<1>17. Kept(d, h, w, 0)
    BY <1>9 DEF Kept, InChains
<1>. QED  BY <1>4, <1>9, <1>12, <1>13, <1>14, <1>16, <1>17 DEF Cached

\* reset_free_list puts every entry on free_list_.
LEMMA EmptyIs ==
    \E h, w : Cached(empty_cache, h, w, 0) /\ Gone(h) = {}
<1>1. PICK c : c = empty_cache
    OBVIOUS
<1>2. c = [head |-> Nil, tail |-> Nil, size |-> 0, free |-> Capacity,
           lru_prev |-> [n \in Entry |-> Nil], lru_next |-> [n \in Entry |-> Nil],
           hash_next |-> [n \in Entry |-> n - 1],
           bucket |-> [b \in 0..(Buckets - 1) |-> Nil],
           key |-> [n \in Entry |-> NoObject], val |-> [n \in Entry |-> NoObject]]
    BY <1>1 DEF empty_cache
<1>3. /\ c.head = Nil /\ c.tail = Nil /\ c.size = 0 /\ c.free = Capacity
      /\ c.lru_prev = [n \in Entry |-> Nil] /\ c.lru_next = [n \in Entry |-> Nil]
      /\ c.hash_next = [n \in Entry |-> n - 1] /\ c.bucket = [b \in 0..(Buckets - 1) |-> Nil]
      /\ c.key = [n \in Entry |-> NoObject] /\ c.val = [n \in Entry |-> NoObject]
    BY ONLY <1>2
<1>4. /\ Capacity \in Nat \ {0} /\ Buckets \in Nat \ {0} /\ Entry = 1..Capacity /\ Nil = 0
      /\ Buckets \in Threads /\ Away \notin Threads
    BY LruConstants, ThreadNotAway DEF Entry, Nil
<1>5. CacheMemory(c)
    BY <1>2, <1>3, <1>4 DEF CacheMemory
<1>6. PICK h, w, r : /\ h = [n \in Entry |-> Buckets] /\ w = [i \in Nat |-> Nil]
                     /\ r = [i \in Nat |-> IF i < Capacity THEN Capacity - i ELSE Nil]
    OBVIOUS
<1>7. PICK P, K : /\ P = [t \in Threads |-> IF t = Buckets THEN r ELSE w]
                  /\ K = [t \in Threads |-> IF t = Buckets THEN Capacity ELSE 0]
    OBVIOUS
<1>8. w \in [Nat -> Nat] /\ r \in [Nat -> Nat]
    BY <1>4, <1>6
<1>9. OnThread(c.hash_next, Capacity, h, Buckets, r, Capacity)
    <2>1. r[0] = Capacity
        BY <1>4, <1>6
    <2>2. ASSUME NEW i \in Nat, i < Capacity
          PROVE  r[i] = Capacity - i /\ r[i] \in Entry /\ r[i] # Nil /\ c.hash_next[r[i]] = r[i + 1]
        <3>1. r[i] = Capacity - i /\ r[i] \in Entry /\ r[i] # Nil
            BY <1>4, <1>6, <2>2
        <3>2. c.hash_next[r[i]] = (Capacity - i) - 1
            BY <1>3, <3>1
        <3>3. r[i + 1] = (Capacity - i) - 1
            BY <1>4, <1>6, <2>2
        <3>. QED  BY <3>1, <3>2, <3>3
    <2>3. \A i \in Nat : i >= Capacity => r[i] = Nil
        BY <1>4, <1>6
    <2>4. ASSUME NEW n \in Entry PROVE \E i \in Nat : i < Capacity /\ r[i] = n
        <3>1. Capacity - n \in Nat /\ Capacity - n < Capacity
            BY <1>4
        <3>2. r[Capacity - n] = n
            BY <1>4, <1>6, <3>1
        <3>. QED  BY <3>1, <3>2
    <2>5. Walk(c.hash_next, Capacity, r, Capacity)
        BY <1>4, <1>8, <2>1, <2>2, <2>3 DEF Walk
    <2>6. Distinct(r, Capacity)
        <3>1. ASSUME NEW i \in Nat, NEW j \in Nat, i < Capacity, j < Capacity, r[i] = r[j] PROVE i = j
            <4>1. Capacity - i = Capacity - j
                BY <2>2, <3>1
            <4>. QED  BY <1>4, <4>1
        <3>. QED  BY <3>1 DEF Distinct
    <2>. QED  BY <1>6, <2>2, <2>4, <2>5, <2>6 DEF OnThread
<1>10. ASSUME NEW t \in Threads, t # Buckets PROVE OnThread(c.hash_next, Nil, h, t, w, 0)
    BY <1>4, <1>6, <1>8, <1>10 DEF OnThread, Walk, Distinct
<1>11. ASSUME NEW t \in Threads PROVE OnThread(c.hash_next, Heads(c)[t], h, t, P[t], K[t])
    <2>1. CASE t = Buckets
        BY <1>3, <1>7, <1>9, <2>1 DEF Heads
    <2>2. CASE t # Buckets
        <3>1. t \in 0..(Buckets - 1)
            BY <1>4, <2>2 DEF Threads
        <3>2. Heads(c)[t] = Nil
            BY <1>3, <2>2, <3>1 DEF Heads
        <3>. QED  BY <1>7, <1>10, <2>2, <3>2
    <2>. QED  BY <2>1, <2>2
<1>12. Heads(c) \in [Threads -> Nat]
    <2>1. \A t \in Threads : t # Buckets => t \in 0..(Buckets - 1)
        BY <1>4 DEF Threads
    <2>2. \A t \in Threads : (IF t = Buckets THEN c.free ELSE c.bucket[t]) \in Nat
        BY <1>3, <1>4, <2>1
    <2>. QED  BY <2>2 DEF Heads
<1>13. Threaded(c.hash_next, Heads(c), h, P, K)
    <2>1. P \in [Threads -> [Nat -> Nat]] /\ K \in [Threads -> Nat] /\ h \in [Entry -> Threads \cup {Away}]
        BY <1>4, <1>6, <1>7, <1>8
    <2>2. c.hash_next \in [Entry -> Nat]
        BY <1>5 DEF CacheMemory
    <2>. QED  BY <1>11, <1>12, <2>1, <2>2 DEF Threaded
<1>14. Recency(c, w, 0)
    BY <1>3, <1>4, <1>6 DEF Recency, Walk, Distinct, Before
<1>15. Kept(c, h, w, 0)
    BY <1>6 DEF Kept
<1>16. Gone(h) = {}
    <2>1. Buckets # Away
        BY <1>4
    <2>. QED  BY <1>6, <2>1 DEF Gone
<1>. QED  BY <1>1, <1>5, <1>13, <1>14, <1>15, <1>16 DEF Cached, HashLists

-----------------------------------------------------------------------------
(***************************************************************************)
(* The LRU cache: what the visitors see                                    *)
(***************************************************************************)

Pair == Key \X CacheValue
Uses(c, q, k) == [i \in 1..k |-> <<c.key[q[i - 1]], c.val[q[i - 1]]>>]

LEMMA UsesFacts ==
    ASSUME NEW c, NEW home, NEW q, NEW k, Cached(c, home, q, k), NEW s, s = Uses(c, q, k)
    PROVE  /\ k \in Nat /\ s \in Seq(Pair) /\ Len(s) = k
           /\ \A i \in Nat : i < k => /\ i + 1 \in 1..k /\ s[i + 1] = <<c.key[q[i]], c.val[q[i]]>>
                                      /\ s[i + 1][1] = c.key[q[i]]
<1>1. k \in Nat /\ \A i \in Nat : i < k => c.key[q[i]] \in Key /\ c.val[q[i]] \in CacheValue
    BY CachedFacts
<1>2. ASSUME NEW i \in 1..k PROVE s[i] = <<c.key[q[i - 1]], c.val[q[i - 1]]>> /\ s[i] \in Pair
    <2>1. i - 1 \in Nat /\ i - 1 < k
        BY <1>1
    <2>. QED  BY <1>1, <2>1 DEF Uses, Pair
<1>3. s \in [1..k -> Pair]
    BY <1>2 DEF Uses
<1>4. s \in Seq(Pair) /\ Len(s) = k
    BY <1>1, <1>3
<1>5. ASSUME NEW i \in Nat, i < k
      PROVE  i + 1 \in 1..k /\ s[i + 1] = <<c.key[q[i]], c.val[q[i]]>> /\ s[i + 1][1] = c.key[q[i]]
    <2>1. i + 1 \in 1..k /\ (i + 1) - 1 = i
        BY <1>1, <1>5
    <2>2. s[i + 1] = <<c.key[q[i]], c.val[q[i]]>>
        BY <1>2, <2>1
    <2>. QED  BY <2>1, <2>2
<1>. QED  BY <1>1, <1>4, <1>5

\* A key is in one place, the one it has in the recency list.
LEMMA AtIs ==
    ASSUME NEW c, NEW home, NEW q, NEW k, Cached(c, home, q, k), NEW s, s = Uses(c, q, k), NEW x
    PROVE  /\ (\A i \in Nat : i < k => c.key[q[i]] # x) => At(s, x) = {}
           /\ \A i \in Nat : i < k /\ c.key[q[i]] = x => At(s, x) = {i + 1}
<1>1. /\ k \in Nat /\ Len(s) = k
      /\ \A i \in Nat : i < k => i + 1 \in 1..k /\ s[i + 1][1] = c.key[q[i]]
    BY UsesFacts
<1>2. \A i, j \in Nat : i < k /\ j < k /\ c.key[q[i]] = c.key[q[j]] => i = j
    BY CachedFacts
<1>3. ASSUME NEW a \in 1..k PROVE a - 1 \in Nat /\ a - 1 < k /\ (a - 1) + 1 = a /\ s[a][1] = c.key[q[a - 1]]
    <2>1. a - 1 \in Nat /\ a - 1 < k /\ (a - 1) + 1 = a
        BY <1>1
    <2>. QED  BY <1>1, <2>1
<1>4. At(s, x) = {a \in 1..k : s[a][1] = x}
    BY <1>1 DEF At
<1>5. ASSUME \A i \in Nat : i < k => c.key[q[i]] # x PROVE At(s, x) = {}
    BY <1>3, <1>4, <1>5
<1>6. ASSUME NEW i \in Nat, i < k, c.key[q[i]] = x PROVE At(s, x) = {i + 1}
    <2>1. i + 1 \in At(s, x)
        BY <1>1, <1>4, <1>6
    <2>2. ASSUME NEW a \in At(s, x) PROVE a = i + 1
        <3>1. a \in 1..k /\ s[a][1] = x
            BY <1>4, <2>2
        <3>2. a - 1 = i
            BY <1>2, <1>3, <1>6, <3>1
        <3>. QED  BY <3>1, <3>2
    <2>. QED  BY <2>1, <2>2
<1>. QED  BY <1>5, <1>6

\* t is s without its element j, or without its last one, and u is t after e.
IsLess(t, s, j) ==
    /\ s \in Seq(Pair) /\ t \in Seq(Pair) /\ Len(t) = Len(s) - 1 /\ j \in 1..Len(s)
    /\ \A i \in 1..(Len(s) - 1) : t[i] = IF i < j THEN s[i] ELSE s[i + 1]
IsFront(u, e, t) ==
    /\ u \in Seq(Pair) /\ t \in Seq(Pair) /\ e \in Pair /\ Len(u) = Len(t) + 1 /\ u[1] = e
    /\ \A i \in 1..Len(t) : u[i + 1] = t[i]

LEMMA FrontIs ==
    ASSUME NEW u, NEW e, NEW t, IsFront(u, e, t)
    PROVE  <<e>> \o t = u
<1>1. PICK y, r, n : y = <<e>> /\ r = y \o t /\ n = Len(t)
    OBVIOUS
<1>2. /\ u \in Seq(Pair) /\ t \in Seq(Pair) /\ e \in Pair /\ n \in Nat /\ n = Len(t) /\ Len(u) = n + 1
      /\ u[1] = e /\ \A i \in 1..n : u[i + 1] = t[i]
    BY <1>1 DEF IsFront
<1>3. y \in Seq(Pair) /\ Len(y) = 1 /\ y[1] = e
    BY <1>1, <1>2
<1>4. /\ r \in Seq(Pair) /\ Len(r) = 1 + n
      /\ \A i \in 1..(1 + n) : r[i] = IF i <= 1 THEN y[i] ELSE t[i - 1]
    <2>1. /\ y \o t \in Seq(Pair) /\ Len(y \o t) = Len(y) + Len(t)
          /\ \A i \in 1..(Len(y) + Len(t)) : (y \o t)[i] = IF i <= Len(y) THEN y[i] ELSE t[i - Len(y)]
        BY ONLY <1>2, <1>3, ConcatProperties
    <2>. QED  BY ONLY <1>1, <1>2, <1>3, <2>1
<1>5. ASSUME NEW i \in 1..Len(r) PROVE r[i] = u[i]
    <2>1. CASE i = 1
        BY <1>2, <1>3, <1>4, <2>1
    <2>2. CASE i # 1
        <3>1. i \in 1..(1 + n) /\ ~(i <= 1) /\ i - 1 \in 1..n /\ (i - 1) + 1 = i
            BY <1>2, <1>4, <2>2
        <3>. QED  BY <1>2, <1>4, <3>1
    <2>. QED  BY <2>1, <2>2
<1>6. Len(r) = Len(u)
    BY <1>2, <1>4
<1>7. r = u
    BY ONLY <1>2, <1>4, <1>5, <1>6, SeqEqual
<1>. QED  BY <1>1, <1>7

LEMMA PartIs ==
    ASSUME NEW s \in Seq(Pair), NEW a \in 1..(Len(s) + 1), NEW b \in (a - 1)..Len(s), NEW t, t = SubSeq(s, a, b)
    PROVE  t \in Seq(Pair) /\ Len(t) = b - a + 1 /\ \A j \in 1..(b - a + 1) : t[j] = s[a + j - 1]
<1>1. Len(s) \in Nat /\ \A j \in 1..Len(s) : s[j] \in Pair
    OBVIOUS
<1>2. a \in Int /\ b \in Int /\ \A j \in a..b : s[j] \in Pair
    BY <1>1
<1>3. t \in Seq(Pair) /\ Len(t) = (IF a <= b THEN b - a + 1 ELSE 0)
      /\ \A j \in 1..(b - a + 1) : t[j] = s[a + j - 1]
    BY <1>2, SubSeqProperties
<1>. QED  BY <1>1, <1>3

LEMMA LessIs ==
    ASSUME NEW t, NEW s, NEW j, IsLess(t, s, j)
    PROVE  /\ \A x : At(s, x) = {j} => Less(s, x) = t
           /\ j = Len(s) => SubSeq(s, 1, Len(s) - 1) = t
<1>1. PICK n, a, b, r : n = Len(s) /\ a = SubSeq(s, 1, j - 1) /\ b = SubSeq(s, j + 1, n) /\ r = a \o b
    OBVIOUS
<1>2. /\ s \in Seq(Pair) /\ t \in Seq(Pair) /\ n \in Nat /\ n = Len(s) /\ Len(t) = n - 1 /\ j \in 1..n
      /\ \A i \in 1..(n - 1) : t[i] = IF i < j THEN s[i] ELSE s[i + 1]
    BY <1>1 DEF IsLess
<1>3. a \in Seq(Pair) /\ Len(a) = j - 1 /\ \A i \in 1..(j - 1) : a[i] = s[i]
    <2>1. 1 \in 1..(Len(s) + 1) /\ j - 1 \in (1 - 1)..Len(s) /\ (j - 1) - 1 + 1 = j - 1
        BY <1>2
    <2>2. a \in Seq(Pair) /\ Len(a) = (j - 1) - 1 + 1
          /\ \A i \in 1..((j - 1) - 1 + 1) : a[i] = s[1 + i - 1]
        BY ONLY <1>1, <1>2, <2>1, PartIs
    <2>3. \A i \in 1..(j - 1) : 1 + i - 1 = i
        BY <1>2
    <2>. QED  BY <2>1, <2>2, <2>3
<1>4. b \in Seq(Pair) /\ Len(b) = n - j /\ \A i \in 1..(n - j) : b[i] = s[j + i]
    <2>1. j + 1 \in 1..(Len(s) + 1) /\ n \in ((j + 1) - 1)..Len(s) /\ n - (j + 1) + 1 = n - j
        BY <1>2
    <2>2. b \in Seq(Pair) /\ Len(b) = n - (j + 1) + 1
          /\ \A i \in 1..(n - (j + 1) + 1) : b[i] = s[(j + 1) + i - 1]
        BY ONLY <1>1, <1>2, <2>1, PartIs
    <2>3. \A i \in 1..(n - j) : (j + 1) + i - 1 = j + i
        BY <1>2
    <2>. QED  BY <2>1, <2>2, <2>3
<1>5. r \in Seq(Pair) /\ Len(r) = (j - 1) + (n - j)
      /\ \A i \in 1..((j - 1) + (n - j)) : r[i] = IF i <= j - 1 THEN a[i] ELSE b[i - (j - 1)]
    <2>1. /\ a \o b \in Seq(Pair) /\ Len(a \o b) = Len(a) + Len(b)
          /\ \A i \in 1..(Len(a) + Len(b)) : (a \o b)[i] = IF i <= Len(a) THEN a[i] ELSE b[i - Len(a)]
        BY ONLY <1>3, <1>4, ConcatProperties
    <2>. QED  BY ONLY <1>1, <1>3, <1>4, <2>1
<1>6. (j - 1) + (n - j) = n - 1
    BY <1>2
<1>7. ASSUME NEW i \in 1..Len(r) PROVE r[i] = t[i]
    <2>1. i \in 1..(n - 1)
        BY <1>5, <1>6
    <2>2. CASE i < j
        <3>1. i <= j - 1 /\ i \in 1..(j - 1)
            BY <1>2, <2>1, <2>2
        <3>. QED  BY <1>2, <1>3, <1>5, <1>6, <2>1, <2>2, <3>1
    <2>3. CASE ~(i < j)
        <3>1. ~(i <= j - 1) /\ i - (j - 1) \in 1..(n - j) /\ j + (i - (j - 1)) = i + 1
            BY <1>2, <2>1, <2>3
        <3>2. r[i] = b[i - (j - 1)]
            BY <1>5, <1>6, <2>1, <3>1
        <3>3. b[i - (j - 1)] = s[i + 1]
            BY <1>4, <3>1
        <3>. QED  BY <1>2, <2>1, <2>3, <3>2, <3>3
    <2>. QED  BY <2>2, <2>3
<1>8. r = t
    <2>1. Len(r) = Len(t)
        BY <1>2, <1>5, <1>6
    <2>. QED  BY ONLY <1>2, <1>5, <1>7, <2>1, SeqEqual
<1>9. ASSUME NEW x, At(s, x) = {j} PROVE Less(s, x) = t
    <2>1. (CHOOSE i \in At(s, x) : TRUE) = j
        BY <1>9
    <2>2. Less(s, x) = SubSeq(s, 1, j - 1) \o SubSeq(s, j + 1, Len(s))
        BY <1>9, <2>1 DEF Less
    <2>. QED  BY <1>1, <1>8, <2>2
<1>10. ASSUME j = n PROVE SubSeq(s, 1, n - 1) = t
    <2>1. a = SubSeq(s, 1, n - 1)
        BY <1>1, <1>10
    <2>2. Len(a) = Len(t)
        BY <1>2, <1>3, <1>10
    <2>3. ASSUME NEW i \in 1..Len(a) PROVE a[i] = t[i]
        <3>1. i \in 1..(n - 1) /\ i < j
            BY <1>2, <1>3, <1>10
        <3>. QED  BY <1>2, <1>3, <1>10, <3>1
    <2>4. a = t
        BY ONLY <1>2, <1>3, <2>2, <2>3, SeqEqual
    <2>. QED  BY <2>1, <2>4
<1>. QED  BY <1>1, <1>9, <1>10

\* What each change of the recency list makes of the elements a visitor sees.
LEMMA UsesPush ==
    ASSUME NEW c, NEW home, NEW q, NEW k, Cached(c, home, q, k),
           NEW d, NEW h, NEW n \in Entry, NEW w, w = With(q, 0, n), Cached(d, h, w, k + 1),
           \A i \in Nat : i < k => d.key[q[i]] = c.key[q[i]] /\ d.val[q[i]] = c.val[q[i]],
           NEW e, e = <<d.key[n], d.val[n]>>
    PROVE  Uses(d, w, k + 1) = <<e>> \o Uses(c, q, k)
<1>1. PICK s, u, l : s = Uses(c, q, k) /\ u = Uses(d, w, l) /\ l = k + 1
    OBVIOUS
<1>2. /\ k \in Nat /\ s \in Seq(Pair) /\ Len(s) = k
      /\ \A i \in Nat : i < k => /\ i + 1 \in 1..k /\ s[i + 1] = <<c.key[q[i]], c.val[q[i]]>>
    BY <1>1, UsesFacts
<1>3. /\ l \in Nat /\ u \in Seq(Pair) /\ Len(u) = l
      /\ \A i \in Nat : i < l => /\ i + 1 \in 1..l /\ u[i + 1] = <<d.key[w[i]], d.val[w[i]]>>
    BY <1>1, UsesFacts
<1>4. q \in [Nat -> Nat] /\ w[0] = n /\ \A i \in Nat : i # 0 => w[i] = q[i - 1]
    <2>1. q \in [Nat -> Nat]
        BY CachedFacts
    <2>. QED  BY <2>1, EntryNotNil DEF With
<1>5. u[1] = e /\ e \in Pair
    <2>1. 0 \in Nat /\ 0 < l /\ 0 + 1 = 1
        BY <1>1, <1>2
    <2>2. u[1] = e
        BY <1>3, <1>4, <2>1
    <2>3. \A a \in 1..l : u[a] \in Pair
        BY <1>3
    <2>4. 1 \in 1..l
        BY <1>1, <1>2
    <2>. QED  BY <2>2, <2>3, <2>4
<1>6. ASSUME NEW i \in 1..k PROVE u[i + 1] = s[i]
    <2>1. i \in Nat /\ i # 0 /\ i < l /\ i - 1 \in Nat /\ i - 1 < k /\ (i - 1) + 1 = i
        BY <1>1, <1>2
    <2>2. u[i + 1] = <<d.key[w[i]], d.val[w[i]]>> /\ w[i] = q[i - 1]
        BY <1>3, <1>4, <2>1
    <2>3. s[i] = <<c.key[q[i - 1]], c.val[q[i - 1]]>>
        BY <1>2, <2>1
    <2>. QED  BY <2>1, <2>2, <2>3
<1>7. IsFront(u, e, s)
    BY <1>1, <1>2, <1>3, <1>5, <1>6 DEF IsFront
<1>. QED  BY <1>1, <1>7, FrontIs

LEMMA UsesCut ==
    ASSUME NEW c, NEW home, NEW q, NEW k, Cached(c, home, q, k), NEW i \in Nat, i < k,
           NEW d, NEW h, NEW w, w = Without(q, i), Cached(d, h, w, k - 1),
           \A x \in Entry : x # q[i] => d.key[x] = c.key[x] /\ d.val[x] = c.val[x]
    PROVE  IsLess(Uses(d, w, k - 1), Uses(c, q, k), i + 1)
<1>1. PICK s, t, l : s = Uses(c, q, k) /\ t = Uses(d, w, l) /\ l = k - 1
    OBVIOUS
<1>2. /\ k \in Nat /\ s \in Seq(Pair) /\ Len(s) = k
      /\ \A j \in Nat : j < k => /\ j + 1 \in 1..k /\ s[j + 1] = <<c.key[q[j]], c.val[q[j]]>>
    BY <1>1, UsesFacts
<1>3. /\ l \in Nat /\ t \in Seq(Pair) /\ Len(t) = l
      /\ \A j \in Nat : j < l => /\ j + 1 \in 1..l /\ t[j + 1] = <<d.key[w[j]], d.val[w[j]]>>
    BY <1>1, UsesFacts
<1>4. q \in [Nat -> Nat] /\ \A j \in Nat : w[j] = IF j < i THEN q[j] ELSE q[j + 1]
    <2>1. q \in [Nat -> Nat]
        BY CachedFacts
    <2>. QED  BY <2>1 DEF Without
<1>5. /\ \A j \in Nat : j < k => q[j] \in Entry
      /\ \A a, b \in Nat : a < k /\ b < k /\ q[a] = q[b] => a = b
    BY CachedFacts, SMTT(30)
<1>6. ASSUME NEW a \in 1..(k - 1) PROVE t[a] = IF a < i + 1 THEN s[a] ELSE s[a + 1]
    <2>1. PICK j \in Nat : j = a - 1 /\ j + 1 = a /\ j < l
        BY <1>1, <1>2
    <2>2. PICK b \in Nat : b = IF j < i THEN j ELSE j + 1
        OBVIOUS
    <2>3. b < k /\ b # i /\ w[j] = q[b] /\ b + 1 = IF a < i + 1 THEN a ELSE a + 1
        <3>1. k \in Nat /\ w[j] = (IF j < i THEN q[j] ELSE q[j + 1]) /\ a = j + 1 /\ j < k - 1
            BY <1>1, <1>2, <1>4, <2>1
        <3>2. CASE j < i
            BY ONLY <2>2, <3>1, <3>2, i \in Nat
        <3>3. CASE ~(j < i)
            BY ONLY <2>2, <3>1, <3>3, i \in Nat
        <3>. QED  BY <3>2, <3>3
    <2>4. q[b] \in Entry /\ q[b] # q[i]
        BY <1>5, <2>3
    <2>5. t[a] = <<d.key[q[b]], d.val[q[b]]>>
        BY <1>3, <2>1, <2>3
    <2>6. t[a] = <<c.key[q[b]], c.val[q[b]]>>
        BY <2>4, <2>5
    <2>7. s[b + 1] = <<c.key[q[b]], c.val[q[b]]>>
        BY <1>2, <2>3
    <2>. QED  BY <2>3, <2>6, <2>7
<1>7. i + 1 \in 1..k
    BY <1>2
<1>. QED  BY <1>1, <1>2, <1>3, <1>6, <1>7 DEF IsLess

LEMMA UsesMoved ==
    ASSUME NEW c, NEW home, NEW q, NEW k, Cached(c, home, q, k), NEW i \in Nat, i < k,
           NEW d, NEW w, Cached(d, home, w, k), IsMoved(w, q, i), SameData(c, d)
    PROVE  \E t : IsLess(t, Uses(c, q, k), i + 1) /\ IsFront(Uses(d, w, k), Uses(c, q, k)[i + 1], t)
<1>1. PICK s, u : s = Uses(c, q, k) /\ u = Uses(d, w, k)
    OBVIOUS
<1>2. /\ k \in Nat /\ s \in Seq(Pair) /\ Len(s) = k
      /\ \A j \in Nat : j < k => /\ j + 1 \in 1..k /\ s[j + 1] = <<c.key[q[j]], c.val[q[j]]>>
    BY <1>1, UsesFacts
<1>3. /\ u \in Seq(Pair) /\ Len(u) = k
      /\ \A j \in Nat : j < k => u[j + 1] = <<c.key[w[j]], c.val[w[j]]>>
    <2>1. d.key = c.key /\ d.val = c.val
        BY DEF SameData
    <2>. QED  BY <1>1, <2>1, UsesFacts
<1>4. w[0] = q[i] /\ \A j \in Nat : (j < i => w[j + 1] = q[j]) /\ (j > i => w[j] = q[j])
    BY DEF IsMoved
<1>5. PICK t : t = [a \in 1..(k - 1) |-> IF a < i + 1 THEN s[a] ELSE s[a + 1]]
    OBVIOUS
<1>6. \A a \in 1..k : s[a] \in Pair
    BY <1>2
<1>7. t \in [1..(k - 1) -> Pair] /\ \A a \in 1..(k - 1) : t[a] = IF a < i + 1 THEN s[a] ELSE s[a + 1]
    BY <1>2, <1>5, <1>6
<1>8. PICK l \in Nat : l = k - 1
    BY <1>2
<1>9. t \in Seq(Pair) /\ Len(t) = k - 1
    BY <1>7, <1>8
<1>10. i + 1 \in 1..k /\ s[i + 1] \in Pair
    BY <1>2, <1>6
<1>11. IsLess(t, s, i + 1)
    BY <1>2, <1>7, <1>9, <1>10 DEF IsLess
<1>12. u[1] = s[i + 1]
    <2>1. 0 \in Nat /\ 0 < k /\ 0 + 1 = 1
        BY <1>2
    <2>2. u[1] = <<c.key[w[0]], c.val[w[0]]>>
        BY <1>3, <2>1
    <2>. QED  BY <1>2, <1>4, <2>2
<1>13. ASSUME NEW a \in 1..(k - 1) PROVE u[a + 1] = t[a]
    <2>1. a \in Nat /\ a < k /\ a - 1 \in Nat /\ (a - 1) + 1 = a /\ a - 1 < k
        BY <1>2
    <2>2. u[a + 1] = <<c.key[w[a]], c.val[w[a]]>>
        BY <1>3, <2>1
    <2>3. CASE a - 1 < i
        <3>1. w[a] = q[a - 1]
            BY <1>4, <2>1, <2>3
        <3>2. s[a] = <<c.key[q[a - 1]], c.val[q[a - 1]]>> /\ a < i + 1
            BY <1>2, <2>1, <2>3
        <3>. QED  BY <1>7, <2>2, <3>1, <3>2
    <2>4. CASE ~(a - 1 < i)
        <3>1. w[a] = q[a] /\ ~(a < i + 1)
            BY <1>4, <2>1, <2>4
        <3>2. s[a + 1] = <<c.key[q[a]], c.val[q[a]]>>
            BY <1>2, <2>1
        <3>. QED  BY <1>7, <2>2, <3>1, <3>2
    <2>. QED  BY <2>3, <2>4
<1>14. Len(u) = Len(t) + 1
    BY <1>2, <1>3, <1>9
<1>15. IsFront(u, s[i + 1], t)
    BY <1>3, <1>9, <1>10, <1>12, <1>13, <1>14 DEF IsFront
<1>. QED  BY <1>1, <1>11, <1>15

\* foreach_mru shows the elements of the recency list, and foreach_lru shows them backwards.
Backwards(r, s) == r = [i \in 1..Len(s) |-> s[Len(s) + 1 - i]]

LEMMA MruIs ==
    ASSUME NEW c, NEW home, NEW q, NEW k, Cached(c, home, q, k), c.size = k, NEW s, s = Uses(c, q, k)
    PROVE  foreach_mru(c) = s /\ Backwards(foreach_lru(c), s)
<1>1. /\ k \in Nat /\ Walk(c.lru_next, c.head, q, k) /\ q \in [Nat -> Nat] /\ c.tail = Before(q, k)
      /\ \A i \in Nat : i < k => q[i] \in Entry /\ q[i] # Nil /\ c.lru_prev[q[i]] = Before(q, i)
    BY DEF Cached, Recency, Walk
<1>2. /\ s \in Seq(Pair) /\ Len(s) = k
      /\ \A j \in Nat : j < k => /\ j + 1 \in 1..k /\ s[j + 1] = <<c.key[q[j]], c.val[q[j]]>>
    BY UsesFacts
<1>3. foreach_mru(c) = s
    <2>1. PICK r : r = foreach_mru(c)
        OBVIOUS
    <2>2. ASSUME NEW i \in 1..k PROVE r[i] = s[i]
        <3>1. i - 1 \in Nat /\ i - 1 < k /\ (i - 1) + 1 = i
            BY <1>1
        <3>2. PICK n : n = Follow(c.lru_next, c.head, i - 1)
            OBVIOUS
        <3>3. n = q[i - 1] /\ n # Nil
            BY <1>1, <3>1, <3>2, FollowWalk
        <3>4. r[i] = IF n = Nil THEN <<NoObject, NoObject>> ELSE <<c.key[n], c.val[n]>>
            BY <2>1, <3>2 DEF foreach_mru
        <3>. QED  BY <1>2, <3>1, <3>3, <3>4
    <2>3. r = [i \in 1..k |-> r[i]]
        BY <2>1 DEF foreach_mru
    <2>4. s = [i \in 1..k |-> s[i]]
        BY <1>2
    <2>. QED  BY <2>1, <2>2, <2>3, <2>4
<1>4. PICK b : b = [j \in Nat |-> IF j < k THEN q[(k - 1) - j] ELSE Nil]
    OBVIOUS
<1>5. ASSUME NEW j \in Nat, j < k PROVE (k - 1) - j \in Nat /\ (k - 1) - j < k /\ b[j] = q[(k - 1) - j]
    BY <1>1, <1>4, <1>5
<1>6. \A j \in Nat : j >= k => b[j] = Nil
    BY <1>1, <1>4
<1>7. Walk(c.lru_prev, c.tail, b, k)
    <2>1. b \in [Nat -> Nat]
        BY <1>1, <1>4, <1>5, <1>6 DEF Nil
    <2>2. b[0] = c.tail
        <3>1. CASE k = 0
            BY <1>1, <1>6, <3>1 DEF Before
        <3>2. CASE k # 0
            <4>1. 0 < k /\ (k - 1) - 0 = k - 1
                BY <1>1, <3>2
            <4>. QED  BY <1>1, <1>5, <3>2, <4>1 DEF Before
        <3>. QED  BY <3>1, <3>2
    <2>3. ASSUME NEW j \in Nat, j < k PROVE b[j] # Nil /\ c.lru_prev[b[j]] = b[j + 1]
        <3>1. (k - 1) - j \in Nat /\ (k - 1) - j < k /\ b[j] = q[(k - 1) - j]
            BY <1>5, <2>3
        <3>2. b[j] # Nil /\ c.lru_prev[b[j]] = Before(q, (k - 1) - j)
            BY <1>1, <3>1
        <3>3. CASE j + 1 = k
            <4>1. (k - 1) - j = 0 /\ b[j + 1] = Nil
                BY <1>1, <1>6, <3>3
            <4>. QED  BY <3>2, <4>1 DEF Before
        <3>4. CASE j + 1 # k
            <4>1. j + 1 \in Nat /\ j + 1 < k /\ (k - 1) - j # 0 /\ ((k - 1) - j) - 1 = (k - 1) - (j + 1)
                BY <1>1, <2>3, <3>4
            <4>2. b[j + 1] = q[(k - 1) - (j + 1)]
                BY <1>5, <4>1
            <4>. QED  BY <3>2, <4>1, <4>2 DEF Before
        <3>. QED  BY <3>3, <3>4
    <2>. QED  BY <1>1, <1>6, <2>1, <2>2, <2>3 DEF Walk
<1>8. foreach_lru(c) = [i \in 1..k |-> s[k + 1 - i]]
    <2>1. PICK r : r = foreach_lru(c)
        OBVIOUS
    <2>2. ASSUME NEW i \in 1..k PROVE r[i] = s[k + 1 - i]
        <3>1. i - 1 \in Nat /\ i - 1 < k /\ (k - 1) - (i - 1) \in Nat /\ (k - 1) - (i - 1) < k
              /\ ((k - 1) - (i - 1)) + 1 = k + 1 - i
            BY <1>1
        <3>2. PICK n : n = Follow(c.lru_prev, c.tail, i - 1)
            OBVIOUS
        <3>3. n = q[(k - 1) - (i - 1)] /\ n # Nil
            <4>1. n = b[i - 1]
                BY ONLY <1>7, <3>1, <3>2, FollowWalk
            <4>. QED  BY <1>1, <1>5, <3>1, <4>1
        <3>4. r[i] = IF n = Nil THEN <<NoObject, NoObject>> ELSE <<c.key[n], c.val[n]>>
            BY <2>1, <3>2 DEF foreach_lru
        <3>. QED  BY <1>2, <3>1, <3>3, <3>4
    <2>3. r = [i \in 1..k |-> r[i]]
        BY <2>1 DEF foreach_lru
    <2>. QED  BY <2>1, <2>2, <2>3
<1>. QED  BY <1>2, <1>3, <1>8 DEF Backwards

-----------------------------------------------------------------------------
(***************************************************************************)
(* The LRU cache: what each step of a call does to the elements            *)
(***************************************************************************)

\* The core c shows the elements of s, used last first; the entries of gone are on no list.
Lru(c, gone, s) ==
    \E home, q : Cached(c, home, q, c.size) /\ Gone(home) = gone /\ s = Uses(c, q, c.size)

LEMMA LruShows ==
    ASSUME NEW c, NEW gone, NEW s, Lru(c, gone, s)
    PROVE  /\ foreach_mru(c) = s /\ Backwards(foreach_lru(c), s)
           /\ s \in Seq(Pair) /\ Len(s) = c.size /\ c.size \in Nat /\ gone \in SUBSET Entry
           /\ \A x : Cardinality(At(s, x)) <= 1
<1>1. PICK home, q, k : Cached(c, home, q, k) /\ k = c.size /\ Gone(home) = gone /\ s = Uses(c, q, k)
    BY DEF Lru
<1>2. foreach_mru(c) = s /\ Backwards(foreach_lru(c), s)
    BY <1>1, MruIs
<1>3. k \in Nat /\ s \in Seq(Pair) /\ Len(s) = k
    BY <1>1, UsesFacts
<1>4. ASSUME NEW x PROVE Cardinality(At(s, x)) <= 1
    <2>1. CASE \A i \in Nat : i < k => c.key[q[i]] # x
        <3>1. At(s, x) = {}
            BY <1>1, <2>1, AtIs
        <3>. QED  BY <3>1, FS_EmptySet
    <2>2. CASE \E i \in Nat : i < k /\ c.key[q[i]] = x
        <3>1. PICK i \in Nat : i < k /\ c.key[q[i]] = x
            BY <2>2
        <3>2. At(s, x) = {i + 1}
            BY <1>1, <3>1, AtIs
        <3>3. Cardinality({i + 1}) = 1
            BY FS_Singleton
        <3>. QED  BY <3>2, <3>3
    <2>. QED  BY <2>1, <2>2
<1>. QED  BY <1>1, <1>2, <1>3, <1>4 DEF Gone

\* The entries in use, the free ones and those that are gone are all there are.
LEMMA LruCounts ==
    ASSUME NEW c, NEW gone, NEW s, Lru(c, gone, s)
    PROVE  /\ Cardinality(gone) \in Nat
           /\ c.free = Nil => Len(s) + Cardinality(gone) = Capacity
           /\ c.free # Nil => Len(s) + Cardinality(gone) < Capacity
           /\ c.tail = Nil => Len(s) = 0
<1>1. PICK home, q, k : Cached(c, home, q, k) /\ k = c.size /\ Gone(home) = gone /\ s = Uses(c, q, k)
    BY DEF Lru
<1>2. k \in Nat /\ Len(s) = k
    BY <1>1, UsesFacts
<1>3. /\ Cardinality(gone) \in Nat
      /\ c.free = Nil => k + Cardinality(gone) = Capacity
      /\ c.free # Nil => k + Cardinality(gone) < Capacity
    BY <1>1, CacheCounts
<1>4. ASSUME c.tail = Nil PROVE k = 0
    <2>1. c.tail = Before(q, k) /\ \A i \in Nat : i < k => q[i] # Nil
        BY <1>1, CachedFacts
    <2>2. SUFFICES ASSUME k # 0 PROVE FALSE
        OBVIOUS
    <2>3. k - 1 \in Nat /\ k - 1 < k
        BY <1>2, <2>2
    <2>4. c.tail = q[k - 1]
        BY <2>1, <2>2 DEF Before
    <2>. QED  BY <1>4, <2>1, <2>3, <2>4
<1>. QED  BY <1>2, <1>3, <1>4

\* The size is a member that no list depends on.
Sized(c, z) == [c EXCEPT !.size = z]

LEMMA SizeIs ==
    ASSUME NEW c, NEW home, NEW q, NEW k, Cached(c, home, q, k), NEW z, NEW d, d = Sized(c, z)
    PROVE  Cached(d, home, q, k) /\ d.size = z /\ d.key = c.key /\ d.val = c.val
<1>1. CacheMemory(c) /\ HashLists(c, home) /\ Recency(c, q, k) /\ Kept(c, home, q, k)
    BY DEF Cached
<1>2. d = [head |-> c.head, tail |-> c.tail, size |-> z, free |-> c.free,
           lru_prev |-> c.lru_prev, lru_next |-> c.lru_next, hash_next |-> c.hash_next,
           bucket |-> c.bucket, key |-> c.key, val |-> c.val]
    BY ONLY <1>1, d = Sized(c, z) DEF CacheMemory, Sized
<1>3. /\ d.head = c.head /\ d.tail = c.tail /\ d.size = z /\ d.free = c.free
      /\ d.lru_prev = c.lru_prev /\ d.lru_next = c.lru_next /\ d.hash_next = c.hash_next
      /\ d.bucket = c.bucket /\ d.key = c.key /\ d.val = c.val
    BY ONLY <1>2
<1>4. CacheMemory(d)
    BY <1>1, <1>2, <1>3 DEF CacheMemory
<1>5. HashLists(d, home)
    BY <1>1, <1>3, HashSame
<1>6. Recency(d, q, k)
    BY <1>1, <1>3 DEF Recency
<1>7. Kept(d, home, q, k)
    BY <1>1, <1>3 DEF Kept
<1>. QED  BY <1>3, <1>4, <1>5, <1>6, <1>7 DEF Cached

\* Nor does any depend on the value of an entry in use.
Valued(c, n, v) == [c EXCEPT !.val[n] = v]

LEMMA ValueIs ==
    ASSUME NEW c, NEW home, NEW q, NEW k, Cached(c, home, q, k), NEW n \in Entry, NEW v \in CacheValue,
           NEW d, d = Valued(c, n, v)
    PROVE  /\ Cached(d, home, q, k) /\ d.size = c.size /\ d.key = c.key /\ d.val[n] = v
           /\ \A x \in Entry : x # n => d.val[x] = c.val[x]
<1>1. CacheMemory(c) /\ HashLists(c, home) /\ Recency(c, q, k) /\ Kept(c, home, q, k)
    BY DEF Cached
<1>2. PICK vv : vv = [c.val EXCEPT ![n] = v]
    OBVIOUS
<1>3. d = [head |-> c.head, tail |-> c.tail, size |-> c.size, free |-> c.free,
           lru_prev |-> c.lru_prev, lru_next |-> c.lru_next, hash_next |-> c.hash_next,
           bucket |-> c.bucket, key |-> c.key, val |-> vv]
    BY ONLY <1>1, <1>2, d = Valued(c, n, v) DEF CacheMemory, Valued
<1>4. /\ d.head = c.head /\ d.tail = c.tail /\ d.size = c.size /\ d.free = c.free
      /\ d.lru_prev = c.lru_prev /\ d.lru_next = c.lru_next /\ d.hash_next = c.hash_next
      /\ d.bucket = c.bucket /\ d.key = c.key /\ d.val = vv
    BY ONLY <1>3
<1>5. vv \in [Entry -> CacheValue \cup {NoObject}] /\ vv[n] = v /\ \A x \in Entry : x # n => vv[x] = c.val[x]
    <2>1. c.val \in [Entry -> CacheValue \cup {NoObject}]
        BY <1>1 DEF CacheMemory
    <2>. QED  BY <1>2, <2>1
<1>6. CacheMemory(d)
    BY <1>1, <1>3, <1>4, <1>5 DEF CacheMemory
<1>7. HashLists(d, home)
    BY <1>1, <1>4, HashSame
<1>8. Recency(d, q, k)
    BY <1>1, <1>4 DEF Recency
<1>9. Kept(d, home, q, k)
    <2>1. \A i \in Nat : i < k => /\ q[i] \in Entry /\ c.key[q[i]] \in Key /\ c.val[q[i]] \in CacheValue
                                  /\ home[q[i]] = hash(c.key[q[i]])
        BY CachedFacts
    <2>2. \A i \in Nat : i < k => d.val[q[i]] \in CacheValue
        BY <1>4, <1>5, <2>1
    <2>. QED  BY <1>1, <1>4, <2>1, <2>2 DEF Kept
<1>. QED  BY <1>4, <1>5, <1>6, <1>7, <1>8, <1>9 DEF Cached

\* A key that the search does not find is not there; one it finds moves to the front.
LEMMA LruPromotes ==
    ASSUME NEW c, NEW gone, NEW s, Lru(c, gone, s), NEW x \in Key, NEW e, e = find_entry(c, x).entry
    PROVE  /\ e = Nil => At(s, x) = {}
           /\ e # Nil => /\ At(s, x) # {} /\ c.key[e] = x
                         /\ Lru(promote(c, e), gone, Moved(s, x))
                         /\ \A v \in CacheValue : Lru(promote([c EXCEPT !.val[e] = v], e), gone,
                                                      <<<<x, v>>>> \o Less(s, x))
<1>1. PICK home, q, k : Cached(c, home, q, k) /\ k = c.size /\ Gone(home) = gone /\ s = Uses(c, q, k)
    BY DEF Lru
<1>2. PICK f : f = find_entry(c, x)
    OBVIOUS
<1>3. \/ e = Nil /\ \A i \in Nat : i < k => c.key[q[i]] # x
      \/ e # Nil /\ c.key[e] = x /\ \E i \in Nat : i < k /\ q[i] = e
    <2>1. \/ f.entry = Nil /\ \A i \in Nat : i < k => c.key[q[i]] # x
          \/ /\ f.entry # Nil /\ c.key[f.entry] = x /\ home[f.entry] = hash(x)
             /\ Ahead(c, home, f.entry, f.prev)
             /\ \E i \in Nat : i < k /\ q[i] = f.entry
        BY ONLY <1>1, <1>2, x \in Key, FindIs
    <2>. QED  BY <1>2, <2>1
<1>4. ASSUME e = Nil PROVE At(s, x) = {}
    BY <1>1, <1>3, <1>4, AtIs
<1>5. ASSUME e # Nil
      PROVE  /\ At(s, x) # {} /\ c.key[e] = x /\ Lru(promote(c, e), gone, Moved(s, x))
             /\ \A v \in CacheValue : Lru(promote([c EXCEPT !.val[e] = v], e), gone,
                                          <<<<x, v>>>> \o Less(s, x))
    <2>1. PICK i \in Nat : i < k /\ q[i] = e /\ c.key[q[i]] = x
        BY <1>3, <1>5
    <2>2. At(s, x) = {i + 1}
        BY <1>1, <2>1, AtIs
    <2>3. (CHOOSE j \in At(s, x) : TRUE) = i + 1
        BY <2>2
    <2>4. Lru(promote(c, e), gone, Moved(s, x))
        <3>1. PICK d : d = promote(c, q[i])
            OBVIOUS
        <3>2. PICK w : Cached(d, home, w, k) /\ IsMoved(w, q, i) /\ SameData(c, d)
            BY ONLY <1>1, <2>1, <3>1, PromoteIs
        <3>3. PICK t : IsLess(t, s, i + 1) /\ IsFront(Uses(d, w, k), s[i + 1], t)
            BY <1>1, <2>1, <3>2, UsesMoved
        <3>4. Less(s, x) = t
            BY <2>2, <3>3, LessIs
        <3>5. Moved(s, x) = <<s[i + 1]>> \o t
            BY <2>2, <2>3, <3>4 DEF Moved
        <3>6. Moved(s, x) = Uses(d, w, k)
            BY <3>3, <3>5, FrontIs
        <3>7. d.size = k
            BY <1>1, <3>2 DEF SameData
        <3>. QED  BY <1>1, <2>1, <3>1, <3>2, <3>6, <3>7 DEF Lru
    <2>5. ASSUME NEW v \in CacheValue
          PROVE  Lru(promote([c EXCEPT !.val[e] = v], e), gone, <<<<x, v>>>> \o Less(s, x))
        <3>1. PICK b, d : b = Valued(c, e, v) /\ d = promote(b, q[i])
            OBVIOUS
        <3>2. e \in Entry
            BY <1>1, <2>1, CachedFacts
        <3>3. /\ Cached(b, home, q, k) /\ b.size = c.size /\ b.key = c.key /\ b.val[e] = v
              /\ \A n \in Entry : n # e => b.val[n] = c.val[n]
            BY ONLY <1>1, <3>1, <3>2, v \in CacheValue, ValueIs
        <3>4. PICK w : Cached(d, home, w, k) /\ IsMoved(w, q, i) /\ SameData(b, d)
            BY ONLY <2>1, <3>1, <3>3, PromoteIs
        <3>5. PICK r : r = Uses(b, q, k)
            OBVIOUS
        <3>6. PICK t : IsLess(t, r, i + 1) /\ IsFront(Uses(d, w, k), r[i + 1], t)
            BY <2>1, <3>3, <3>4, <3>5, UsesMoved
        <3>7. r[i + 1] = <<x, v>>
            <4>1. r[i + 1] = <<b.key[q[i]], b.val[q[i]]>>
                BY <2>1, <3>3, <3>5, UsesFacts
            <4>. QED  BY <2>1, <3>3, <4>1
        <3>8. IsLess(t, s, i + 1)
            <4>1. /\ s \in Seq(Pair) /\ Len(s) = k /\ k \in Nat
                  /\ \A j \in Nat : j < k => s[j + 1] = <<c.key[q[j]], c.val[q[j]]>>
                BY <1>1, UsesFacts
            <4>2. /\ Len(r) = k
                  /\ \A j \in Nat : j < k => r[j + 1] = <<b.key[q[j]], b.val[q[j]]>>
                BY <3>3, <3>5, UsesFacts
            <4>3. /\ \A j \in Nat : j < k => q[j] \in Entry
                  /\ \A a, j \in Nat : a < k /\ j < k /\ q[a] = q[j] => a = j
                BY <1>1, CachedFacts
            <4>4. ASSUME NEW a \in 1..k, a # i + 1 PROVE s[a] = r[a]
                <5>1. PICK j \in Nat : j = a - 1 /\ j < k /\ j + 1 = a /\ j # i
                    BY <4>1, <4>4
                <5>2. q[j] \in Entry /\ q[j] # e
                    BY <2>1, <4>3, <5>1
                <5>3. s[a] = <<c.key[q[j]], c.val[q[j]]>>
                    BY <4>1, <5>1
                <5>4. r[a] = <<b.key[q[j]], b.val[q[j]]>>
                    BY <4>2, <5>1
                <5>. QED  BY <3>3, <5>2, <5>3, <5>4
            <4>5. /\ t \in Seq(Pair) /\ Len(t) = k - 1 /\ i + 1 \in 1..k
                  /\ \A a \in 1..(k - 1) : t[a] = IF a < i + 1 THEN r[a] ELSE r[a + 1]
                BY <3>6, <4>2 DEF IsLess
            <4>6. ASSUME NEW a \in 1..(k - 1) PROVE t[a] = IF a < i + 1 THEN s[a] ELSE s[a + 1]
                <5>1. CASE a < i + 1
                    <6>1. a \in 1..k /\ a # i + 1
                        BY <4>1, <5>1
                    <6>. QED  BY <4>4, <4>5, <5>1, <6>1
                <5>2. CASE ~(a < i + 1)
                    <6>1. a + 1 \in 1..k /\ a + 1 # i + 1
                        BY <4>1, <5>2
                    <6>. QED  BY <4>4, <4>5, <5>2, <6>1
                <5>. QED  BY <5>1, <5>2
            <4>. QED  BY <4>1, <4>5, <4>6 DEF IsLess
        <3>9. Less(s, x) = t
            BY <2>2, <3>8, LessIs
        <3>10. <<<<x, v>>>> \o Less(s, x) = Uses(d, w, k)
            BY <3>6, <3>7, <3>9, FrontIs
        <3>11. d.size = k
            BY <1>1, <3>3, <3>4 DEF SameData
        <3>. QED  BY <1>1, <2>1, <3>1, <3>4, <3>10, <3>11 DEF Lru, Valued
    <2>. QED  BY <1>3, <1>5, <2>2, <2>4, <2>5
<1>. QED  BY <1>4, <1>5

\* The entry of a key, taken out and put on free_list_.
LEMMA LruRemoves ==
    ASSUME NEW c, NEW gone, NEW s, Lru(c, gone, s), NEW x \in Key,
           NEW f, f = find_entry(c, x), f.entry # Nil,
           NEW d, d = hash_unlink(lru_unlink(destroy_entry(c, f.entry), f.entry), hash(x), f.entry, f.prev)
    PROVE  Lru([release_entry(d, f.entry) EXCEPT !.size = @ - 1], gone, Less(s, x))
<1>1. PICK home, q, k : Cached(c, home, q, k) /\ k = c.size /\ Gone(home) = gone /\ s = Uses(c, q, k)
    BY DEF Lru
<1>2. PICK n : n = f.entry
    OBVIOUS
<1>3. PICK i \in Nat : /\ i < k /\ q[i] = n /\ c.key[q[i]] = x /\ home[n] = hash(x)
                       /\ Ahead(c, home, n, f.prev)
    <2>1. \/ f.entry = Nil /\ \A i \in Nat : i < k => c.key[q[i]] # x
          \/ /\ f.entry # Nil /\ c.key[f.entry] = x /\ home[f.entry] = hash(x)
             /\ Ahead(c, home, f.entry, f.prev)
             /\ \E i \in Nat : i < k /\ q[i] = f.entry
        BY ONLY <1>1, x \in Key, f = find_entry(c, x), FindIs
    <2>. QED  BY <1>2, <2>1
<1>4. PICK h, w, l : h = [home EXCEPT ![n] = Away] /\ w = Without(q, i) /\ l = k - 1
    OBVIOUS
<1>5. Cached(d, h, w, l) /\ d.size = c.size /\ \A y \in Entry : y # n => d.key[y] = c.key[y] /\ d.val[y] = c.val[y]
    <2>1. Drops(c, home, q, i, f.prev, d, h, w)
        BY <1>2, <1>3, <1>4 DEF Drops
    <2>2. Cached(d, h, w, k - 1) /\ d.size = c.size
          /\ \A y \in Entry : y # q[i] => d.key[y] = c.key[y] /\ d.val[y] = c.val[y]
        BY ONLY <1>1, <1>3, <2>1, DropIs
    <2>. QED  BY <1>3, <1>4, <2>2
<1>6. PICK e, g : e = release_entry(d, n) /\ g = [h EXCEPT ![n] = Buckets]
    OBVIOUS
<1>7. n \in Entry /\ home \in [Entry -> Threads \cup {Away}] /\ home[n] # Away
    BY <1>1, <1>3, CachedFacts
<1>8. h[n] = Away /\ g[n] = Buckets /\ \A y \in Entry : y # n => g[y] = home[y]
    BY <1>4, <1>6, <1>7
<1>9. Cached(e, g, w, l) /\ SameData(d, e)
    BY ONLY <1>5, <1>6, <1>7, <1>8, ReleaseIs
<1>10. PICK z : z = Sized(e, c.size - 1)
    OBVIOUS
<1>11. Cached(z, g, w, l) /\ z.size = c.size - 1 /\ z.key = e.key /\ z.val = e.val
    BY ONLY <1>9, <1>10, SizeIs
<1>12. \A y \in Entry : y # q[i] => z.key[y] = c.key[y] /\ z.val[y] = c.val[y]
    BY <1>3, <1>5, <1>9, <1>11 DEF SameData
<1>13. IsLess(Uses(z, w, l), s, i + 1)
    BY <1>1, <1>3, <1>4, <1>11, <1>12, UsesCut
<1>14. Less(s, x) = Uses(z, w, l)
    <2>1. At(s, x) = {i + 1}
        BY <1>1, <1>3, AtIs
    <2>. QED  BY <1>13, <2>1, LessIs
<1>15. Gone(g) = gone
    BY <1>1, <1>7, <1>8, ThreadNotAway DEF Gone
<1>16. z = [release_entry(d, f.entry) EXCEPT !.size = @ - 1] /\ z.size = l
    <2>1. e.size = c.size
        BY <1>5, <1>9 DEF SameData
    <2>. QED  BY <1>1, <1>2, <1>4, <1>6, <1>10, <1>11, <2>1 DEF Sized
<1>. QED  BY <1>11, <1>14, <1>15, <1>16 DEF Lru

\* The entry used last is taken out and is on no list.
AllButLast(t, s) == t = SubSeq(s, 1, Len(s) - 1) /\ \A x : At(s, x) = {} => At(t, x) = {}

LEMMA LruEvicts ==
    ASSUME NEW c, NEW gone, NEW s, Lru(c, gone, s), NEW n, n = c.tail, n # Nil, NEW d, d = evicted(c)
    PROVE  \E t : Lru(d, gone \cup {n}, t) /\ n \in Entry /\ n \notin gone /\ AllButLast(t, s)
<1>1. PICK home, q, k : Cached(c, home, q, k) /\ k = c.size /\ Gone(home) = gone /\ s = Uses(c, q, k)
    BY DEF Lru
<1>2. /\ k \in Nat /\ c.tail = Before(q, k) /\ home \in [Entry -> Threads \cup {Away}]
      /\ \A i \in Nat : i < k => /\ q[i] \in Entry /\ c.key[q[i]] \in Key /\ home[q[i]] # Away
                                 /\ home[q[i]] = hash(c.key[q[i]])
      /\ \A i, j \in Nat : i < k /\ j < k /\ c.key[q[i]] = c.key[q[j]] => i = j
    BY <1>1, CachedFacts
<1>3. PICK i \in Nat : i = k - 1 /\ i < k /\ i + 1 = k /\ q[i] = n
    <2>1. k # 0
        BY <1>2 DEF Before
    <2>. QED  BY <1>2, <2>1 DEF Before
<1>4. PICK x \in Key : x = c.key[n]
    BY <1>2, <1>3
<1>5. n \in Entry /\ home[n] # Away /\ home[n] = hash(x)
    BY <1>2, <1>3, <1>4
<1>6. PICK f : f = find_entry(c, x)
    OBVIOUS
<1>7. f.entry = n /\ Ahead(c, home, n, f.prev)
    <2>1. \/ f.entry = Nil /\ \A j \in Nat : j < k => c.key[q[j]] # x
          \/ /\ f.entry # Nil /\ c.key[f.entry] = x /\ home[f.entry] = hash(x)
             /\ Ahead(c, home, f.entry, f.prev)
             /\ \E j \in Nat : j < k /\ q[j] = f.entry
        BY ONLY <1>1, <1>6, x \in Key, FindIs
    <2>2. PICK j \in Nat : j < k /\ q[j] = f.entry /\ c.key[q[j]] = x
        BY <1>3, <1>4, <2>1
    <2>3. j = i
        BY <1>2, <1>3, <1>4, <2>2
    <2>. QED  BY <1>3, <1>4, <2>1, <2>2, <2>3
<1>8. PICK b, h, w, l : /\ b = hash_unlink(lru_unlink(destroy_entry(c, n), n), hash(x), n, f.prev)
                        /\ h = [home EXCEPT ![n] = Away] /\ w = Without(q, i) /\ l = k - 1
    OBVIOUS
<1>9. Cached(b, h, w, l) /\ b.size = c.size /\ \A y \in Entry : y # n => b.key[y] = c.key[y] /\ b.val[y] = c.val[y]
    <2>1. Drops(c, home, q, i, f.prev, b, h, w)
        BY <1>3, <1>5, <1>7, <1>8 DEF Drops
    <2>2. Cached(b, h, w, k - 1) /\ b.size = c.size
          /\ \A y \in Entry : y # q[i] => b.key[y] = c.key[y] /\ b.val[y] = c.val[y]
        BY ONLY <1>1, <1>3, <2>1, DropIs
    <2>. QED  BY <1>3, <1>8, <2>2
<1>10. d = Sized(b, b.size - 1)
    <2>1. PICK y : y = hash_unlink(lru_unlink(destroy_entry(c, n), n), hash(c.key[n]), n,
                                   find_entry(c, c.key[n]).prev)
        OBVIOUS
    <2>2. d = [y EXCEPT !.size = @ - 1]
        BY <2>1 DEF evicted
    <2>3. y = b
        BY <1>4, <1>6, <1>8, <2>1
    <2>. QED  BY <2>2, <2>3 DEF Sized
<1>11. Cached(d, h, w, l) /\ d.size = l /\ d.key = b.key /\ d.val = b.val
    <2>1. Cached(d, h, w, l) /\ d.size = b.size - 1 /\ d.key = b.key /\ d.val = b.val
        BY ONLY <1>9, <1>10, SizeIs
    <2>. QED  BY <1>1, <1>8, <1>9, <2>1
<1>12. \A y \in Entry : y # q[i] => d.key[y] = c.key[y] /\ d.val[y] = c.val[y]
    BY <1>3, <1>9, <1>11
<1>13. IsLess(Uses(d, w, l), s, i + 1)
    BY <1>1, <1>3, <1>8, <1>11, <1>12, UsesCut
<1>14. Len(s) = k /\ s \in Seq(Pair)
    BY <1>1, UsesFacts
<1>15. PICK t : t = SubSeq(s, 1, Len(s) - 1) /\ t = Uses(d, w, l)
    <2>1. i + 1 = Len(s)
        BY <1>3, <1>14
    <2>. QED  BY <1>13, <2>1, LessIs
<1>16. Gone(h) = gone \cup {n}
    BY <1>1, <1>2, <1>5, <1>8 DEF Gone
<1>17. n \notin gone
    BY <1>1, <1>5 DEF Gone
<1>18. ASSUME NEW y, At(s, y) = {} PROVE At(t, y) = {}
    <2>1. Len(t) = k - 1 /\ \A a \in 1..(k - 1) : t[a] = IF a < k THEN s[a] ELSE s[a + 1]
        BY <1>3, <1>13, <1>14, <1>15 DEF IsLess
    <2>2. \A a \in 1..k : s[a][1] # y
        BY <1>14, <1>18 DEF At
    <2>3. ASSUME NEW a \in 1..(k - 1) PROVE t[a][1] # y
        <3>1. a \in 1..k /\ a < k
            BY <1>2
        <3>. QED  BY <2>1, <2>2, <3>1
    <2>. QED  BY <2>1, <2>3 DEF At
<1>19. AllButLast(t, s)
    BY <1>15, <1>18 DEF AllButLast
<1>20. Lru(d, gone \cup {n}, t)
    BY <1>11, <1>15, <1>16 DEF Lru
<1>. QED  BY <1>5, <1>17, <1>19, <1>20

\* acquire_entry and release_entry leave the elements alone.
LEMMA LruAcquires ==
    ASSUME NEW c, NEW gone, NEW s, Lru(c, gone, s), NEW n, n = c.free, n # Nil,
           NEW d, d = Popped(c)
    PROVE  Lru(d, gone \cup {n}, s) /\ n \in Entry /\ n \notin gone
<1>1. PICK home, q, k : Cached(c, home, q, k) /\ k = c.size /\ Gone(home) = gone /\ s = Uses(c, q, k)
    BY DEF Lru
<1>2. PICK h : h = [home EXCEPT ![n] = Away]
    OBVIOUS
<1>3. n \in Entry /\ home[n] = Buckets /\ Cached(d, h, q, k) /\ SameData(c, d)
    BY ONLY <1>1, <1>2, n = c.free, n # Nil, d = Popped(c), AcquireIs
<1>4. home \in [Entry -> Threads \cup {Away}]
    BY <1>1, CachedFacts
<1>5. Gone(h) = gone \cup {n} /\ n \notin gone
    BY <1>1, <1>2, <1>3, <1>4, ThreadNotAway DEF Gone
<1>6. s = Uses(d, q, k) /\ d.size = k
    BY <1>1, <1>3 DEF Uses, SameData
<1>. QED  BY <1>3, <1>5, <1>6 DEF Lru

LEMMA LruReleases ==
    ASSUME NEW c, NEW gone, NEW s, Lru(c, gone, s), NEW n \in gone, NEW d, d = release_entry(c, n)
    PROVE  Lru(d, gone \ {n}, s)
<1>1. PICK home, q, k : Cached(c, home, q, k) /\ k = c.size /\ Gone(home) = gone /\ s = Uses(c, q, k)
    BY DEF Lru
<1>2. PICK h : h = [home EXCEPT ![n] = Buckets]
    OBVIOUS
<1>3. n \in Entry /\ home[n] = Away
    BY <1>1 DEF Gone
<1>4. Cached(d, h, q, k) /\ SameData(c, d)
    BY ONLY <1>1, <1>2, <1>3, d = release_entry(c, n), ReleaseIs
<1>5. home \in [Entry -> Threads \cup {Away}]
    BY <1>1, CachedFacts
<1>6. Gone(h) = gone \ {n}
    BY <1>1, <1>2, <1>3, <1>5, ThreadNotAway DEF Gone
<1>7. s = Uses(d, q, k) /\ d.size = k
    BY <1>1, <1>4 DEF Uses, SameData
<1>. QED  BY <1>4, <1>6, <1>7 DEF Lru

\* put constructs a new key in an entry on no list, and links it.
Entered(c, n, x, v) ==
    Sized(Joined(Filled(c, n, x, v), n, x), Joined(Filled(c, n, x, v), n, x).size + 1)

LEMMA LruEnters ==
    ASSUME NEW c, NEW gone, NEW s, Lru(c, gone, s), NEW n \in gone, NEW x \in Key, NEW v \in CacheValue,
           At(s, x) = {}, NEW d, d = Entered(c, n, x, v)
    PROVE  Lru(d, gone \ {n}, <<<<x, v>>>> \o s)
<1>1. PICK home, q, k : Cached(c, home, q, k) /\ k = c.size /\ Gone(home) = gone /\ s = Uses(c, q, k)
    BY DEF Lru
<1>2. n \in Entry /\ home[n] = Away
    BY <1>1 DEF Gone
<1>3. PICK e : e = Filled(c, n, x, v)
    OBVIOUS
<1>4. /\ Cached(e, home, q, k) /\ e.size = c.size /\ e.key[n] = x /\ e.val[n] = v
      /\ \A y \in Entry : y # n => e.key[y] = c.key[y] /\ e.val[y] = c.val[y]
    BY ONLY <1>1, <1>2, <1>3, x \in Key, v \in CacheValue, FillIs
<1>5. /\ k \in Nat /\ home \in [Entry -> Threads \cup {Away}]
      /\ \A i \in Nat : i < k => q[i] \in Entry /\ home[q[i]] # Away
    BY <1>1, CachedFacts
<1>6. \A i \in Nat : i < k => e.key[q[i]] = c.key[q[i]] /\ e.val[q[i]] = c.val[q[i]]
    BY <1>2, <1>4, <1>5
<1>7. ASSUME NEW i \in Nat, i < k PROVE c.key[q[i]] # x
    <2>1. SUFFICES ASSUME c.key[q[i]] = x PROVE FALSE
        OBVIOUS
    <2>2. At(s, x) = {i + 1}
        BY <1>1, <1>7, <2>1, AtIs
    <2>. QED  BY <2>2, At(s, x) = {}
<1>8. Outside(e, home, q, k, n, x)
    BY <1>2, <1>4, <1>6, <1>7 DEF Outside
<1>9. PICK l, h, w : l = Joined(e, n, x) /\ h = [home EXCEPT ![n] = hash(x)] /\ w = With(q, 0, n)
    OBVIOUS
<1>10. Cached(l, h, w, k + 1) /\ SameData(e, l)
    BY ONLY <1>4, <1>8, <1>9, x \in Key, LinkIs
<1>11. Cached(d, h, w, k + 1) /\ d.size = k + 1 /\ d.key = e.key /\ d.val = e.val
    <2>1. d = Sized(l, l.size + 1)
        BY <1>3, <1>9 DEF Entered
    <2>2. Cached(d, h, w, k + 1) /\ d.size = l.size + 1 /\ d.key = l.key /\ d.val = l.val
        BY ONLY <1>10, <2>1, SizeIs
    <2>. QED  BY <1>1, <1>4, <1>10, <2>2 DEF SameData
<1>12. Uses(d, w, k + 1) = <<<<x, v>>>> \o s
    <2>1. PICK y : y = <<d.key[n], d.val[n]>>
        OBVIOUS
    <2>2. \A i \in Nat : i < k => d.key[q[i]] = c.key[q[i]] /\ d.val[q[i]] = c.val[q[i]]
        BY <1>6, <1>11
    <2>3. Uses(d, w, k + 1) = <<y>> \o Uses(c, q, k)
        BY ONLY <1>1, <1>2, <1>9, <1>11, <2>1, <2>2, UsesPush
    <2>. QED  BY <1>1, <1>4, <1>11, <2>1, <2>3
<1>13. Gone(h) = gone \ {n}
    <2>1. hash(x) # Away
        BY HashIs
    <2>. QED  BY <1>1, <1>2, <1>5, <1>9, <2>1 DEF Gone
<1>. QED  BY <1>11, <1>12, <1>13 DEF Lru

\* clear leaves no element.
LEMMA LruClears ==
    ASSUME NEW c, NEW gone, NEW s, Lru(c, gone, s), NEW r \in clear(c)
    PROVE  Lru(r.core, gone \cup r.lost, <<>>)
<1>1. PICK home, q, k : Cached(c, home, q, k) /\ k = c.size /\ Gone(home) = gone /\ s = Uses(c, q, k)
    BY DEF Lru
<1>2. PICK d : d = IF k = 0 THEN c ELSE chains_cleared(c)
    OBVIOUS
<1>3. r.core = d /\ r.lost = {}
    BY <1>1, <1>2 DEF clear, Result
<1>4. \E h, w : Cached(d, h, w, 0) /\ d.size = 0 /\ Gone(h) = gone
    <2>1. CASE k = 0
        BY <1>1, <1>2, <2>1
    <2>2. CASE k # 0
        <3>1. d = chains_cleared(c)
            BY <1>2, <2>2
        <3>2. \E h, w : Cached(d, h, w, 0) /\ d.size = 0 /\ Gone(h) = Gone(home)
            BY ONLY <1>1, <3>1, ClearIs
        <3>. QED  BY <1>1, <3>2
    <2>. QED  BY <2>1, <2>2
<1>5. \A w : Uses(d, w, 0) = <<>>
    BY DEF Uses
<1>. QED  BY <1>3, <1>4, <1>5 DEF Lru

\* What a call makes of the elements.
LEMMA TouchIs ==
    ASSUME NEW c, NEW gone, NEW s, Lru(c, gone, s), NEW x \in Key, NEW r \in touch(c, x)
    PROVE  Lru(r.core, gone \cup r.lost, IF r.st = "ok" THEN Moved(s, x) ELSE s)
<1>1. PICK e, p : e = find_entry(c, x).entry /\ p = promote(c, e)
    OBVIOUS
<1>2. e # Nil => Lru(p, gone, Moved(s, x))
    BY ONLY <1>1, Lru(c, gone, s), x \in Key, LruPromotes
<1>3. touch(c, x) = IF e = Nil THEN {Result("not_found", c)} ELSE {Result("ok", p)}
    BY <1>1 DEF touch
<1>4. CASE e = Nil
    <2>1. r.core = c /\ r.lost = {} /\ r.st # "ok"
        BY <1>3, <1>4 DEF Result
    <2>2. gone \cup r.lost = gone
        BY <2>1
    <2>. QED  BY <2>1, <2>2
<1>5. CASE e # Nil
    <2>1. r.core = p /\ r.lost = {} /\ r.st = "ok"
        BY <1>3, <1>5 DEF Result
    <2>2. gone \cup r.lost = gone
        BY <2>1
    <2>. QED  BY <1>2, <1>5, <2>1, <2>2
<1>. QED  BY <1>4, <1>5

LEMMA GetIs ==
    ASSUME NEW c, NEW gone, NEW s, Lru(c, gone, s), NEW x \in Key, NEW r \in get(c, x)
    PROVE  /\ Lru(r.core, gone \cup r.lost, IF r.st = "ok" THEN Moved(s, x) ELSE s)
           /\ IF r.st = "ok" THEN c.key[r.entry] = x ELSE r.st = "copy" \/ At(s, x) = {}
<1>1. PICK e, p : e = find_entry(c, x).entry /\ p = promote(c, e)
    OBVIOUS
<1>2. /\ e # Nil => Lru(p, gone, Moved(s, x)) /\ c.key[e] = x
      /\ e = Nil => At(s, x) = {}
    BY ONLY <1>1, Lru(c, gone, s), x \in Key, LruPromotes
<1>3. get(c, x) = IF e = Nil THEN {Result("not_found", c)}
                  ELSE {Result("copy", c), [Result("ok", p) EXCEPT !.entry = e]}
    BY <1>1 DEF get
<1>4. CASE e = Nil
    <2>1. r.core = c /\ r.lost = {} /\ r.st # "ok"
        BY <1>3, <1>4 DEF Result
    <2>2. gone \cup r.lost = gone
        BY <2>1
    <2>. QED  BY <1>2, <1>4, <2>1, <2>2
<1>5. CASE e # Nil /\ r = Result("copy", c)
    <2>1. r.core = c /\ r.lost = {} /\ r.st = "copy"
        BY <1>5 DEF Result
    <2>2. gone \cup r.lost = gone
        BY <2>1
    <2>. QED  BY <2>1, <2>2
<1>6. CASE e # Nil /\ r = [Result("ok", p) EXCEPT !.entry = e]
    <2>1. r.core = p /\ r.lost = {} /\ r.st = "ok" /\ r.entry = e
        BY <1>6 DEF Result
    <2>2. gone \cup r.lost = gone
        BY <2>1
    <2>. QED  BY <1>2, <1>6, <2>1, <2>2
<1>. QED  BY <1>3, <1>4, <1>5, <1>6

LEMMA RemoveIs ==
    ASSUME NEW c, NEW gone, NEW s, Lru(c, gone, s), NEW x \in Key, NEW r \in remove(c, x)
    PROVE  Lru(r.core, gone \cup r.lost, IF r.st = "ok" THEN Less(s, x) ELSE s)
<1>1. PICK f : f = find_entry(c, x)
    OBVIOUS
<1>2. PICK d : d = hash_unlink(lru_unlink(destroy_entry(c, f.entry), f.entry), hash(x), f.entry, f.prev)
    OBVIOUS
<1>3. PICK g : g = [release_entry(d, f.entry) EXCEPT !.size = @ - 1]
    OBVIOUS
<1>4. f.entry # Nil => Lru(g, gone, Less(s, x))
    BY ONLY <1>1, <1>2, <1>3, Lru(c, gone, s), x \in Key, LruRemoves
<1>5. remove(c, x) = IF f.entry = Nil THEN {Result("not_found", c)} ELSE {Result("ok", g)}
    BY <1>1, <1>2, <1>3 DEF remove
<1>6. CASE f.entry = Nil
    <2>1. r.core = c /\ r.lost = {} /\ r.st # "ok"
        BY <1>5, <1>6 DEF Result
    <2>2. gone \cup r.lost = gone
        BY <2>1
    <2>. QED  BY <2>1, <2>2
<1>7. CASE f.entry # Nil
    <2>1. r.core = g /\ r.lost = {} /\ r.st = "ok"
        BY <1>5, <1>7 DEF Result
    <2>2. gone \cup r.lost = gone
        BY <2>1
    <2>. QED  BY <1>4, <1>7, <2>1, <2>2
<1>. QED  BY <1>6, <1>7

\* put on a key that is there.
LEMMA PutReplaces ==
    ASSUME NEW c, NEW gone, NEW s, Lru(c, gone, s), NEW x \in Key, NEW v \in CacheValue,
           At(s, x) # {}, NEW r \in put(c, x, v)
    PROVE  Lru(r.core, gone \cup r.lost, IF r.st = "ok" THEN <<<<x, v>>>> \o Less(s, x) ELSE s)
<1>1. PICK e, p : e = find_entry(c, x).entry /\ p = promote([c EXCEPT !.val[e] = v], e)
    OBVIOUS
<1>2. /\ e # Nil => Lru(p, gone, <<<<x, v>>>> \o Less(s, x))
      /\ e = Nil => At(s, x) = {}
    BY ONLY <1>1, Lru(c, gone, s), x \in Key, v \in CacheValue, LruPromotes
<1>3. e # Nil
    BY <1>2
<1>4. r \in {Result("copy", c), Result("ok", p)}
    BY <1>1, <1>3 DEF put
<1>5. CASE r = Result("copy", c)
    <2>1. r.core = c /\ r.lost = {} /\ r.st = "copy"
        BY <1>5 DEF Result
    <2>2. gone \cup r.lost = gone
        BY <2>1
    <2>. QED  BY <2>1, <2>2
<1>6. CASE r = Result("ok", p)
    <2>1. r.core = p /\ r.lost = {} /\ r.st = "ok"
        BY <1>6 DEF Result
    <2>2. gone \cup r.lost = gone
        BY <2>1
    <2>. QED  BY <1>2, <1>3, <2>1, <2>2
<1>. QED  BY <1>4, <1>5, <1>6


\* What put does for a key that is not there.
Prepared(c, n, d, x, v) ==
    IF c.free = Nil /\ (c.size < Capacity \/ c.tail = Nil) THEN {Result("full", c)}
    ELSE {IF c.free # Nil THEN Result("copy", release_entry(d, n)) ELSE Losing("copy", d, n),
          Acquired(n, Filled(d, n, x, v))}

LEMMA PrepareForm ==
    ASSUME NEW c, NEW x, NEW v
    PROVE  prepare_entry(c, x, v) = IF c.free # Nil THEN Prepared(c, c.free, Popped(c), x, v)
                                    ELSE Prepared(c, c.tail, evicted(c), x, v)
<1>1. CASE c.free = Nil
    <2>1. acquire_entry(c).entry = Nil
        BY <1>1 DEF acquire_entry, Acquired, Result
    <2>. QED  BY <1>1, <2>1 DEF prepare_entry, Prepared, Filled
<1>2. CASE c.free # Nil
    <2>1. acquire_entry(c).entry = c.free /\ acquire_entry(c).core = Popped(c)
        BY <1>2 DEF acquire_entry, Acquired, Result, Popped
    <2>. QED  BY <1>2, <2>1 DEF prepare_entry, Prepared, Filled
<1>. QED  BY <1>1, <1>2

LEMMA PutForm ==
    ASSUME NEW c, NEW x, NEW v, find_entry(c, x).entry = Nil, NEW r \in put(c, x, v),
           NEW n, NEW d, prepare_entry(c, x, v) = Prepared(c, n, d, x, v)
    PROVE  IF c.free = Nil /\ (c.size < Capacity \/ c.tail = Nil) THEN r = Result("full", c)
           ELSE \/ r = IF c.free # Nil THEN Result("copy", release_entry(d, n)) ELSE Losing("copy", d, n)
                \/ r = Result("ok", Entered(d, n, x, v))
<1> DEFINE Link(a, b) == [lru_push_front([a EXCEPT !.hash_next[b] = a.bucket[hash(x)],
                                                   !.bucket[hash(x)] = b], b) EXCEPT !.size = @ + 1]
<1>1. put(c, x, v) = {IF p.st = "ok" THEN Result("ok", Link(p.core, p.entry)) ELSE p : p \in prepare_entry(c, x, v)}
    BY DEF put
<1>2. PICK p \in Prepared(c, n, d, x, v) : r = IF p.st = "ok" THEN Result("ok", Link(p.core, p.entry)) ELSE p
    BY <1>1
<1>3. Link(Filled(d, n, x, v), n) = Entered(d, n, x, v)
    BY DEF Entered, Joined, Sized
<1> HIDE DEF Link
<1>4. CASE c.free = Nil /\ (c.size < Capacity \/ c.tail = Nil)
    <2>1. p = Result("full", c)
        BY <1>2, <1>4 DEF Prepared
    <2>2. p.st = "full"
        BY <2>1 DEF Result
    <2>. QED  BY <1>2, <1>4, <2>1, <2>2
<1>5. CASE ~(c.free = Nil /\ (c.size < Capacity \/ c.tail = Nil))
    <2>1. CASE p = IF c.free # Nil THEN Result("copy", release_entry(d, n)) ELSE Losing("copy", d, n)
        <3>1. p.st = "copy"
            BY <2>1 DEF Result, Losing
        <3>. QED  BY <1>2, <1>5, <2>1, <3>1
    <2>2. CASE p = Acquired(n, Filled(d, n, x, v))
        <3>1. p.st = "ok" /\ p.core = Filled(d, n, x, v) /\ p.entry = n
            BY <2>2 DEF Acquired, Result
        <3>. QED  BY <1>2, <1>3, <1>5, <3>1
    <2>. QED  BY <1>5, <2>1, <2>2 DEF Prepared
<1>. QED  BY <1>4, <1>5

\* put on a key that is not there: room is what is left when the list had to give one up.
Room(s, gone) == IF Len(s) + Cardinality(gone) = Capacity THEN SubSeq(s, 1, Len(s) - 1) ELSE s
Adds(r, c, gone, x, v, room) ==
    \/ r.st = "ok" /\ Lru(r.core, gone \cup r.lost, <<<<x, v>>>> \o room)
    \/ r.st = "copy" /\ Lru(r.core, gone \cup r.lost, room)
    \/ r.st = "full" /\ gone # {} /\ r.core = c /\ r.lost = {}

LEMMA PutAdds ==
    ASSUME NEW c, NEW gone, NEW s, Lru(c, gone, s), NEW x \in Key, NEW v \in CacheValue,
           At(s, x) = {}, NEW r \in put(c, x, v),
           NEW room, room = Room(s, gone)
    PROVE  Adds(r, c, gone, x, v, room)
<1>1. find_entry(c, x).entry = Nil
    <2>1. PICK e : e = find_entry(c, x).entry
        OBVIOUS
    <2>2. e # Nil => At(s, x) # {}
        BY ONLY <2>1, Lru(c, gone, s), x \in Key, LruPromotes
    <2>. QED  BY <2>1, <2>2, At(s, x) = {}
<1>2. /\ Cardinality(gone) \in Nat
      /\ c.free = Nil => Len(s) + Cardinality(gone) = Capacity
      /\ c.free # Nil => Len(s) + Cardinality(gone) < Capacity
      /\ c.tail = Nil => Len(s) = 0
    BY ONLY Lru(c, gone, s), LruCounts
<1>3. Len(s) = c.size /\ c.size \in Nat /\ gone \in SUBSET Entry
    BY ONLY Lru(c, gone, s), LruShows
<1>4. CASE c.free # Nil
    <2>1. PICK n, d : n = c.free /\ d = Popped(c)
        OBVIOUS
    <2>2. Lru(d, gone \cup {n}, s) /\ n \in Entry /\ n \notin gone
        BY ONLY <1>4, <2>1, Lru(c, gone, s), LruAcquires
    <2>3. room = s
        BY <1>2, <1>3, <1>4 DEF Room
    <2>4. prepare_entry(c, x, v) = Prepared(c, n, d, x, v)
        BY <1>4, <2>1, PrepareForm
    <2>5. \/ r = Result("copy", release_entry(d, n))
          \/ r = Result("ok", Entered(d, n, x, v))
        BY <1>1, <1>4, <2>4, PutForm
    <2>6. PICK more : more = gone \cup {n}
        OBVIOUS
    <2>7. more \ {n} = gone /\ n \in more
        BY <2>2, <2>6
    <2>8. CASE r = Result("copy", release_entry(d, n))
        <3>1. PICK e : e = release_entry(d, n)
            OBVIOUS
        <3>2. Lru(e, more \ {n}, s)
            BY ONLY <2>2, <2>6, <2>7, <3>1, LruReleases
        <3>3. r.st = "copy" /\ r.core = e /\ gone \cup r.lost = more \ {n}
            BY <2>7, <2>8, <3>1 DEF Result
        <3>. QED  BY <2>3, <3>2, <3>3 DEF Adds
    <2>9. CASE r = Result("ok", Entered(d, n, x, v))
        <3>1. PICK e : e = Entered(d, n, x, v)
            OBVIOUS
        <3>2. Lru(e, more \ {n}, <<<<x, v>>>> \o s)
            BY ONLY <2>2, <2>6, <2>7, <3>1, x \in Key, v \in CacheValue, At(s, x) = {}, LruEnters
        <3>3. r.st = "ok" /\ r.core = e /\ gone \cup r.lost = more \ {n}
            BY <2>7, <2>9, <3>1 DEF Result
        <3>. QED  BY <2>3, <3>2, <3>3 DEF Adds
    <2>. QED  BY <2>5, <2>8, <2>9
<1>5. CASE c.free = Nil /\ (c.size < Capacity \/ c.tail = Nil)
    <2>1. PICK n, d : n = c.tail /\ d = evicted(c)
        OBVIOUS
    <2>2. prepare_entry(c, x, v) = Prepared(c, n, d, x, v)
        BY <1>5, <2>1, PrepareForm
    <2>3. r = Result("full", c)
        BY <1>1, <1>5, <2>2, PutForm
    <2>4. r.st = "full" /\ r.core = c /\ r.lost = {}
        BY <2>3 DEF Result
    <2>5. gone # {}
        <3>1. SUFFICES ASSUME gone = {} PROVE FALSE
            OBVIOUS
        <3>2. Cardinality(gone) = 0
            BY <3>1, FS_EmptySet
        <3>3. Len(s) = Capacity
            BY <1>2, <1>3, <1>5, <3>2
        <3>4. Capacity \in Nat /\ Capacity # 0
            BY LruConstants
        <3>. QED  BY <1>2, <1>3, <1>5, <3>3, <3>4
    <2>. QED  BY <2>4, <2>5 DEF Adds
<1>6. CASE c.free = Nil /\ ~(c.size < Capacity \/ c.tail = Nil)
    <2>1. PICK n, d : n = c.tail /\ d = evicted(c)
        OBVIOUS
    <2>2. PICK t : Lru(d, gone \cup {n}, t) /\ n \in Entry /\ n \notin gone /\ AllButLast(t, s)
        <3>1. n # Nil
            BY <1>6, <2>1
        <3>. QED  BY ONLY <2>1, <3>1, Lru(c, gone, s), LruEvicts
    <2>3. t = SubSeq(s, 1, Len(s) - 1) /\ Lru(d, gone \cup {n}, t) /\ At(t, x) = {}
        BY <2>2, At(s, x) = {} DEF AllButLast
    <2>4. room = t
        BY <1>2, <1>6, <2>3 DEF Room
    <2>5. prepare_entry(c, x, v) = Prepared(c, n, d, x, v)
        BY <1>6, <2>1, PrepareForm
    <2>6. \/ r = Losing("copy", d, n)
          \/ r = Result("ok", Entered(d, n, x, v))
        BY <1>1, <1>6, <2>5, PutForm
    <2>7. PICK more : more = gone \cup {n}
        OBVIOUS
    <2>8. more \ {n} = gone /\ n \in more
        BY <2>2, <2>7
    <2>9. CASE r = Losing("copy", d, n)
        <3>1. r.st = "copy" /\ r.core = d /\ r.lost = {n}
            BY <2>9 DEF Losing, Result
        <3>. QED  BY <2>3, <2>4, <3>1 DEF Adds
    <2>10. CASE r = Result("ok", Entered(d, n, x, v))
        <3>1. PICK e : e = Entered(d, n, x, v)
            OBVIOUS
        <3>2. Lru(e, more \ {n}, <<<<x, v>>>> \o t)
            BY ONLY <2>3, <2>7, <2>8, <3>1, x \in Key, v \in CacheValue, LruEnters
        <3>3. r.st = "ok" /\ r.core = e /\ gone \cup r.lost = more \ {n}
            BY <2>8, <2>10, <3>1 DEF Result
        <3>. QED  BY <2>4, <3>2, <3>3 DEF Adds
    <2>. QED  BY <2>6, <2>9, <2>10
<1>. QED  BY <1>4, <1>5, <1>6


-----------------------------------------------------------------------------
(***************************************************************************)
(* The LRU cache: the invariant and what it shows                          *)
(***************************************************************************)

\* The core is in order, and the entries on none of its lists are the lost ones.
LruGood == \E s : Lru(cache, lost, s)

LEMMA LruStarts == LruInit => LruGood
<1>1. SUFFICES ASSUME LruInit PROVE LruGood
    OBVIOUS
<1>2. PICK h, w : Cached(cache, h, w, 0) /\ Gone(h) = lost
    BY <1>1, EmptyIs DEF LruInit
<1>3. cache.size = 0
    BY <1>1 DEF LruInit, empty_cache
<1>. QED  BY <1>2, <1>3 DEF LruGood, Lru

\* Every outcome of a call leaves the core in order.
LruKeeps(results) == \A r \in results : \E t : Lru(r.core, lost \cup r.lost, t)

LEMMA LruCalls ==
    ASSUME LruGood, NEW x \in Key, NEW v \in CacheValue
    PROVE  /\ LruKeeps(get(cache, x)) /\ LruKeeps(touch(cache, x)) /\ LruKeeps(remove(cache, x))
           /\ LruKeeps(put(cache, x, v)) /\ LruKeeps(clear(cache))
<1>1. PICK s : Lru(cache, lost, s)
    BY DEF LruGood
<1>2. LruKeeps(get(cache, x))
    BY <1>1, GetIs DEF LruKeeps
<1>3. LruKeeps(touch(cache, x))
    BY <1>1, TouchIs DEF LruKeeps
<1>4. LruKeeps(remove(cache, x))
    BY <1>1, RemoveIs DEF LruKeeps
<1>5. LruKeeps(clear(cache))
    BY <1>1, LruClears DEF LruKeeps
<1>6. ASSUME NEW r \in put(cache, x, v) PROVE \E t : Lru(r.core, lost \cup r.lost, t)
    <2>1. CASE At(s, x) # {}
        <3>1. Lru(r.core, lost \cup r.lost, IF r.st = "ok" THEN <<<<x, v>>>> \o Less(s, x) ELSE s)
            BY <1>1, <2>1, PutReplaces
        <3>. QED  BY <3>1
    <2>2. CASE At(s, x) = {}
        <3>1. PICK c, gone, room : c = cache /\ gone = lost /\ room = Room(s, gone)
            OBVIOUS
        <3>2. Lru(c, gone, s) /\ r \in put(c, x, v)
            BY <1>1, <1>6, <3>1
        <3>2a. Adds(r, c, gone, x, v, room)
            BY ONLY <2>2, <3>1, <3>2, x \in Key, v \in CacheValue, PutAdds
        <3>3. CASE r.core = cache /\ r.lost = {}
            <4>1. lost \cup r.lost = lost
                BY <3>3
            <4>. QED  BY <1>1, <3>3, <4>1
        <3>. QED  BY <3>1, <3>2a, <3>3 DEF Adds
    <2>. QED  BY <2>1, <2>2
<1>. QED  BY <1>2, <1>3, <1>4, <1>5, <1>6 DEF LruKeeps

LEMMA LruStep == LruGood /\ [LruNext]_lruVars => LruGood'
<1>1. SUFFICES ASSUME LruGood, [LruNext]_lruVars PROVE LruGood'
    OBVIOUS
<1>2. ASSUME NEW results, LruKeeps(results), LruReturn(results) PROVE LruGood'
    BY <1>2 DEF LruKeeps, LruReturn, LruGood
<1>3. ASSUME NEW x \in Key, Get(x) \/ Touch(x) \/ Remove(x) PROVE LruGood'
    <2>1. LruKeeps(get(cache, x)) /\ LruKeeps(touch(cache, x)) /\ LruKeeps(remove(cache, x))
        <3>1. PICK s : Lru(cache, lost, s)
            BY <1>1 DEF LruGood
        <3>. QED  BY <3>1, GetIs, TouchIs, RemoveIs DEF LruKeeps
    <2>. QED  BY <1>2, <1>3, <2>1 DEF Get, Touch, Remove
<1>4. ASSUME NEW x \in Key, NEW v \in CacheValue, Put(x, v) PROVE LruGood'
    <2>1. LruKeeps(put(cache, x, v))
        BY <1>1, LruCalls
    <2>. QED  BY <1>2, <1>4, <2>1 DEF Put
<1>5. ASSUME ClearCache PROVE LruGood'
    <2>1. LruKeeps(clear(cache))
        <3>1. PICK s : Lru(cache, lost, s)
            BY <1>1 DEF LruGood
        <3>. QED  BY <3>1, LruClears DEF LruKeeps
    <2>. QED  BY <1>2, <1>5, <2>1 DEF ClearCache
<1>6. ASSUME UNCHANGED lruVars PROVE LruGood'
    BY <1>1, <1>6 DEF LruGood, lruVars
<1>. QED  BY <1>1, <1>3, <1>4, <1>5, <1>6 DEF LruNext

\* hash_next and the heads of the lists reach just the entries at home there.
HomeOf(home, t) == {n \in Entry : home[n] = t}

LEMMA ReachIs ==
    ASSUME NEW c, NEW home, NEW P, NEW K, Threaded(c.hash_next, Heads(c), home, P, K), NEW t \in Threads
    PROVE  Reach(c.hash_next, Heads(c)[t], Capacity) = HomeOf(home, t)
<1>1. PICK p, k : p = P[t] /\ k = K[t]
    OBVIOUS
<1>2. PICK next, start : next = c.hash_next /\ start = Heads(c)[t]
    OBVIOUS
<1>3. /\ Walk(next, start, p, k) /\ Distinct(p, k) /\ k \in Nat
      /\ \A i \in Nat : i < k => p[i] \in Entry /\ home[p[i]] = t
      /\ \A n \in Entry : home[n] = t => \E i \in Nat : i < k /\ p[i] = n
    BY <1>1, <1>2 DEF Threaded, OnThread, Walk
<1>4. Nodes(p, k) = {n \in Entry : home[n] = t}
    <2>1. \A i : i \in 0..(k - 1) <=> i \in Nat /\ i < k
        BY <1>3
    <2>. QED  BY <1>3, <2>1 DEF Nodes
<1>5. Capacity \in Nat /\ Capacity >= k
    <2>1. Cardinality(Nodes(p, k)) = k
        BY ONLY <1>3, WalkSize
    <2>2. Nodes(p, k) \in SUBSET Entry
        BY <1>4
    <2>3. Cardinality(Nodes(p, k)) <= Capacity
        BY ONLY <2>2, EntriesFinite
    <2>. QED  BY <1>3, <2>1, <2>3, EntryNotNil
<1>6. Reach(next, start, Capacity) = Nodes(p, k)
    BY ONLY <1>3, <1>5, WalkReach
<1>. QED  BY <1>2, <1>4, <1>6 DEF HomeOf

LEMMA LruAccounts == LruGood => EntriesAccounted
<1>1. SUFFICES ASSUME LruGood PROVE EntriesAccounted
    OBVIOUS
<1>2. PICK home, q, k : Cached(cache, home, q, k) /\ k = cache.size /\ Gone(home) = lost
    BY <1>1 DEF LruGood, Lru
<1>3. PICK P, K : Threaded(cache.hash_next, Heads(cache), home, P, K)
    BY <1>2 DEF Cached, HashLists
<1>4. \A t \in Threads : Reach(cache.hash_next, Heads(cache)[t], Capacity) = HomeOf(home, t)
    <2>1. PICK c : c = cache
        OBVIOUS
    <2>2. Threaded(c.hash_next, Heads(c), home, P, K)
        BY <1>3, <2>1
    <2>3. ASSUME NEW t \in Threads PROVE Reach(c.hash_next, Heads(c)[t], Capacity) = HomeOf(home, t)
        BY ONLY <2>2, <2>3, ReachIs
    <2>. QED  BY <2>1, <2>3
<1>5. 0..(Buckets - 1) \subseteq Threads /\ \A t \in Threads : t \in 0..(Buckets - 1) <=> t # Buckets
    BY EntryNotNil DEF Threads
<1>6. Buckets \in Threads /\ Buckets # Away /\ Away \notin Threads
    BY ThreadNotAway
<1>7. Free = {n \in Entry : home[n] = Buckets}
    BY <1>4, <1>6 DEF Free, Heads, HomeOf
<1>8. ASSUME NEW b \in 0..(Buckets - 1) PROVE Chained(b) = {n \in Entry : home[n] = b}
    <2>1. b \in Threads /\ b # Buckets
        BY <1>5
    <2>2. Heads(cache)[b] = cache.bucket[b]
        BY <2>1 DEF Heads
    <2>. QED  BY <1>4, <2>1, <2>2 DEF Chained, HomeOf
<1>9. /\ k \in Nat /\ home \in [Entry -> Threads \cup {Away}]
      /\ \A i \in Nat : i < k => /\ q[i] \in Entry /\ home[q[i]] # Buckets /\ home[q[i]] # Away
                                 /\ home[q[i]] = hash(cache.key[q[i]])
      /\ \A n \in Entry : home[n] # Buckets /\ home[n] # Away => \E i \in Nat : i < k /\ q[i] = n
    BY <1>2, CachedFacts
<1>10. Recent = Nodes(q, k) /\ Cardinality(Recent) = k
    <2>1. Walk(cache.lru_next, cache.head, q, k) /\ Distinct(q, k)
        BY <1>2 DEF Cached, Recency
    <2>2. Capacity \in Nat /\ Capacity >= k
        BY <1>2, <1>9, CacheCounts, EntryNotNil
    <2>3. /\ Reach(cache.lru_next, cache.head, Capacity) = Nodes(q, k)
          /\ Cardinality(Reach(cache.lru_next, cache.head, Capacity)) = k
        BY ONLY <2>1, <2>2, WalkReach
    <2>. QED  BY <2>3 DEF Recent
<1>11. Recent = {n \in Entry : home[n] # Buckets /\ home[n] # Away}
    <2>1. \A i : i \in 0..(k - 1) <=> i \in Nat /\ i < k
        BY <1>9
    <2>. QED  BY <1>9, <1>10, <2>1 DEF Nodes
<1>12. \A n \in Recent : n \in Entry /\ home[n] = hash(cache.key[n]) /\ home[n] \in 0..(Buckets - 1)
    <2>1. ASSUME NEW n \in Recent PROVE n \in Entry /\ home[n] = hash(cache.key[n]) /\ home[n] \in 0..(Buckets - 1)
        <3>1. n \in Entry /\ home[n] # Buckets /\ home[n] # Away
            BY <1>11
        <3>2. PICK i \in Nat : i < k /\ q[i] = n
            BY <1>9, <3>1
        <3>. QED  BY <1>5, <1>9, <3>1, <3>2
    <2>. QED  BY <2>1
<1>13. \A n \in Recent : {b \in 0..(Buckets - 1) : n \in Chained(b)} = {hash(cache.key[n])}
    BY <1>8, <1>12
<1>14. UNION {Chained(b) : b \in 0..(Buckets - 1)} = Recent
    <2>1. ASSUME NEW n \in Recent PROVE \E b \in 0..(Buckets - 1) : n \in Chained(b)
        BY <1>8, <1>12
    <2>2. ASSUME NEW b \in 0..(Buckets - 1), NEW n \in Chained(b) PROVE n \in Recent
        <3>1. b # Buckets /\ b # Away /\ n \in Entry /\ home[n] = b
            BY <1>5, <1>6, <1>8, <2>2
        <3>. QED  BY <1>11, <3>1
    <2>. QED  BY <2>1, <2>2
<1>15. lost = {n \in Entry : home[n] = Away}
    BY <1>2 DEF Gone
<1>16. Entry = Free \cup Recent \cup lost /\ Free \cap Recent = {} /\ lost \cap (Free \cup Recent) = {}
    BY ONLY <1>6, <1>7, <1>11, <1>15
<1>. QED  BY <1>2, <1>10, <1>13, <1>14, <1>16 DEF EntriesAccounted


\* The cases of ActsAsLru.
LruReads(s) ==
    \A x \in Key :
        /\ Cardinality(At(s, x)) <= 1
        /\ Showing(touch(cache, x), Moved(s, x), s)
        /\ Showing(get(cache, x), Moved(s, x), s)
        /\ \A r \in get(cache, x) : IF r.st = "ok" THEN cache.key[r.entry] = x
                                                   ELSE r.st = "copy" \/ At(s, x) = {}
        /\ Showing(remove(cache, x), Less(s, x), s)
LruWrites(s) ==
    \A x \in Key, v \in CacheValue :
        /\ At(s, x) # {} => Showing(put(cache, x, v), <<<<x, v>>>> \o Less(s, x), s)
        /\ At(s, x) = {} => \A r \in put(cache, x, v) :
             CASE r.st = "ok"   -> foreach_mru(r.core) = <<<<x, v>>>> \o Room(s, lost)
               [] r.st = "copy" -> foreach_mru(r.core) = Room(s, lost)
               [] r.st = "full" -> lost # {} /\ r.core = cache

LEMMA LruCases ==
    ASSUME NEW s, s = foreach_mru(cache), Backwards(foreach_lru(cache), s), LruReads(s), LruWrites(s)
    PROVE  ActsAsLru
BY ZenonT(40) DEF ActsAsLru, Backwards, LruReads, LruWrites, Room

LEMMA LruActs == LruGood => ActsAsLru
<1>1. SUFFICES ASSUME LruGood PROVE ActsAsLru
    OBVIOUS
<1>2. PICK s, c, gone : Lru(c, gone, s) /\ c = cache /\ gone = lost
    BY <1>1 DEF LruGood
<1>3. s = foreach_mru(cache) /\ Backwards(foreach_lru(cache), s) /\ \A x : Cardinality(At(s, x)) <= 1
    BY <1>2, LruShows
<1>4. ASSUME NEW d, NEW g, NEW t, Lru(d, g, t) PROVE foreach_mru(d) = t
    BY <1>4, LruShows
<1>5. ASSUME NEW x \in Key
      PROVE  /\ Showing(touch(c, x), Moved(s, x), s) /\ Showing(get(c, x), Moved(s, x), s)
             /\ Showing(remove(c, x), Less(s, x), s)
             /\ \A r \in get(c, x) : IF r.st = "ok" THEN c.key[r.entry] = x
                                                    ELSE r.st = "copy" \/ At(s, x) = {}
    <2>1. ASSUME NEW r \in touch(c, x) PROVE foreach_mru(r.core) = IF r.st = "ok" THEN Moved(s, x) ELSE s
        <3>1. PICK t : t = IF r.st = "ok" THEN Moved(s, x) ELSE s
            OBVIOUS
        <3>2. Lru(r.core, gone \cup r.lost, t)
            BY <1>2, <3>1, TouchIs
        <3>. QED  BY <1>4, <3>1, <3>2
    <2>2. ASSUME NEW r \in get(c, x) PROVE foreach_mru(r.core) = IF r.st = "ok" THEN Moved(s, x) ELSE s
        <3>1. PICK t : t = IF r.st = "ok" THEN Moved(s, x) ELSE s
            OBVIOUS
        <3>2. Lru(r.core, gone \cup r.lost, t)
            BY <1>2, <3>1, GetIs
        <3>. QED  BY <1>4, <3>1, <3>2
    <2>3. ASSUME NEW r \in remove(c, x) PROVE foreach_mru(r.core) = IF r.st = "ok" THEN Less(s, x) ELSE s
        <3>1. PICK t : t = IF r.st = "ok" THEN Less(s, x) ELSE s
            OBVIOUS
        <3>2. Lru(r.core, gone \cup r.lost, t)
            BY <1>2, <3>1, RemoveIs
        <3>. QED  BY <1>4, <3>1, <3>2
    <2>4. ASSUME NEW r \in get(c, x)
          PROVE  IF r.st = "ok" THEN c.key[r.entry] = x ELSE r.st = "copy" \/ At(s, x) = {}
        BY <1>2, GetIs
    <2>. QED  BY <2>1, <2>2, <2>3, <2>4 DEF Showing
<1>6. ASSUME NEW x \in Key, NEW v \in CacheValue, At(s, x) # {}
      PROVE  Showing(put(c, x, v), <<<<x, v>>>> \o Less(s, x), s)
    <2>1. ASSUME NEW r \in put(c, x, v)
          PROVE  foreach_mru(r.core) = IF r.st = "ok" THEN <<<<x, v>>>> \o Less(s, x) ELSE s
        <3>1. PICK t : t = IF r.st = "ok" THEN <<<<x, v>>>> \o Less(s, x) ELSE s
            OBVIOUS
        <3>2. Lru(r.core, gone \cup r.lost, t)
            BY <1>2, <1>6, <3>1, PutReplaces
        <3>. QED  BY <1>4, <3>1, <3>2
    <2>. QED  BY <2>1 DEF Showing
<1>7. ASSUME NEW x \in Key, NEW v \in CacheValue, At(s, x) = {}, NEW r \in put(c, x, v)
      PROVE  CASE r.st = "ok"   -> foreach_mru(r.core) = <<<<x, v>>>> \o Room(s, gone)
               [] r.st = "copy" -> foreach_mru(r.core) = Room(s, gone)
               [] r.st = "full" -> gone # {} /\ r.core = c
    <2>1. PICK room, full : room = Room(s, gone) /\ full = <<<<x, v>>>> \o room
        OBVIOUS
    <2>2. Adds(r, c, gone, x, v, room)
        BY ONLY <1>2, <1>7, <2>1, x \in Key, v \in CacheValue, PutAdds
    <2>3. \/ r.st = "ok" /\ Lru(r.core, gone \cup r.lost, full)
          \/ r.st = "copy" /\ Lru(r.core, gone \cup r.lost, room)
          \/ r.st = "full" /\ gone # {} /\ r.core = c
        BY <2>1, <2>2 DEF Adds
    <2>4. /\ r.st = "ok" => foreach_mru(r.core) = full
          /\ r.st = "copy" => foreach_mru(r.core) = room
          /\ r.st = "full" => gone # {} /\ r.core = c
          /\ r.st = "ok" \/ r.st = "copy" \/ r.st = "full"
        BY ONLY <1>4, <2>3
    <2>. QED  BY <2>1, <2>4
<1>8. LruReads(s)
    BY <1>2, <1>3, <1>5 DEF LruReads
<1>9. LruWrites(s)
    BY <1>2, <1>6, <1>7 DEF LruWrites
<1>. QED  BY <1>3, <1>8, <1>9, LruCases

\* The invariant of the cache: its entries are on free_list_, or on the recency list and
\* in the chain of their key, or lost.
THEOREM LruInvariant == LruSpec => []LruGood
<1>1. LruInit => LruGood
    BY LruStarts
<1>2. LruGood /\ [LruNext]_lruVars => LruGood'
    BY LruStep
<1>. QED  BY <1>1, <1>2, PTL DEF LruSpec

\* LruCache.EntriesAccounted: hash_next serves the chains and the free list, and they never
\* run into each other; an entry is lost only when a copy failed after an eviction.
THEOREM LruEntriesAccounted == LruSpec => []EntriesAccounted
BY LruInvariant, LruAccounts, PTL

\* LruCache.ActsAsLru: every call is what foreach_mru shows of an LRU cache.
THEOREM LruActsAsLru == LruSpec => []ActsAsLru
BY LruInvariant, LruActs, PTL
=============================================================================
