---------------------------- MODULE MapsAndSets ----------------------------
(***************************************************************************)
(* btree_map_core, an unbalanced binary search tree (BTree and btree_t)    *)
(* whose nodes come from a fixed pool, from malloc or from an arena;       *)
(* flat_map_core, a sorted array with binary search (FlatMap); and         *)
(* sparse_set_core, a set, which is a map with one value.  All are shown   *)
(* to implement KeyedMap.  The tree copies elements with copy_fn, which    *)
(* may fail; the array constructs, moves and destroys objects.             *)
(***************************************************************************)
EXTENDS Naturals, Sequences, FiniteSets, TLC, Pointers, SparseSet
LOCAL S == INSTANCE SequencesExt

CONSTANTS Key,       \* naturals: the compare function orders them by <
          Value,
          Default,   \* a value
          Rewritten, \* bound: the keys that get other values than Default
          NoItem,    \* no element: raw or destroyed memory
          Damaged,   \* constructed over a live object, or destroyed twice
          Capacity,  \* nodes of the pool, entries of the array
          MaxLost    \* bound: objects a tree has lost

ASSUME MapsAndSetsConstants ==
    /\ Key \subseteq Nat /\ Capacity \in Nat \ {0} /\ MaxLost \in Nat
    /\ Default \in Value /\ Rewritten \subseteq Key
    /\ NoItem \notin Key \X Value /\ Damaged \notin Key \X Value

VARIABLES kind,   \* flat, sparse, or where the nodes of the tree come from
          m       \* the members of the core and its memory

vars == <<kind, m>>

Kind == {"pool", "heap", "arena", "flat", "sparse"}
tree == kind \in {"pool", "heap", "arena"}
sparse == kind = "sparse"

Node == 1..Capacity

\* init_free_list.
init_free_list(t) ==
    [t EXCEPT !.left = [n \in Node |-> n - 1], !.right = [n \in Node |-> Nil], !.free = Capacity]

\* The tree, and the array with size_ entries in its first slots.  objects is
\* auxiliary: the objects constructed in nodes and not destroyed.
emptyTree ==
    LET t == [root |-> Nil, free |-> Nil, size |-> 0, used |-> {},
              left |-> [n \in Node |-> Nil], right |-> [n \in Node |-> Nil],
              elem |-> [n \in Node |-> NoItem], objects |-> 0]
    IN  IF kind = "pool" THEN init_free_list(t) ELSE t
emptyFlat == [size |-> 0, slots |-> [n \in Node |-> NoItem]]

Result(st, t) == [st |-> st, m |-> t, node |-> Nil, ignored |-> FALSE]

-----------------------------------------------------------------------------
(* Tree: nodes *)

\* Nodes of malloc and of the arena are named by the least one not in use.
acquire_node(t) ==
    LET rest == Node \ t.used
        n    == IF kind = "pool" THEN t.free ELSE CHOOSE x \in rest : \A y \in rest : x <= y
        got  == [t EXCEPT !.left[n] = Nil, !.right[n] = Nil]
    IN  IF kind = "pool"
        THEN IF n = Nil THEN {Result("full", t)}
             ELSE {[Result("ok", [got EXCEPT !.free = t.left[n]]) EXCEPT !.node = n]}
        ELSE {Result("oom", t)} \cup
             IF rest = {} THEN {}
             ELSE {[Result("ok", [got EXCEPT !.used = @ \cup {n}]) EXCEPT !.node = n]}

\* A node of the arena is not given back; a node that is out of use has no links.
release_node(t, n) ==
    LET off == [t EXCEPT !.left[n] = Nil, !.right[n] = Nil]
    IN  CASE kind = "pool"  -> [off EXCEPT !.left[n] = t.free, !.free = n]
          [] kind = "heap"  -> [off EXCEPT !.used = @ \ {n}]
          [] kind = "arena" -> off

\* copy_construct and copy_assign both call copy_fn, which for BTree constructs an
\* object in the node, also over one that lives there and is then never destroyed.
copy_into(t, n, e) == [t EXCEPT !.elem[n] = e, !.objects = @ + 1]

destroy_node_value_Forgets(t, n) == [t EXCEPT !.elem[n] = NoItem]
destroy_node_value(t, n) == [t EXCEPT !.elem[n] = NoItem, !.objects = @ - 1]

make_node(t, e) ==
    UNION { IF r.st # "ok" THEN {r}
            ELSE {Result("copy", release_node(r.m, r.node)),
                  [r EXCEPT !.m = copy_into(@, r.node, e)]} : r \in acquire_node(t) }

-----------------------------------------------------------------------------
(* Tree: search, insertion and removal *)

key(t, n) == t.elem[n][1]

\* The nodes a search for k visits: it stops at k or falls off a leaf.
path(t, k) ==
    LET walk[i \in 0..Capacity] ==
          IF i = 0 THEN t.root
          ELSE LET n == walk[i - 1]
               IN  IF n = Nil \/ key(t, n) = k THEN n
                   ELSE IF k < key(t, n) THEN t.left[n] ELSE t.right[n]
    IN  walk

find_node(t, k) == path(t, k)[Capacity]

\* The link that leads to n, or would, on the search for k: of the node above it,
\* or root_.
above(t, k, n) ==
    LET p == path(t, k)
        above_n == {i \in DOMAIN p : p[i] \notin {Nil, n}}
    IN  IF above_n = {} THEN Nil ELSE p[CHOOSE i \in above_n : \A j \in above_n : j <= i]

setLink_Swapped(t, k, old, new) ==
    LET p == above(t, k, old)
    IN  IF p = Nil THEN [t EXCEPT !.root = new]
        ELSE IF key(t, p) < k THEN [t EXCEPT !.left[p] = new] ELSE [t EXCEPT !.right[p] = new]
setLink(t, k, old, new) ==
    LET p == above(t, k, old)
    IN  IF p = Nil THEN [t EXCEPT !.root = new]
        ELSE IF k < key(t, p) THEN [t EXCEPT !.left[p] = new] ELSE [t EXCEPT !.right[p] = new]

\* An element with the key is copied over, and a copy that fails is not reported.
insert_node(t, k, v) ==
    LET n == find_node(t, k)
        Linked(r) == [setLink(r.m, k, Nil, r.node) EXCEPT !.size = @ + 1]
    IN  IF n # Nil
        THEN {Result("ok", copy_into(t, n, <<k, v>>)),
              [Result("ok", t) EXCEPT !.ignored = TRUE]}
        ELSE {IF r.st = "ok" THEN Result("ok", Linked(r)) ELSE r : r \in make_node(t, <<k, v>>)}

\* The leftmost node of the right subtree, unlinked from the node above it.
successor(t, n) ==
    LET r == t.right[n]
    IN  Follow(t.left, r, Cardinality(Reach(t.left, r, Capacity)) - 1)

cut_successor(t, n) ==
    LET s == successor(t, n)
    IN  IF s = t.right[n] THEN [t EXCEPT !.right[n] = t.right[s]]
        ELSE [t EXCEPT !.left[CHOOSE q \in Node : q \in Reach(t.left, t.right[n], Capacity)
                                                   /\ t.left[q] = s] = t.right[s]]

\* With two children the node keeps its place and takes the successor's element,
\* copied over its own; a copy that fails puts the successor back.
remove_node_DropsSubtree(t, k) ==
    LET n == find_node(t, k)
    IN  IF n = Nil THEN {Result("not_found", t)}
        ELSE {Result("ok", [release_node(destroy_node_value(setLink(t, k, n, t.left[n]), n), n)
                            EXCEPT !.size = @ - 1])}
remove_node(t, k) ==
    LET n == find_node(t, k)
        two == t.left[n] # Nil /\ t.right[n] # Nil
        s == successor(t, n)
        Gone(u, x) == [release_node(destroy_node_value(u, x), x) EXCEPT !.size = @ - 1]
        child == IF t.left[n] # Nil THEN t.left[n] ELSE t.right[n]
    IN  IF n = Nil THEN {Result("not_found", t)}
        ELSE IF two THEN {Result("copy", t),
                          Result("ok", Gone(copy_into(cut_successor(t, n), n, t.elem[s]), s))}
        ELSE {Result("ok", Gone(setLink(t, k, n, child), n))}

\* traverse_node: the elements in the order the visitor sees them.
traverse(t, order) ==
    LET visit[d \in 0..Capacity, n \in Node \cup {Nil}] ==
          LET l == visit[d - 1, t.left[n]]
              r == visit[d - 1, t.right[n]]
          IN  IF n = Nil \/ d = 0 THEN <<>>
              ELSE CASE order = "preorder"  -> <<n>> \o l \o r
                     [] order = "inorder"   -> l \o <<n>> \o r
                     [] order = "postorder" -> l \o r \o <<n>>
    IN  visit[Capacity, t.root]

peek_min(t) == Follow(t.left, t.root, Cardinality(Reach(t.left, t.root, Capacity)) - 1)
peek_max(t) == Follow(t.right, t.root, Cardinality(Reach(t.right, t.root, Capacity)) - 1)

\* clear_subtree releases children first; a pool's free list is built anew.
clear_tree(t) ==
    LET gone == S!FoldLeft(LAMBDA u, n : release_node(destroy_node_value(u, n), n),
                           t, traverse(t, "postorder"))
        none == [gone EXCEPT !.root = Nil, !.size = 0]
    IN  IF kind = "pool" THEN init_free_list(none) ELSE none

-----------------------------------------------------------------------------
(* Array *)

construct(s, i, e) == [s EXCEPT ![i] = IF s[i] = NoItem THEN e ELSE Damaged]
destroy(s, i)      == [s EXCEPT ![i] = IF s[i] = NoItem THEN Damaged ELSE NoItem]
move_entry(s, from, to) == destroy(construct(s, to, s[from]), from)

\* The index of k, or where it belongs.
find_index(f, k) ==
    LET search[lo \in 0..Capacity, hi \in 0..Capacity] ==
          LET mid == lo + (hi - lo) \div 2
          IN  IF lo >= hi THEN [found |-> FALSE, at |-> lo + 1]
              ELSE IF f.slots[mid + 1][1] < k THEN search[mid + 1, hi]
              ELSE IF f.slots[mid + 1][1] > k THEN search[lo, mid]
              ELSE [found |-> TRUE, at |-> mid + 1]
    IN  search[0, f.size]

shift_right_from(f, i) ==
    S!FoldLeft(LAMBDA s, j : move_entry(s, j, j + 1), f.slots,
               [j \in 1..(f.size - i + 1) |-> f.size - j + 1])
shift_left_from(f, s, i) ==
    S!FoldLeft(LAMBDA u, j : move_entry(u, j, j - 1), s, [j \in 1..(f.size - i + 1) |-> i + j - 1])

put(f, k, v) ==
    LET i == find_index(f, k)
    IN  IF i.found
        THEN {Result("ok", [f EXCEPT !.slots = construct(destroy(@, i.at), i.at, <<k, v>>)])}
        ELSE IF f.size >= Capacity THEN {Result("full", f)}
        ELSE {Result("ok", [f EXCEPT !.slots = construct(shift_right_from(f, i.at), i.at, <<k, v>>),
                                     !.size = @ + 1])}

remove(f, k) ==
    LET i == find_index(f, k)
    IN  IF ~i.found THEN {Result("not_found", f)}
        ELSE {Result("ok", [f EXCEPT !.slots = shift_left_from(f, destroy(@, i.at), i.at + 1),
                                     !.size = @ - 1])}

clear_flat(f) ==
    [size |-> 0, slots |-> S!FoldLeft(destroy, f.slots, [i \in 1..f.size |-> i])]

-----------------------------------------------------------------------------
(* The maps *)

Insertion(k, v) ==
    CASE tree   -> insert_node(m, k, v)
      [] sparse -> LET r == sparse_insert(m, k) IN {Result(r.st, r.set)}
      [] OTHER  -> put(m, k, v)

Removal(k) ==
    CASE tree   -> remove_node(m, k)
      [] sparse -> LET r == sparse_remove(m, k) IN {Result(r.st, r.set)}
      [] OTHER  -> remove(m, k)

\* What get finds.
get(k) ==
    LET i == find_index(m, k)
    IN  CASE tree   -> IF find_node(m, k) = Nil THEN NoItem ELSE m.elem[find_node(m, k)]
          [] sparse -> IF contains(m, k) THEN <<k, Default>> ELSE NoItem
          [] OTHER  -> IF i.found THEN m.slots[i.at] ELSE NoItem

Init ==
    /\ kind \in Kind
    /\ IF sparse THEN m \in sparse_init ELSE m = IF tree THEN emptyTree ELSE emptyFlat

Return(results) ==
    /\ \E r \in results : m' = r.m /\ (tree => r.m.objects <= r.m.size + MaxLost)
    /\ UNCHANGED kind

Insert(k, v) == Return(Insertion(k, v))
Remove(k)    == Return(Removal(k))
Clear ==
    /\ m' = CASE tree   -> clear_tree(m)
              [] sparse -> sparse_clear(m)
              [] OTHER  -> clear_flat(m)
    /\ UNCHANGED kind

Given(k) == IF k \in Rewritten /\ ~sparse THEN Value ELSE {Default}

Next == Clear \/ \E k \in Key : Remove(k) \/ \E v \in Given(k) : Insert(k, v)

Spec == Init /\ [][Next]_vars

-----------------------------------------------------------------------------
(* Properties *)

\* The elements in the order of foreach, of the array, or of dense_.
Entries(t) ==
    CASE tree   -> LET s == traverse(t, "inorder") IN [i \in 1..Len(s) |-> t.elem[s[i]]]
      [] sparse -> [i \in 1..t.size |-> <<t.dense[i - 1], Default>>]
      [] OTHER  -> SubSeq(t.slots, 1, t.size)

Contents(t) == S!FoldLeft(LAMBDA f, e : (e[1] :> e[2]) @@ f, <<>>, Entries(t))

Map == INSTANCE KeyedMap WITH contents <- Contents(m)

\* Insertion, replacement, removal and clear act on the entries of the tree or the
\* array as they act on a map, and calls that fail do not act at all: a tree whose
\* element cannot be copied on removal is put together again.
ImplementsMap == Map!Spec

Lost(t) == t.objects - t.size

\* What a call of the tree loses, by all its outcomes: one object when insertion
\* replaces the element of a known key (btree_map_core.hpp:443-449), one when
\* removal copies the successor's element over that of a node with two children
\* (:485-497), and none otherwise, whatever fails.
LosesOnlyOverwritten ==
    LET known(k) == get(k) # NoItem
        two_children(k) == LET n == find_node(m, k) IN m.left[n] # Nil /\ m.right[n] # Nil
        loses(r, one) == Lost(r.m) = Lost(m) + (IF one THEN 1 ELSE 0)
    IN  /\ Lost(clear_tree(m)) = Lost(m)
        /\ \A k \in Key :
             /\ \A r \in Removal(k) : loses(r, r.st = "ok" /\ two_children(k))
             /\ \A v \in Given(k) : \A r \in Insertion(k, v) : loses(r, known(k) /\ ~r.ignored)

\* The memory is accounted for.  A node is in the tree once, or free, or with
\* malloc, and no object is lost but those that are copied over; the array has live objects in its first size_ slots and raw memory after
\* them, with nothing constructed over an object or destroyed twice; and dense_ has
\* every id once, where sparse_ says it is.
MemoryAccounted ==
    LET nodes == traverse(m, "inorder")
        held  == S!ToSet(nodes)
        free  == Reach(m.left, m.free, Capacity)
    IN  CASE tree ->
               /\ LosesOnlyOverwritten /\ m.objects >= m.size
               /\ Len(nodes) = m.size /\ Cardinality(held) = m.size
               /\ \A n \in Node : n \in held <=> m.elem[n] # NoItem
               /\ kind = "pool" => held \cap free = {} /\ held \cup free = Node
               /\ kind = "heap" => m.used = held
               /\ kind = "arena" => held \subseteq m.used
          [] sparse -> \A i \in 0..(m.size - 1) : m.sparse[m.dense[i]] = i
          [] OTHER ->
               \A i \in Node : m.slots[i] # Damaged /\ (i <= m.size <=> m.slots[i] # NoItem)

\* The entries of a map are in strict key order, every key is found where the search looks,
\* the ends are the least and the greatest key, the other orders visit the same
\* nodes, and insert and remove fail only for the reasons they give.
SearchFindsAll ==
    LET es == Entries(m)
        nodes(order) == S!ToSet(traverse(m, order))
    IN  /\ ~sparse => \A i \in 1..(Len(es) - 1) : es[i][1] < es[i + 1][1]
        /\ \A i \in 1..Len(es) : get(es[i][1]) = es[i]
        /\ tree /\ Len(es) > 0 =>
             /\ m.elem[peek_min(m)] = es[1] /\ m.elem[peek_max(m)] = es[Len(es)]
             /\ nodes("preorder") = nodes("inorder") /\ nodes("postorder") = nodes("inorder")
        /\ \A k \in Key :
             /\ (get(k) = NoItem) <=> ~(\E i \in 1..Len(es) : es[i][1] = k)
             /\ \A r \in Removal(k) : r.st = "not_found" <=> get(k) = NoItem
             /\ \A v \in Given(k) : \A r \in Insertion(k, v) :
                  /\ r.st = "full" => get(k) = NoItem /\ m.size = Capacity
                  /\ r.st = "invalid" => k >= MaxId
                  /\ r.st = "ok" /\ ~r.ignored => <<k, v>> \in S!ToSet(Entries(r.m))
=============================================================================
