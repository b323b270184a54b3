------------------------------- MODULE Lists -------------------------------
(***************************************************************************)
(* The node-based lists of memkit: list_core (singly linked, with a tail   *)
(* pointer) and dlist_core (doubly linked), pointer by pointer.  Nodes     *)
(* come from a fixed pool threaded on free_list_ or, with heap_dynamic,    *)
(* from malloc, which may fail; a copy by the element policy may fail at   *)
(* every call (runtime_element_policy).  The two cores run the same calls  *)
(* on their own links, so one state serves both and `doubly' selects.      *)
(***************************************************************************)
EXTENDS Naturals, Sequences, FiniteSets, Pointers
S == INSTANCE SequencesExt

CONSTANTS Value,         \* element values
          NoItem,        \* no object in this memory
          NodeCapacity,  \* nodes of a fixed pool
          HeapNodes      \* bound: nodes malloc can have given out at once

ASSUME ListConstants ==
    /\ NodeCapacity \in Nat \ {0} /\ HeapNodes \in Nat \ {0}
    /\ NoItem \notin Value

VARIABLES doubly,   \* dlist_core rather than list_core
          fixed,    \* list_flags_ is fixed_pool rather than heap_dynamic
          core      \* the members of the core and the memory of its nodes

vars == <<doubly, fixed, core>>

Node == 1..(IF fixed THEN NodeCapacity ELSE HeapNodes)

-----------------------------------------------------------------------------
(* Nodes: the free list of the pool, or malloc and free. *)

\* init threads every slot of the pool, the last one first.
init ==
    [head |-> Nil, tail |-> Nil, size |-> 0,
     next |-> [n \in Node |-> IF fixed THEN n - 1 ELSE Nil],
     prev |-> [n \in Node |-> Nil],
     free |-> IF fixed THEN NodeCapacity ELSE Nil,
     data |-> [n \in Node |-> NoItem],
     heap |-> {}]

Fail(st, c)     == [st |-> st, node |-> Nil, core |-> c, got |-> NoItem]
Done(c)         == [st |-> "ok", node |-> Nil, core |-> c, got |-> NoItem]
Made(n, c)      == [st |-> "ok", node |-> n, core |-> c, got |-> NoItem]

\* Where malloc puts a node does not matter: the lowest unused address will do.
FreshNode(c) == {n \in Node \ c.heap : \A m \in Node \ c.heap : n <= m}

\* The outcomes of acquire_node.
acquire_node(c) ==
    IF fixed
    THEN IF c.free = Nil
         THEN {Fail("full", c)}
         ELSE {Made(c.free, [c EXCEPT !.free = c.next[c.free],
                                      !.next[c.free] = Nil,
                                      !.prev[c.free] = Nil])}
    ELSE {Fail("oom", c)} \cup
         {Made(n, [c EXCEPT !.heap = @ \cup {n}]) : n \in FreshNode(c)}

\* An object that was copied out stays alive in the released node, but nothing
\* reads it again: the model forgets what released memory held.
release_node(c, n) ==
    LET d == [c EXCEPT !.prev[n] = Nil, !.data[n] = NoItem]
    IN  IF fixed THEN [d EXCEPT !.next[n] = c.free, !.free = n]
                 ELSE [d EXCEPT !.next[n] = Nil, !.heap = @ \ {n}]

\* A node is acquired before its value is copied and goes back if that fails.
make_node_Leaks(c, v) ==
    UNION { IF r.st = "ok"
            THEN {[r EXCEPT !.core.data[r.node] = v], Fail("copy", r.core)}
            ELSE {r} : r \in acquire_node(c) }
make_node(c, v) ==
    UNION { IF r.st = "ok"
            THEN {[r EXCEPT !.core.data[r.node] = v],
                  Fail("copy", release_node(r.core, r.node))}
            ELSE {r} : r \in acquire_node(c) }

-----------------------------------------------------------------------------
(* Walks.  A walk that leaves the list stays at the null pointer. *)

list_node_at(c, i) == Follow(c.next, c.head, i)

\* dlist_core walks from the nearer end.
dlist_node_at_OneTooFar(c, i) ==
    IF i >= c.size THEN Nil
    ELSE IF i <= c.size \div 2 THEN Follow(c.next, c.head, i)
    ELSE Follow(c.prev, c.tail, c.size - i)
dlist_node_at(c, i) ==
    IF i >= c.size THEN Nil
    ELSE IF i <= c.size \div 2 THEN Follow(c.next, c.head, i)
    ELSE Follow(c.prev, c.tail, c.size - 1 - i)

node_at(c, i) == IF doubly THEN dlist_node_at(c, i) ELSE list_node_at(c, i)

\* What for_each, for_each_reverse and peek_at show.
node_data(c, n) == IF n = Nil THEN NoItem ELSE c.data[n]
for_each(c) == [i \in 1..c.size |-> node_data(c, Follow(c.next, c.head, i - 1))]
for_each_reverse(c) == [i \in 1..c.size |-> node_data(c, Follow(c.prev, c.tail, i - 1))]
peek_at(c, i) == node_data(c, node_at(c, i))

-----------------------------------------------------------------------------
(* Links of dlist_core. *)

link_front(c, n) ==
    [c EXCEPT !.prev = IF c.head # Nil THEN [@ EXCEPT ![c.head] = n, ![n] = Nil]
                                       ELSE [@ EXCEPT ![n] = Nil],
              !.next[n] = c.head,
              !.tail = IF c.head = Nil THEN n ELSE @,
              !.head = n]

link_back(c, n) ==
    [c EXCEPT !.next = IF c.tail # Nil THEN [@ EXCEPT ![c.tail] = n, ![n] = Nil]
                                       ELSE [@ EXCEPT ![n] = Nil],
              !.prev[n] = c.tail,
              !.head = IF c.tail = Nil THEN n ELSE @,
              !.tail = n]

link_before(c, t, n) ==
    [c EXCEPT !.next = IF c.prev[t] # Nil THEN [@ EXCEPT ![c.prev[t]] = n, ![n] = t]
                                          ELSE [@ EXCEPT ![n] = t],
              !.head = IF c.prev[t] = Nil THEN n ELSE @,
              !.prev = [@ EXCEPT ![n] = c.prev[t], ![t] = n]]

unlink_node(c, n) ==
    LET p == c.prev[n]
        s == c.next[n]
        linked == [c.next EXCEPT ![n] = Nil]
        backed == [c.prev EXCEPT ![n] = Nil]
    IN  [c EXCEPT !.next = IF p # Nil THEN [linked EXCEPT ![p] = s] ELSE linked,
                  !.prev = IF s # Nil THEN [backed EXCEPT ![s] = p] ELSE backed,
                  !.head = IF p = Nil THEN s ELSE @,
                  !.tail = IF s = Nil THEN p ELSE @]

-----------------------------------------------------------------------------
(* Links of list_core, which has no prev: a walk finds the predecessor. *)

list_link_front(c, n) ==
    [c EXCEPT !.next[n] = c.head, !.head = n,
              !.tail = IF @ = Nil THEN n ELSE @]

list_link_back(c, n) ==
    [c EXCEPT !.next = IF c.tail # Nil THEN [@ EXCEPT ![n] = Nil, ![c.tail] = n]
                                       ELSE [@ EXCEPT ![n] = Nil],
              !.head = IF c.tail = Nil THEN n ELSE @,
              !.tail = n]

unlink_front(c) ==
    [c EXCEPT !.head = c.next[c.head],
              !.tail = IF c.next[c.head] = Nil THEN Nil ELSE @]

list_unlink_back_StaleTail(c) ==
    LET p == list_node_at(c, c.size - 2)
    IN  IF c.size = 1 THEN [c EXCEPT !.head = Nil, !.tail = Nil]
                      ELSE [c EXCEPT !.next[p] = Nil]
list_unlink_back(c) ==
    LET p == list_node_at(c, c.size - 2)
    IN  IF c.size = 1 THEN [c EXCEPT !.head = Nil, !.tail = Nil]
                      ELSE [c EXCEPT !.next[p] = Nil, !.tail = p]

list_unlink_at(c, i) ==
    [c EXCEPT !.next[list_node_at(c, i - 1)] = c.next[list_node_at(c, i)]]

-----------------------------------------------------------------------------
(* Insertion.  The outcomes of a call are a set of results. *)

Inserted(results, Link(_, _)) ==
    { IF r.st = "ok" THEN Done([Link(r.core, r.node) EXCEPT !.size = @ + 1]) ELSE r
      : r \in results }

insert_front(c, v) ==
    IF doubly THEN Inserted(make_node(c, v), link_front)
              ELSE Inserted(make_node(c, v), list_link_front)

insert_back(c, v) ==
    IF doubly THEN Inserted(make_node(c, v), link_back)
              ELSE Inserted(make_node(c, v), list_link_back)

list_insert_middle(c, i, v) ==
    LET Link(d, n) == [d EXCEPT !.next[n] = list_node_at(c, i),
                                !.next[list_node_at(c, i - 1)] = n]
    IN  Inserted(make_node(c, v), Link)

dlist_insert_middle(c, i, v) ==
    LET Link(d, n) == link_before(d, dlist_node_at(c, i), n)
    IN  Inserted(make_node(c, v), Link)

insert_at(c, i, v) ==
    CASE i > c.size -> {Fail("invalid", c)}
      [] i = 0      -> insert_front(c, v)
      [] i = c.size /\ i # 0 -> insert_back(c, v)
      [] OTHER      -> IF doubly THEN dlist_insert_middle(c, i, v)
                                 ELSE list_insert_middle(c, i, v)

-----------------------------------------------------------------------------
(* Removal.  With an out pointer the object is copied, which may fail before *)
(* anything changes, and stays alive in its node; without one it is          *)
(* destroyed.                                                                *)

Taken(c, n, Unlink(_)) ==
    LET gone(d) == [release_node(Unlink(d), n) EXCEPT !.size = @ - 1]
    IN  {Fail("copy", c),
         [Done(gone(c)) EXCEPT !.got = c.data[n]],
         Done(gone([c EXCEPT !.data[n] = NoItem]))}

pop_node(c, n) == LET Unlink(d) == unlink_node(d, n) IN Taken(c, n, Unlink)

list_pop_front(c) == Taken(c, c.head, unlink_front)
list_pop_back(c)  == Taken(c, list_node_at(c, c.size - 1), list_unlink_back)

pop_front(c) ==
    IF c.size = 0 THEN {Fail("empty", c)}
    ELSE IF doubly THEN pop_node(c, c.head) ELSE list_pop_front(c)

pop_back(c) ==
    IF c.size = 0 THEN {Fail("empty", c)}
    ELSE IF doubly THEN pop_node(c, c.tail) ELSE list_pop_back(c)

list_remove_middle(c, i) ==
    LET Unlink(d) == list_unlink_at(d, i) IN Taken(c, list_node_at(c, i), Unlink)

dlist_remove_middle(c, i) == pop_node(c, dlist_node_at(c, i))

remove_at(c, i) ==
    CASE i >= c.size -> {Fail("invalid", c)}
      [] i = 0 /\ i < c.size -> pop_front(c)
      [] i = c.size - 1 /\ 0 < i -> pop_back(c)
      [] OTHER -> IF doubly THEN dlist_remove_middle(c, i) ELSE list_remove_middle(c, i)

\* The predicate holds of the elements that equal v.
remove_first(c, v) ==
    LET hits == {i \in 1..c.size : for_each(c)[i] = v}
    IN  IF hits = {} THEN {Fail("not_found", c)}
        ELSE remove_at(c, (CHOOSE i \in hits : \A j \in hits : i <= j) - 1)

\* clear unlinks, destroys and releases from the front until head_ is null.
cleared(c) ==
    LET drop(d) == LET n == d.head
                       u == IF doubly THEN unlink_node(d, n) ELSE unlink_front(d)
                   IN  release_node([u EXCEPT !.data[n] = NoItem], n)
        after[k \in 0..Cardinality(Node)] ==
          IF k = 0 THEN c
          ELSE IF after[k - 1].head = Nil THEN after[k - 1] ELSE drop(after[k - 1])
    IN  [after[Cardinality(Node)] EXCEPT !.tail = Nil, !.size = 0]

-----------------------------------------------------------------------------
Init ==
    /\ doubly \in BOOLEAN
    /\ fixed \in BOOLEAN
    /\ core = init

\* A call ends with one of its outcomes.
Return(results) ==
    /\ \E r \in results : core' = r.core
    /\ UNCHANGED <<doubly, fixed>>

PushFront(v)   == Return(insert_front(core, v))
PushBack(v)    == Return(insert_back(core, v))
InsertAt(i, v) == Return(insert_at(core, i, v))
PopFront       == Return(pop_front(core))
PopBack        == Return(pop_back(core))
RemoveAt(i)    == Return(remove_at(core, i))
RemoveFirst(v) == Return(remove_first(core, v))
Clear          == Return({Done(cleared(core))})

Next ==
    \/ \E v \in Value : PushFront(v) \/ PushBack(v) \/ RemoveFirst(v)
    \/ \E i \in 0..(core.size + 1) : RemoveAt(i) \/ \E v \in Value : InsertAt(i, v)
    \/ PopFront \/ PopBack \/ Clear

Spec == Init /\ [][Next]_vars

-----------------------------------------------------------------------------
(* Properties *)

Chain(c)     == Reach(c.next, c.head, c.size)
FreeChain(c) == Reach(c.next, c.free, Cardinality(Node))

\* No node is lost and none is in two places: whatever calls failed on the
\* way, every pool slot is on exactly one of the list and free_list_, so "full"
\* is said only when every node holds an element; and every malloc'ed node is in
\* the list (acquire_node, release_node, make_node).
NodesAccounted ==
    /\ Cardinality(Chain(core)) = core.size
    /\ \A n \in Chain(core) : core.data[n] \in Value
    /\ IF fixed THEN /\ FreeChain(core) = Node \ Chain(core)
                     /\ Follow(core.next, core.free, NodeCapacity) = Nil
                ELSE core.heap = Chain(core)

\* The ends and the two directions agree: the walk from head_ ends at tail_
\* after size_ nodes, and in dlist_core the walk over prev shows the same
\* elements backwards and peek_at the same element from either end.
LinksAgree ==
    /\ Follow(core.next, core.head, core.size) = Nil
    /\ core.tail = IF core.size = 0 THEN Nil ELSE Follow(core.next, core.head, core.size - 1)
    /\ \A i \in 1..core.size : peek_at(core, i - 1) = for_each(core)[i]
    /\ doubly => \A i \in 1..core.size :
                   for_each_reverse(core)[i] = for_each(core)[core.size + 1 - i]

\* Every outcome of every call is what its name says of the sequence for_each
\* shows: insert_at, remove_at, remove_first and the pushes and pops act at their
\* position, whichever end the core walks from, deliver the element that left, and
\* a call that fails changes nothing.
CallsByPosition ==
    LET s == for_each(core)
        n == core.size
        Holds(results, t, e) ==
          \A r \in results : /\ for_each(r.core) = (IF r.st = "ok" THEN t ELSE s)
                              /\ r.got \in {NoItem, e}
        Left(i) == S!RemoveAt(s, i)
        hits(v) == {i \in 1..n : s[i] = v}
    IN  /\ \A v \in Value :
             /\ Holds(insert_front(core, v), <<v>> \o s, NoItem)
             /\ Holds(insert_back(core, v), Append(s, v), NoItem)
             /\ \A i \in 0..n : Holds(insert_at(core, i, v), S!InsertAt(s, i + 1, v), NoItem)
             /\ \E i \in hits(v) \cup {0} :
                  /\ \A j \in hits(v) : 0 < i /\ i <= j
                  /\ Holds(remove_first(core, v), IF i = 0 THEN s ELSE Left(i), v)
        /\ \A i \in 1..n : Holds(remove_at(core, i - 1), Left(i), s[i])
        /\ n > 0 => /\ Holds(pop_front(core), Tail(s), s[1])
                    /\ Holds(pop_back(core), S!Front(s), s[n])
=============================================================================
