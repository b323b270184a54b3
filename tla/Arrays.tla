------------------------------- MODULE Arrays -------------------------------
(***************************************************************************)
(* The containers that keep their elements in one block: vector_core (used *)
(* by Vector, Stack, vector_t and cstack_t) and pqueue_core, a binary heap *)
(* (PQueue and pqueue_t).  Modelled with their growth, which moves the     *)
(* block, with copies and allocations that fail, and with the block's      *)
(* owner: storage_kind_ and c_flags_ say what the container believes, and  *)
(* block says where the memory came from.                                  *)
(*                                                                         *)
(* A call is given the number f of element copies that succeed before one  *)
(* fails; a copy that fails leaves its destination alone.                  *)
(***************************************************************************)
EXTENDS Integers, Sequences, FiniteSets

CONSTANTS Element,      \* naturals: compare_fn orders them by <
          Dead,         \* a slot that holds no object
          Garbage,      \* what a read of memory that is gone returns
          Capacities,   \* the capacities a container starts with
          MaxCapacity,  \* bound: no larger block can be allocated
          Copies        \* more copies than any call makes

ASSUME ArraysConstants ==
    /\ Element \subseteq Nat /\ MaxCapacity \in Nat /\ Capacities \subseteq 1..MaxCapacity
    /\ Copies \in Nat
    /\ Dead \notin Element /\ Garbage \notin Element /\ Dead # Garbage

VARIABLES form,     \* how the container was initialised
          array,    \* the members of the core and of the box
          malloced, \* its malloc'ed blocks that have not been freed
          foreign,  \* free or realloc was given a block malloc did not return
          torn      \* a copy failed inside a sift, or after pop destroyed the root

arrayVars == <<form, array, malloced, foreign, torn>>

\* The C boxes take caller storage, an arena or malloc, and copy with copy_fn; the
\* templates copy and move T, which does not fail, and never start on malloc.
Forms ==
    { c \in [kind: {"vector", "pqueue"}, policy: {"runtime", "typed"},
             start: {"caller", "arena", "heap"}, arena: BOOLEAN, growable: BOOLEAN] :
        /\ c.start = "arena" => c.arena
        /\ c.start = "heap" => ~c.arena /\ c.policy = "runtime"
        /\ c.start = "caller" /\ c.policy = "typed" => ~c.arena }

Closed == [open |-> FALSE, size |-> 0, slots |-> <<>>, kind |-> {}, flags |-> {}, block |-> "none"]

\* vector_box::init, pqueue_box::init and allocate_element_storage: arena storage
\* wins over malloc.  pqueue_core::init sets storage_kind_ back to external.
opened(c, n) ==
    LET own == CASE c.start = "caller" -> {} [] c.start = "arena" -> {"owns", "arena"}
                 [] c.start = "heap" -> {"owns", "heap"}
    IN  [open |-> TRUE, size |-> 0, slots |-> [i \in 1..n |-> Dead],
         kind |-> IF c.kind = "pqueue" THEN {} ELSE own,
         flags |-> IF c.policy = "typed" THEN {} ELSE own, block |-> c.start]

capacity(x) == Len(x.slots)
Elements(x) == SubSeq(x.slots, 1, x.size)

Outcome(st, x) == [st |-> st, a |-> x, heap |-> 0, foreign |-> FALSE, torn |-> FALSE, left |-> 0]

\* A call that reads or frees what it may not: nothing is said of what follows.
Undefined == [Outcome("undefined", Closed) EXCEPT !.foreign = TRUE]

-----------------------------------------------------------------------------
(* Growth *)

\* grow_capacity doubles until there is room.
grow_capacity(current, required) ==
    LET Room == {current * 2^k : k \in 0..required}
    IN  CHOOSE m \in Room : m >= required /\ \A r \in Room : r >= required => m <= r

\* The block of m slots that holds the elements of x, in memory that b names.
Moved(x, m, b) ==
    [x EXCEPT !.slots = [i \in 1..m |-> IF i <= x.size THEN x.slots[i] ELSE Dead], !.block = b]

\* realloc moves the bytes; oom and any size are possible outcomes.
realloc(x, m, f) ==
    IF x.block # "heap" THEN {Undefined}
    ELSE {Outcome("oom", x), [Outcome("ok", Moved(x, m, "heap")) EXCEPT !.left = f]}

\* A block of the arena, which is never given back.
arena_block(x, m, f) ==
    IF f < x.size THEN {Outcome("oom", x), Outcome("copy", x)}
    ELSE {Outcome("oom", x), [Outcome("ok", Moved(x, m, "arena")) EXCEPT !.left = f - x.size]}

\* vector_core::reallocate.  Without an arena, storage_kind_ says heap before the
\* elements are copied, and the test that frees the old block reads it.
reallocate_vector(x, m, f) ==
    LET taken == [x EXCEPT !.kind = {"owns", "heap"}]
    IN  IF "heap" \in x.kind THEN realloc(x, m, f)
        ELSE IF form.arena THEN arena_block(x, m, f)
        ELSE {Outcome("oom", x),
              IF f < x.size THEN [Outcome("copy", taken) EXCEPT !.heap = 1] ELSE Undefined}

\* pqueue_box::reallocate, and PQueue::reallocate, which reallocs whatever it has.
reallocate_pqueue_Keeps(x, m, f) ==
    IF form.policy = "typed" \/ "heap" \in x.flags THEN realloc(x, m, f)
    ELSE {[Outcome("copy", x) EXCEPT !.heap = 1]}
reallocate_pqueue(x, m, f) ==
    LET ours == [Moved(x, m, "heap") EXCEPT !.flags = {"owns", "heap"}]
    IN  IF form.policy = "typed" \/ "heap" \in x.flags THEN realloc(x, m, f)
        ELSE IF form.arena THEN arena_block(x, m, f)
        ELSE {Outcome("oom", x),
              IF f < x.size THEN Outcome("copy", x)
              ELSE [Outcome("ok", ours) EXCEPT !.heap = 1, !.left = f - x.size]}

\* grow, reserve and ensure_capacity.
reserve(x, n, f) ==
    LET m == grow_capacity(capacity(x), n)
    IN  IF n <= capacity(x) THEN {[Outcome("ok", x) EXCEPT !.left = f]}
        ELSE IF ~form.growable THEN {Outcome("full", x)}
        ELSE IF m \notin n..MaxCapacity THEN {Outcome("oom", x)}
        ELSE IF form.kind = "vector" THEN reallocate_vector(x, m, f)
                                       ELSE reallocate_pqueue(x, m, f)

\* The calls that follow an ensure_capacity that succeeded.
After(results, Then(_)) ==
    UNION {IF r.st # "ok" THEN {r}
           ELSE {[t EXCEPT !.heap = @ + r.heap] : t \in Then(r)} : r \in results}

-----------------------------------------------------------------------------
(* Vector and stack *)

\* A value of the caller's, or an element of the vector itself.  The reference to
\* an element outlives the growth only in a block that does, with copied elements.
Outside(v) == [own |-> FALSE, val |-> v]
Inside(i)  == [own |-> TRUE, val |-> i]

Outlives(x) == x.block # "heap" /\ form.policy = "runtime"

Referred(x, y, e) ==
    IF ~e.own THEN e.val
    ELSE IF capacity(x) = capacity(y) \/ Outlives(x) THEN x.slots[e.val] ELSE Garbage

push_back_CountsFirst(x, e, f) ==
    LET Put(r) == {Outcome(IF r.left = 0 THEN "copy" ELSE "ok",
                          [r.a EXCEPT !.slots[x.size + 1] = Referred(x, r.a, e), !.size = @ + 1])}
    IN  After(reserve(x, x.size + 1, f), Put)
push_back(x, e, f) ==
    LET Put(r) == IF r.left = 0 THEN {Outcome("copy", r.a)}
                  ELSE {Outcome("ok", [r.a EXCEPT !.slots[x.size + 1] = Referred(x, r.a, e),
                                                 !.size = @ + 1])}
    IN  After(IF x.size = capacity(x) THEN reserve(x, x.size + 1, f)
                                      ELSE {[Outcome("ok", x) EXCEPT !.left = f]}, Put)

\* Taken out: copied to the caller or destroyed.
pop_back(x, out, f) ==
    IF x.size = 0 THEN {Outcome("empty", x)}
    ELSE IF out /\ f = 0 THEN {Outcome("copy", x)}
    ELSE {Outcome("ok", [x EXCEPT !.size = @ - 1, !.slots[x.size] = Dead])}

set_at(x, i, v, f) ==
    IF i > x.size THEN {Outcome("invalid", x)}
    ELSE IF f = 0 THEN {Outcome("copy", x)} ELSE {Outcome("ok", [x EXCEPT !.slots[i] = v])}

clear(x) == [x EXCEPT !.size = 0, !.slots = [i \in DOMAIN @ |-> Dead]]

-----------------------------------------------------------------------------
(* Priority queue: slot i has the children 2i and 2i + 1 *)

\* Three copies through a temporary.
swap_elements(s, l, r) == [s EXCEPT ![l] = s[r], ![r] = s[l]]

\* The parent, if slot i is smaller.
parent(s, i) == IF i > 1 /\ s[i] < s[i \div 2] THEN i \div 2 ELSE i

\* The smallest of slot i and its children, the left one first.
smallest(s, i, n) ==
    LET l == IF 2 * i <= n /\ s[2 * i] < s[i] THEN 2 * i ELSE i
    IN  IF 2 * i + 1 <= n /\ s[2 * i + 1] < s[l] THEN 2 * i + 1 ELSE l

\* One round of a sift, a loop that is at slot i and has left copies: it ends where it
\* stays, and at the first swap that fails; with the third copy of that swap, one
\* element is there twice and the other is gone.
sift_round(c, up, n) ==
    LET j == IF up THEN parent(c.slots, c.i) ELSE smallest(c.slots, c.i, n)
    IN  IF c.st # "run" THEN c
        ELSE IF j = c.i THEN [c EXCEPT !.st = "ok"]
        ELSE IF c.left >= 3
             THEN [c EXCEPT !.i = j, !.slots = swap_elements(c.slots, c.i, j), !.left = @ - 3]
        ELSE [c EXCEPT !.st = "copy",
                       !.slots = IF c.left = 2 THEN [c.slots EXCEPT ![c.i] = c.slots[j]] ELSE c.slots]

\* The slots are rounds enough: each goes up, or each goes down.
sift(up, slots, start, n, budget) ==
    LET at[k \in 0..Len(slots)] ==
          IF k = 0 THEN [i |-> start, slots |-> slots, left |-> budget, st |-> "run"]
          ELSE sift_round(at[k - 1], up, n)
    IN  at[Len(slots)]

sift_up(slots, start, budget) == sift(TRUE, slots, start, start, budget)

sift_down_LeftOnly(slots, n, budget) ==
    IF n >= 2 /\ slots[2] < slots[1]
    THEN [st |-> "ok", slots |-> swap_elements(slots, 1, 2)] ELSE [st |-> "ok", slots |-> slots]
sift_down(slots, n, budget) == sift(FALSE, slots, 1, n, budget)

Sifted(x, r) == [Outcome(r.st, [x EXCEPT !.slots = r.slots]) EXCEPT !.torn = r.st # "ok"]

push(x, v, f) ==
    LET Put(r) == LET y == [r.a EXCEPT !.slots[x.size + 1] = v, !.size = @ + 1]
                  IN  IF r.left = 0 THEN {Outcome("copy", r.a)}
                      ELSE {Sifted(y, sift_up(y.slots, y.size, r.left - 1))}
    IN  After(reserve(x, x.size + 1, f), Put)

\* The root is copied out, or destroyed; the last element takes its place.
pop(x, out, f) ==
    LET g    == IF out THEN f - 1 ELSE f
        rest == [x EXCEPT !.size = @ - 1, !.slots[1] = x.slots[x.size], !.slots[x.size] = Dead]
    IN  IF x.size = 0 THEN {Outcome("empty", x)}
        ELSE IF g < 0 THEN {Outcome("copy", x)}
        ELSE IF x.size = 1 THEN {Outcome("ok", rest)}
        ELSE IF g = 0 THEN {IF out THEN Outcome("copy", x)
                            ELSE [Outcome("copy", [x EXCEPT !.slots[1] = Dead]) EXCEPT !.torn = TRUE]}
        ELSE {Sifted(rest, sift_down(rest.slots, rest.size, g - 1))}

-----------------------------------------------------------------------------
(* Actions *)

ArrayInit == form \in Forms /\ array = Closed /\ malloced = 0 /\ foreign = FALSE /\ torn = FALSE

\* A torn priority queue is only cleared or given back: its root may be no object.
vector == array.open /\ form.kind = "vector"
pqueue == array.open /\ form.kind = "pqueue" /\ ~torn

\* The templates' copies do not fail.
Budget == IF form.policy = "typed" THEN {Copies} ELSE 0..Copies

Return(results) ==
    /\ \E r \in results :
         /\ array' = r.a /\ malloced' = malloced + r.heap
         /\ foreign' = (foreign \/ r.foreign) /\ torn' = (torn \/ r.torn)
    /\ UNCHANGED form

\* The block of a container that starts on the heap is malloc'ed.
Open(c, n) ==
    /\ ~array.open
    /\ form' = c /\ array' = opened(c, n)
    /\ malloced' = IF c.start = "heap" THEN 1 ELSE 0
    /\ foreign' = FALSE /\ torn' = FALSE

PushBack(v)   == vector /\ \E f \in Budget : Return(push_back(array, Outside(v), f))
PushOwn(i)    == vector /\ i <= array.size /\ \E f \in Budget : Return(push_back(array, Inside(i), f))
PopBack(out)  == vector /\ \E f \in Budget : Return(pop_back(array, out, f))
SetAt(i, v)   == vector /\ \E f \in Budget : Return(set_at(array, i, v, f))
Push(v)       == pqueue /\ \E f \in Budget : Return(push(array, v, f))
Pop(out)      == pqueue /\ \E f \in Budget : Return(pop(array, out, f))
Reserve(n)    == array.open /\ ~torn /\ \E f \in Budget : Return(reserve(array, n, f))
ClearAll      == array.open /\ Return({Outcome("ok", clear(array))})

\* vector_box::deinit with release_element_storage, pqueue_box::deinit with
\* release_storage; ~Vector and ~Stack only clear, ~PQueue frees what it realloc'ed.
Release ==
    LET frees == "heap" \in array.flags \/ (form.policy = "runtime" /\ "heap" \in array.kind)
    IN  /\ array.open
        /\ array' = Closed
        /\ malloced' = IF frees /\ array.block = "heap" THEN malloced - 1 ELSE malloced
        /\ foreign' = (frees /\ array.block # "heap")
        /\ UNCHANGED <<form, torn>>

ArrayNext ==
    \/ \E c \in Forms, n \in Capacities : Open(c, n)
    \/ \E v \in Element : PushBack(v) \/ Push(v) \/ \E i \in 1..MaxCapacity : SetAt(i, v)
    \/ \E i \in 1..MaxCapacity : PushOwn(i) \/ Reserve(i)
    \/ \E out \in BOOLEAN : PopBack(out) \/ Pop(out)
    \/ ClearAll \/ Release

ArraySpec == ArrayInit /\ [][ArrayNext]_arrayVars

-----------------------------------------------------------------------------
(* Properties *)

\* The two ways to grow a block of the caller's (or, for PQueue, of an arena) that
\* end in free or realloc of memory malloc did not return.
GrowsForeign ==
    /\ form.growable /\ form.start # "heap"
    /\ \/ form.kind = "vector" /\ ~form.arena
       \/ form.kind = "pqueue" /\ form.policy = "typed"

\* The container frees exactly the blocks it allocated: it hands no other memory to
\* free or realloc, has one heap block at most, the one it uses, and leaves none
\* behind, however its calls failed, unless it grows out of a foreign block.
BlocksOwned ==
    ~GrowsForeign => ~foreign /\ malloced = IF array.open /\ array.block = "heap" THEN 1 ELSE 0

\* push_back, pop_back, set_at and reserve act on the sequence of the first size_
\* slots: a call that fails leaves it alone, whichever copy or allocation failed,
\* and a pushed element of the vector itself arrives intact unless the push moves
\* it out of memory that the move ends.
ActsAsSequence ==
    vector =>
      LET s == Elements(array)
          Holds(results, good) ==
            \A r \in results : \/ r.foreign
                               \/ Elements(r.a) = IF r.st = "ok" THEN good ELSE s
      IN  /\ array.size <= capacity(array) /\ \A i \in 1..array.size : s[i] # Dead
          /\ \A f \in Budget :
               /\ \A v \in Element : /\ Holds(push_back(array, Outside(v), f), Append(s, v))
                                   /\ \A i \in 1..MaxCapacity :
                                        Holds(set_at(array, i, v, f), [s EXCEPT ![i] = v])
               /\ \A i \in 1..array.size : array.size < capacity(array) \/ Outlives(array) =>
                                         Holds(push_back(array, Inside(i), f), Append(s, s[i]))
               /\ \A out \in BOOLEAN : Holds(pop_back(array, out, f), SubSeq(s, 1, array.size - 1))
               /\ \A n \in 1..MaxCapacity : Holds(reserve(array, n, f), s)

\* How often v is among the elements.
Occurrences(x, v) == Cardinality({i \in 1..x.size : x.slots[i] = v})

\* The root is a smallest element, push adds one element and pop takes out the
\* root, and a call that fails changes nothing, unless the copy that failed was one
\* of a sift, or the one that was to replace a destroyed root.
ActsAsPriorityQueue ==
    pqueue =>
      LET Differs(r, v, d) ==
            \A w \in Element : Occurrences(r.a, w) = Occurrences(array, w) + IF w = v THEN d ELSE 0
          Fails(r) == r.foreign \/ r.torn \/ Elements(r.a) = Elements(array)
      IN  /\ array.size <= capacity(array)
          /\ \A i \in 1..array.size : array.slots[i] \in Element /\ array.slots[1] <= array.slots[i]
          /\ \A f \in Budget :
               /\ \A v \in Element : \A r \in push(array, v, f) :
                    IF r.st = "ok" THEN Differs(r, v, 1) ELSE Fails(r)
               /\ \A out \in BOOLEAN : \A r \in pop(array, out, f) :
                    IF r.st = "ok" THEN Differs(r, array.slots[1], -1) ELSE Fails(r)
               /\ \A n \in 1..MaxCapacity : \A r \in reserve(array, n, f) :
                    r.foreign \/ Elements(r.a) = Elements(array)
=============================================================================
