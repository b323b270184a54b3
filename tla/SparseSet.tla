------------------------------ MODULE SparseSet ------------------------------
(***************************************************************************)
(* sparse_set_core (memkit::SparseSet): a set of ids below max_id_.        *)
(* dense_ lists the ids, sparse_ has the place of each.  init does not     *)
(* write the two arrays and clear and remove leave old entries in them, so *)
(* an id is in the set only if its entries in both point at each other.    *)
(*                                                                         *)
(* The operators take and return the members of the core; MapsAndSets has  *)
(* them as state.                                                          *)
(***************************************************************************)
EXTENDS Naturals

CONSTANT MaxId   \* max_id_

ASSUME MaxIdAssumption == MaxId \in Nat \ {0}

Id == 0..(MaxId - 1)

\* The set after init, on arrays with any contents.  MaxId stands for every number
\* that is too large; dense_ is read only where it was written.
sparse_init ==
    {[size |-> 0, dense |-> [i \in Id |-> 0], sparse |-> s] : s \in [Id -> 0..MaxId]}

contains(t, id) ==
    /\ id \in Id
    /\ t.sparse[id] < t.size
    /\ t.dense[t.sparse[id]] = id

sparse_insert(t, id) ==
    IF id \notin Id THEN [st |-> "invalid", set |-> t]
    ELSE IF contains(t, id) THEN [st |-> "ok", set |-> t]
    ELSE [st |-> "ok", set |-> [size |-> t.size + 1,
                                dense |-> [t.dense EXCEPT ![t.size] = id],
                                sparse |-> [t.sparse EXCEPT ![id] = t.size]]]

\* The last id takes the place of the one that leaves.
sparse_remove(t, id) ==
    IF ~contains(t, id) THEN [st |-> "not_found", set |-> t]
    ELSE LET pos     == t.sparse[id]
             last_id == t.dense[t.size - 1]
         IN  [st |-> "ok", set |-> [size |-> t.size - 1,
                                    dense |-> [t.dense EXCEPT ![pos] = last_id],
                                    sparse |-> [t.sparse EXCEPT ![last_id] = pos, ![id] = 0]]]

sparse_clear(t) == [t EXCEPT !.size = 0]
=============================================================================
