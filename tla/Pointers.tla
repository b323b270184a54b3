------------------------------ MODULE Pointers ------------------------------
(***************************************************************************)
(* Walks over linked nodes, for the modules whose containers are made of   *)
(* them: a node is a positive number and the null pointer is 0.            *)
(***************************************************************************)
EXTENDS Naturals

Nil == 0

\* The node `steps' links after `start'; a walk off the end stays at Nil.
Follow(link, start, steps) ==
    LET at[k \in 0..steps] ==
          IF k = 0 THEN start
          ELSE IF at[k - 1] = Nil THEN Nil ELSE link[at[k - 1]]
    IN  at[steps]

\* The nodes a walk of at most `steps' links meets.
Reach(link, start, steps) == {Follow(link, start, i) : i \in 0..steps} \ {Nil}
=============================================================================
