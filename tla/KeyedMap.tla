------------------------------ MODULE KeyedMap ------------------------------
(***************************************************************************)
(* What a map promises, or a set, which has one value: a partial function  *)
(* from keys to values that changes at one key at a time, or is emptied.   *)
(***************************************************************************)
EXTENDS TLC

CONSTANTS Key, Value
VARIABLE contents

Without(f, k) == [j \in DOMAIN f \ {k} |-> f[j]]

Init == contents = <<>>

Put(k, v) == contents' = (k :> v) @@ contents
Remove(k) == k \in DOMAIN contents /\ contents' = Without(contents, k)
Clear     == contents' = <<>>

Next == Clear \/ \E k \in Key : Remove(k) \/ \E v \in Value : Put(k, v)

Spec == Init /\ [][Next]_contents
=============================================================================
