-------------------------------- MODULE Deque --------------------------------
(***************************************************************************)
(* What the ring-shaped containers of memkit (Ring, Queue, Deque, ByteRing *)
(* and RingLog) promise: a sequence of elements, index 1 the oldest, that  *)
(* changes only at its ends or by replacement in place.  Storing into a    *)
(* full lossy container drops the element at the other end.                *)
(***************************************************************************)
EXTENDS Naturals, Sequences

CONSTANTS Value, NoItem

VARIABLES deque,   \* the elements, front first
          out      \* the element taken last

dequeVars == <<deque, out>>

\* Nothing held, nothing taken.
DequeInit == deque = <<>> /\ out = NoItem

\* The last element of a sequence is dropped.
Front(s) == SubSeq(s, 1, Len(s) - 1)

AddBack(v)  == deque' = Append(deque, v) /\ UNCHANGED out
AddFront(v) == deque' = <<v>> \o deque /\ UNCHANGED out

\* Storing into a full lossy container.
ReplaceOldest(v) == deque # <<>> /\ deque' = Append(Tail(deque), v) /\ UNCHANGED out
ReplaceNewest(v) == deque # <<>> /\ deque' = <<v>> \o Front(deque) /\ UNCHANGED out

\* Elements leave one at a time, to the caller or to be discarded.
TakeFront ==
    /\ deque # <<>> /\ deque' = Tail(deque)
    /\ out' \in {out, Head(deque)}
TakeBack ==
    /\ deque # <<>> /\ deque' = Front(deque)
    /\ out' \in {out, deque[Len(deque)]}

Replace(v) ==
    /\ \E i \in 1..Len(deque) : deque' = [deque EXCEPT ![i] = v]
    /\ UNCHANGED out

\* Elements filled in place join at the back; elements read in place leave at
\* the front.
Extend ==
    /\ Len(deque') > Len(deque) /\ SubSeq(deque', 1, Len(deque)) = deque
    /\ \A i \in 1..Len(deque') : deque'[i] \in Value
    /\ UNCHANGED out
Skip ==
    /\ \E n \in 1..Len(deque) : deque' = SubSeq(deque, n + 1, Len(deque))
    /\ UNCHANGED out

DequeNext ==
    \/ \E v \in Value : \/ AddBack(v) \/ AddFront(v) \/ Replace(v)
                        \/ ReplaceOldest(v) \/ ReplaceNewest(v)
    \/ TakeFront \/ TakeBack \/ Extend \/ Skip

DequeSpec == DequeInit /\ [][DequeNext]_dequeVars
=============================================================================
