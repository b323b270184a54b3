-------------------------------- MODULE Fifo --------------------------------
(***************************************************************************)
(* What a bounded queue of memkit promises: elements leave in the order in *)
(* which they were accepted, none is lost, duplicated or made up, and no   *)
(* more than Capacity are held.  A lossy queue may in addition drop its    *)
(* oldest element, and only when it is full.                               *)
(***************************************************************************)
EXTENDS Naturals, Sequences

CONSTANTS Value,     \* the elements
          NoItem,    \* "nothing has been delivered yet"
          Capacity   \* the number of elements the queue can hold

VARIABLES lossy,     \* TRUE: the oldest element may be evicted when full
          queue,     \* the accepted elements, oldest first
          out        \* the element delivered last

fifoVars == <<lossy, queue, out>>

FifoInit == lossy \in BOOLEAN /\ queue = <<>> /\ out = NoItem

Accept(v) ==
    /\ Len(queue) < Capacity
    /\ queue' = Append(queue, v)
    /\ UNCHANGED <<lossy, out>>

Deliver ==
    /\ queue # <<>>
    /\ out' = Head(queue)
    /\ queue' = Tail(queue)
    /\ UNCHANGED lossy

Evict ==
    /\ lossy
    /\ Len(queue) = Capacity
    /\ queue' = Tail(queue)
    /\ UNCHANGED <<lossy, out>>

Discard ==
    /\ queue' = <<>>
    /\ UNCHANGED <<lossy, out>>

FifoNext == (\E v \in Value : Accept(v)) \/ Deliver \/ Evict \/ Discard

FifoSpec == FifoInit /\ [][FifoNext]_fifoVars
=============================================================================
