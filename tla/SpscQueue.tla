------------------------------ MODULE SpscQueue ------------------------------
(***************************************************************************)
(* memkit::SpscQueue, the single-producer single-consumer queue of         *)
(* include/memkit/detail/spsc_queue_core.hpp.                              *)
(*                                                                         *)
(* The producer context and the consumer context run concurrently (an ISR  *)
(* and a task).  Every atomic load or store of head_ and tail_ and every   *)
(* construction, move or destruction of a slot is a step of its own.       *)
(* head_ and tail_ are size_t counters that are never masked, so they wrap *)
(* at Word = 2^w.                                                          *)
(*                                                                         *)
(* An acquire load of the other side's counter may return any value that   *)
(* counter has had since the last one this context saw: pview and cview    *)
(* are the last seen values.  A slot access is atomic here; NoDataRace is  *)
(* the property that makes this sound.                                     *)
(***************************************************************************)
EXTENDS Integers, Sequences

CONSTANTS Value,      \* the elements
          Empty,      \* a slot that holds no live object
          Capacity,   \* capacity_
          Word,       \* the number of values of a size_t
          Policies    \* whether queue_policy_ may have overwrite_on_full

\* init refuses a capacity below 2 or not a power of two, and 2^w is then a
\* multiple of it.
ASSUME SpscAssumption ==
    /\ Capacity \in Nat /\ Capacity >= 2
    /\ Word \in Nat /\ Word > Capacity /\ Word % Capacity = 0
    /\ Empty \notin Value
    /\ Policies \subseteq BOOLEAN

VARIABLES overwrite, \* queue_policy_ has overwrite_on_full, fixed by init
          head,    \* head_, stored by the consumer (and by an overwriting push)
          tail,    \* tail_, stored by the producer
          slots,   \* storage_
          ppc,     \* where the producer is in push
          pitem,   \* the argument of push
          pview,   \* the value of head_ the producer loaded last
          pres,    \* what the producer's last call returned
          cpc,     \* where the consumer is in pop or peek
          chead,   \* the value of head_ the consumer's call loaded
          cview,   \* the value of tail_ the consumer loaded last
          citem,   \* the object pop moved out of the slot
          cres,    \* what the consumer's last call returned
          out,     \* the element the last successful pop delivered
          peeked   \* what peek returned since the last pop

producerVars == <<ppc, pitem, pview, pres>>
consumerVars == <<cpc, chead, cview, citem, cres, out, peeked>>
vars == <<overwrite, head, tail, slots, producerVars, consumerVars>>

Counter == 0..(Word - 1)
Slot == 0..(Capacity - 1)
Item == Value \cup {Empty}

\* Arithmetic of size_t.
Inc(a) == (a + 1) % Word
Diff(a, b) == (a - b) % Word

\* index & mask_, for a power-of-two capacity.
slot_at(index) == index % Capacity

\* The values an acquire load may return: everything the counter has been
\* between the value this context saw last and its current one.
Visible(seen, current) == {c \in Counter : Diff(c, seen) <= Diff(current, seen)}

\* The slots that [head_, tail_) covers.
Held == {slot_at(head + i) : i \in 0..(Diff(tail, head) - 1)}

\* The values of the variables.
TypeOK ==
    /\ overwrite \in Policies
    /\ head \in Counter /\ tail \in Counter
    /\ slots \in [Slot -> Item]
    /\ ppc \in {"idle", "room", "written", "evict", "evicted", "replaced", "moved"}
    /\ pitem \in Item /\ pview \in Counter
    /\ pres \in {"none", "ok", "full", "room"}
    /\ cpc \in {"idle", "found", "taken", "destroyed", "peeking"}
    /\ chead \in Counter /\ cview \in Counter
    /\ citem \in Item /\ out \in Item /\ peeked \in Item
    /\ cres \in {"none", "ok", "empty", "some"}

Init ==
    /\ overwrite \in Policies
    /\ head = 0 /\ tail = 0
    /\ slots = [s \in Slot |-> Empty]
    /\ ppc = "idle" /\ pitem = Empty /\ pview = 0 /\ pres = "none"
    /\ cpc = "idle" /\ chead = 0 /\ cview = 0 /\ citem = Empty
    /\ cres = "none" /\ out = Empty /\ peeked = Empty
-----------------------------------------------------------------------------
(***************************************************************************)
(* push.  tail_ is the producer's own, so its relaxed load is exact; the   *)
(* acquire load of head_ decides.                                          *)
(***************************************************************************)

\* Mutant: the fullness test is off by one.
PushRoom_OneTooMany(v) ==
    /\ ppc = "idle"
    /\ \E h \in Visible(pview, head) : Diff(tail, h) <= Capacity /\ pview' = h
    /\ ppc' = "room" /\ pitem' = v
    /\ UNCHANGED <<overwrite, head, tail, slots, pres, consumerVars>>

\* tail - head < capacity_: the slot at tail is the producer's.
PushRoom(v) ==
    /\ ppc = "idle"
    /\ \E h \in Visible(pview, head) :
           /\ Diff(tail, h) < Capacity
           /\ pview' = h
    /\ ppc' = "room" /\ pitem' = v
    /\ UNCHANGED <<overwrite, head, tail, slots, pres, consumerVars>>

\* tail - head >= capacity_ without overwrite_on_full: return full.
PushFull ==
    /\ ppc = "idle" /\ ~overwrite
    /\ \E h \in Visible(pview, head) :
           /\ Diff(tail, h) >= Capacity
           /\ pview' = h
    /\ pres' = "full"
    /\ UNCHANGED <<overwrite, head, tail, slots, ppc, pitem, consumerVars>>

\* copy_construct into the slot at tail.
PushWrite ==
    /\ ppc = "room"
    /\ slots' = [slots EXCEPT ![slot_at(tail)] = pitem]
    /\ ppc' = "written"
    /\ UNCHANGED <<overwrite, head, tail, pitem, pview, pres, consumerVars>>

\* tail_.store(tail + 1, release), the last step of both kinds of push.
PushStore ==
    /\ ppc \in {"written", "moved"}
    /\ tail' = Inc(tail)
    /\ ppc' = "idle" /\ pres' = "ok"
    /\ UNCHANGED <<overwrite, head, slots, pitem, pview, consumerVars>>

\* overwrite_on_full: the producer itself takes the oldest element's slot.
PushEvict(v) ==
    /\ ppc = "idle" /\ overwrite
    /\ \E h \in Visible(pview, head) :
           /\ Diff(tail, h) >= Capacity
           /\ pview' = h
    /\ ppc' = "evict" /\ pitem' = v
    /\ UNCHANGED <<overwrite, head, tail, slots, pres, consumerVars>>

\* destroy(dst) for the slot at the loaded head.
EvictDestroy ==
    /\ ppc = "evict"
    /\ slots' = [slots EXCEPT ![slot_at(pview)] = Empty]
    /\ ppc' = "evicted"
    /\ UNCHANGED <<overwrite, head, tail, pitem, pview, pres, consumerVars>>

\* move_construct(dst, elem).
EvictConstruct ==
    /\ ppc = "evicted"
    /\ slots' = [slots EXCEPT ![slot_at(pview)] = pitem]
    /\ ppc' = "replaced"
    /\ UNCHANGED <<overwrite, head, tail, pitem, pview, pres, consumerVars>>

\* head_.store(head + 1, release), by the producer.
EvictStoreHead ==
    /\ ppc = "replaced"
    /\ head' = Inc(pview) /\ pview' = Inc(pview)
    /\ ppc' = "moved"
    /\ UNCHANGED <<overwrite, tail, slots, pitem, pres, consumerVars>>

\* Mutant: full() tests size() > capacity_.
QueryFull_OffByOne ==
    /\ ppc = "idle"
    /\ \E h \in Visible(pview, head) :
           /\ pview' = h
           /\ pres' = IF Diff(tail, h) > Capacity THEN "full" ELSE "room"
    /\ UNCHANGED <<overwrite, head, tail, slots, ppc, pitem, consumerVars>>

\* The producer calls full(): size() >= capacity_.
QueryFull ==
    /\ ppc = "idle"
    /\ \E h \in Visible(pview, head) :
           /\ pview' = h
           /\ pres' = IF Diff(tail, h) >= Capacity THEN "full" ELSE "room"
    /\ UNCHANGED <<overwrite, head, tail, slots, ppc, pitem, consumerVars>>
-----------------------------------------------------------------------------
(***************************************************************************)
(* pop and peek.  head_ is the consumer's own; the acquire load of tail_   *)
(* decides.                                                                *)
(***************************************************************************)

\* head != tail: the slot at head holds a published element.
PopFound ==
    /\ cpc = "idle"
    /\ \E t \in Visible(cview, tail) :
           /\ t # head
           /\ cview' = t
    /\ cpc' = "found" /\ chead' = head
    /\ UNCHANGED <<overwrite, head, tail, slots, citem, cres, out, peeked, producerVars>>

\* head == tail: pop and peek return empty, and so says empty().
PopEmpty ==
    /\ cpc = "idle"
    /\ head \in Visible(cview, tail)
    /\ cview' = head
    /\ cres' = "empty"
    /\ UNCHANGED <<overwrite, head, tail, slots, cpc, chead, citem, out, peeked, producerVars>>

\* move_construct(out, src).
PopMove ==
    /\ cpc = "found"
    /\ citem' = slots[slot_at(chead)]
    /\ cpc' = "taken"
    /\ UNCHANGED <<overwrite, head, tail, slots, chead, cview, cres, out, peeked, producerVars>>

\* destroy(src).
PopDestroy ==
    /\ cpc = "taken"
    /\ slots' = [slots EXCEPT ![slot_at(chead)] = Empty]
    /\ cpc' = "destroyed"
    /\ UNCHANGED <<overwrite, head, tail, chead, cview, citem, cres, out, peeked, producerVars>>

\* Mutant: pop forgets to store head_.
PopStore_Missing ==
    /\ cpc = "destroyed"
    /\ out' = citem /\ peeked' = Empty
    /\ cpc' = "idle" /\ cres' = "ok"
    /\ UNCHANGED <<overwrite, head, tail, slots, chead, cview, citem, producerVars>>

\* head_.store(head + 1, release) and return ok.
PopStore ==
    /\ cpc = "destroyed"
    /\ head' = Inc(chead)
    /\ out' = citem /\ peeked' = Empty
    /\ cpc' = "idle" /\ cres' = "ok"
    /\ UNCHANGED <<overwrite, tail, slots, chead, cview, citem, producerVars>>

\* peek finds an element and copies it without moving head_.
PeekFound ==
    /\ cpc = "idle"
    /\ \E t \in Visible(cview, tail) :
           /\ t # head
           /\ cview' = t
    /\ cpc' = "peeking" /\ chead' = head
    /\ UNCHANGED <<overwrite, head, tail, slots, citem, cres, out, peeked, producerVars>>

PeekCopy ==
    /\ cpc = "peeking"
    /\ peeked' = slots[slot_at(chead)]
    /\ cpc' = "idle" /\ cres' = "ok"
    /\ UNCHANGED <<overwrite, head, tail, slots, chead, cview, citem, out, producerVars>>

\* The consumer calls empty() and it says FALSE.
QueryNotEmpty ==
    /\ cpc = "idle"
    /\ \E t \in Visible(cview, tail) :
           /\ t # head
           /\ cview' = t
    /\ cres' = "some"
    /\ UNCHANGED <<overwrite, head, tail, slots, cpc, chead, citem, out, peeked, producerVars>>
-----------------------------------------------------------------------------
\* clear (also run by the destructor and by move assignment): pop until empty,
\* then reset both counters.  It stores tail_ as well as head_, so neither role
\* may be inside a call; whatever stops them also synchronises the views.
Clear ==
    /\ ppc = "idle" /\ cpc = "idle"
    /\ slots' = [s \in Slot |-> IF s \in Held THEN Empty ELSE slots[s]]
    /\ head' = 0 /\ tail' = 0 /\ pview' = 0 /\ cview' = 0
    /\ pres' = "none" /\ cres' = "none" /\ peeked' = Empty
    /\ UNCHANGED <<overwrite, ppc, pitem, cpc, chead, citem, out>>

ProducerStep ==
    PushWrite \/ PushStore \/ EvictDestroy \/ EvictConstruct \/ EvictStoreHead
Producer ==
    \/ \E v \in Value : PushRoom(v) \/ PushEvict(v)
    \/ PushFull \/ QueryFull \/ ProducerStep

ConsumerStep == PopMove \/ PopDestroy \/ PopStore \/ PeekCopy
Consumer == PopFound \/ PopEmpty \/ PeekFound \/ QueryNotEmpty \/ ConsumerStep

\* Calls that never overlap (one context, or critical sections around each
\* call): a call starts only when the other side is outside the queue, and its
\* loads are then exact.
SerialCalls ==
    \/ cpc = "idle" /\ Producer /\ (ppc = "idle" => pview' = head)
    \/ ppc = "idle" /\ Consumer /\ (cpc = "idle" => cview' = tail)
    \/ Clear

\* An overwriting push stores head_, the consumer's counter, so a queue with
\* overwrite_on_full is a serial one; without it the two contexts interleave.
Next ==
    \/ ~overwrite /\ (Producer \/ Consumer \/ Clear)
    \/ overwrite /\ SerialCalls

Spec == Init /\ [][Next]_vars

\* Both contexts finish the calls they start, and the consumer keeps polling: it
\* does not go on for ever peeking or asking empty() without ever calling pop,
\* and a store becomes visible to it in finite time.
FairSpec ==
    /\ Spec
    /\ WF_vars(ProducerStep) /\ WF_vars(ConsumerStep)
    /\ SF_vars(PopFound)

-----------------------------------------------------------------------------
\* The slot each side's next step accesses, if any.
ProducerSlot ==
    IF ppc = "room" THEN {slot_at(tail)}
    ELSE IF ppc \in {"evict", "evicted"} THEN {slot_at(pview)} ELSE {}
ConsumerSlot ==
    IF cpc \in {"found", "taken", "peeking"} THEN {slot_at(chead)} ELSE {}

\* No data race: push and pop (or peek) never have conflicting accesses to one
\* slot pending at the same time, so every slot access is ordered by the
\* release/acquire pairs on head_ and tail_.
NoDataRace == ProducerSlot \cap ConsumerSlot = {}

\* Object lifetime: the slots that hold a live object are exactly those in
\* [head_, tail_), plus the one push has constructed and not yet published,
\* minus the one pop (or an eviction) has destroyed and not yet released.  So
\* nothing is constructed over a live object, read after its destruction, or
\* leaked.
ElementLifetime ==
    {s \in Slot : slots[s] # Empty} =
        (Held \cup (IF ppc \in {"written", "moved"} THEN {slot_at(tail)} ELSE {}))
        \ ((IF cpc = "destroyed" THEN {slot_at(chead)} ELSE {})
            \cup (IF ppc = "evicted" THEN {slot_at(pview)} ELSE {}))

\* size() as either side computes it never exceeds the capacity, even when the
\* counters wrap and the other side's counter is seen late.
SizeBounded ==
    /\ Diff(tail, pview) <= Capacity
    /\ Diff(cview, head) <= Diff(tail, head)
    /\ Diff(tail, head) <= Diff(tail, pview)

\* Check-then-act by the producer: after full() said FALSE, no push of the same
\* producer is refused before it has pushed.
RoomIsStable == [][pres = "room" => pres' # "full"]_vars

\* Check-then-act by the consumer: after empty() said FALSE, pop does not return
\* empty before the consumer has popped.
SomeIsStable == [][cres = "some" => cres' # "empty"]_vars

\* The pop that follows a peek delivers the element peek showed.
PeekMatchesPop == [][PopStore => peeked \in {Empty, out'}]_vars

\* The elements of the queue, oldest first.  pop takes effect when it stores
\* head_, push when it stores tail_, an eviction when it destroys the oldest.
First == IF ppc \in {"evicted", "replaced"} THEN Inc(head) ELSE head
Contents ==
    [i \in 1..Diff(tail, First) |->
        IF i = 1 /\ cpc = "destroyed" THEN citem
        ELSE slots[slot_at(First + (i - 1))]]

F == INSTANCE Fifo WITH NoItem <- Empty, lossy <- overwrite, queue <- Contents

\* push, pop, peek and clear implement a bounded FIFO queue, whatever the
\* interleaving of their steps.
ImplementsFifo == F!FifoSpec

\* Every published element eventually leaves the queue, provided the consumer
\* keeps calling pop: no position of [head_, tail_) stays occupied for ever.
InQueue(c) == Diff(c, head) < Diff(tail, head)
EveryElementLeaves == \A c \in Counter : InQueue(c) ~> ~InQueue(c)
=============================================================================
