--------------------------- MODULE SpscQueueProofs ---------------------------
(***************************************************************************)
(* Proofs about SpscQueue, for every capacity, word size and set of        *)
(* elements.  The theorems are about the policies none and drop_on_full;   *)
(* overwrite_on_full does not have these properties when the two sides run *)
(* concurrently.                                                           *)
(***************************************************************************)
EXTENDS SpscQueue, ModArith

-----------------------------------------------------------------------------
(***************************************************************************)
(* Counters: Diff and Inc piecewise, and how far apart slots are.          *)
(***************************************************************************)

\* The constants are integers with 0 < Capacity < Word.
LEMMA Sizes ==
    /\ Capacity \in Nat \ {0} /\ Word \in Nat \ {0} /\ Word \in Int
    /\ Word % Capacity = 0 /\ Capacity < Word /\ 2 <= Capacity
BY SpscAssumption

\* The size_t subtraction tail - head of push, pop and size(), without %.
LEMMA DiffCases ==
    ASSUME NEW a \in Counter, NEW b \in Counter
    PROVE  Diff(a, b) = IF a >= b THEN a - b ELSE (a - b) + Word
<1>1. a \in 0..(Word - 1) /\ b \in 0..(Word - 1)
    BY DEF Counter
<1>. QED  BY <1>1, Sizes, ModMinus DEF Diff

\* The size_t increment of head_ and tail_, without %.
LEMMA IncCases ==
    ASSUME NEW a \in Counter
    PROVE  Inc(a) = IF a = Word - 1 THEN 0 ELSE a + 1
<1>1. a \in 0..(Word - 1)
    BY DEF Counter
<1>. QED  BY <1>1, Sizes, ModSucc DEF Inc

\* head_, tail_ and the loaded values stay size_t under + 1 and -.
LEMMA CounterFacts ==
    ASSUME NEW a \in Counter, NEW b \in Counter
    PROVE  /\ a \in Nat /\ a < Word
           /\ Inc(a) \in Counter
           /\ Diff(a, b) \in 0..(Word - 1)
           /\ Diff(a, b) = 0 <=> a = b
           /\ Diff(a, b) < Word - 1 => Diff(Inc(a), b) = Diff(a, b) + 1
           /\ Diff(a, b) > 0 => Diff(a, Inc(b)) = Diff(a, b) - 1
<1>1. Inc(a) \in Counter /\ Inc(b) \in Counter
    BY IncCases, Sizes DEF Counter
<1>2. Diff(Inc(a), b) = IF Inc(a) >= b THEN Inc(a) - b ELSE (Inc(a) - b) + Word
    BY <1>1, DiffCases
<1>3. Diff(a, Inc(b)) = IF a >= Inc(b) THEN a - Inc(b) ELSE (a - Inc(b)) + Word
    BY <1>1, DiffCases
<1>4. a \in Nat /\ a < Word /\ b \in Nat /\ b < Word
    BY Sizes DEF Counter
<1>5. Diff(a, b) \in 0..(Word - 1) /\ (Diff(a, b) = 0 <=> a = b)
    BY <1>4, DiffCases, Sizes
<1>6. Diff(a, b) < Word - 1 => Diff(Inc(a), b) = Diff(a, b) + 1
    BY <1>2, <1>4, DiffCases, IncCases, Sizes
<1>7. Diff(a, b) > 0 => Diff(a, Inc(b)) = Diff(a, b) - 1
    BY <1>3, <1>4, DiffCases, IncCases, Sizes
<1>. QED  BY <1>1, <1>4, <1>5, <1>6, <1>7

\* slot_at maps every position to a slot, and wraps with the counters.
LEMMA SlotFacts ==
    ASSUME NEW a \in Int
    PROVE  /\ slot_at(a) \in Slot
           /\ slot_at(a + Word) = slot_at(a)
           /\ slot_at(a - Word) = slot_at(a)
           /\ \A b \in Int : a < b /\ b - a < Capacity => slot_at(a) # slot_at(b)
<1>1. slot_at(a) \in Slot
    BY Sizes, ModDef DEF slot_at, Slot
<1>2. slot_at(a + Word) = slot_at(a) /\ slot_at(a - Word) = slot_at(a)
    BY Sizes, ModMultiple DEF slot_at
<1>3. ASSUME NEW b \in Int, a < b, b - a < Capacity PROVE slot_at(a) # slot_at(b)
    BY <1>3, Sizes, ModNear DEF slot_at
<1>. QED  BY <1>1, <1>2, <1>3

\* slot_at(head_) and slot_at(tail_) are slots of the storage.
LEMMA SlotOfCounter == ASSUME NEW c \in Counter PROVE c \in Int /\ slot_at(c) \in Slot
<1>1. c \in Int
    BY CounterFacts
<1>. QED  BY <1>1, SlotFacts

\* The slot of tail_ is the one Diff(tail_, head_) after the slot of head_.
LEMMA SlotOfTail ==
    ASSUME NEW h \in Counter, NEW t \in Counter
    PROVE  slot_at(h + Diff(t, h)) = slot_at(t)
<1>1. h \in Int /\ t \in Int
    BY CounterFacts
<1>2. h + Diff(t, h) = t \/ h + Diff(t, h) = t + Word
    BY <1>1, DiffCases, Sizes
<1>. QED  BY <1>1, <1>2, SlotFacts

\* Advancing head_ renumbers the slots behind it by one.
LEMMA SlotOfInc ==
    ASSUME NEW h \in Counter, NEW i \in Int
    PROVE  slot_at(Inc(h) + i) = slot_at((h + 1) + i)
<1>1. h \in Int
    BY CounterFacts
<1>2. CASE h = Word - 1
    <2>1. Inc(h) + i = (h + 1 + i) - Word
        BY <1>1, <1>2, IncCases, Sizes
    <2>2. h + 1 + i \in Int
        BY <1>1
    <2>. QED  BY <2>1, <2>2, SlotFacts
<1>3. CASE h # Word - 1
    BY <1>1, <1>3, IncCases
<1>. QED  BY <1>2, <1>3

\* A load of head_ by the producer keeps the producer's size() an upper bound.
LEMMA ViewOfHead ==
    ASSUME NEW t \in Counter, NEW h \in Counter, NEW seen \in Counter,
           Diff(t, h) <= Diff(t, seen),
           NEW c \in Visible(seen, h)
    PROVE  c \in Counter /\ Diff(t, h) <= Diff(t, c) /\ Diff(t, c) <= Diff(t, seen)
<1>1. c \in Counter /\ Diff(c, seen) <= Diff(h, seen)
    BY DEF Visible
<1>2. t \in Int /\ h \in Int /\ seen \in Int /\ c \in Int
    BY <1>1, CounterFacts
<1>. QED  BY <1>1, <1>2, DiffCases, CounterFacts, Sizes

\* A load of tail_ by the consumer keeps the consumer's size() a lower bound.
LEMMA ViewOfTail ==
    ASSUME NEW t \in Counter, NEW h \in Counter, NEW seen \in Counter,
           Diff(seen, h) <= Diff(t, h),
           NEW c \in Visible(seen, t)
    PROVE  c \in Counter /\ Diff(seen, h) <= Diff(c, h) /\ Diff(c, h) <= Diff(t, h)
<1>1. c \in Counter /\ Diff(c, seen) <= Diff(t, seen)
    BY DEF Visible
<1>2. t \in Int /\ h \in Int /\ seen \in Int /\ c \in Int
    BY <1>1, CounterFacts
<1>. QED  BY <1>1, <1>2, DiffCases, CounterFacts, Sizes

-----------------------------------------------------------------------------
(***************************************************************************)
(* The slots of [h, t): how the set changes when a counter advances.       *)
(***************************************************************************)

HeldBy(h, t) == {slot_at(h + i) : i \in 0..(Diff(t, h) - 1)}

\* The store of tail_ in push adds the slot at tail to [head_, tail_).
LEMMA HeldGrows ==
    ASSUME NEW h \in Counter, NEW t \in Counter, Diff(t, h) < Capacity
    PROVE  /\ HeldBy(h, Inc(t)) = HeldBy(h, t) \cup {slot_at(t)}
           /\ slot_at(t) \notin HeldBy(h, t)
<1>. DEFINE u == Diff(t, h)
<1>1. u \in Nat /\ u < Capacity /\ h \in Int /\ u \in Int
    BY CounterFacts, Sizes
<1>2. Diff(Inc(t), h) = u + 1
    BY <1>1, CounterFacts, Sizes
<1>3. slot_at(h + u) = slot_at(t)
    BY SlotOfTail
<1>4. 0..((u + 1) - 1) = (0..(u - 1)) \cup {u}
    BY <1>1
<1>5. HeldBy(h, Inc(t)) = HeldBy(h, t) \cup {slot_at(h + u)}
    BY <1>2, <1>4 DEF HeldBy
<1>6. ASSUME NEW i \in 0..(u - 1) PROVE slot_at(h + i) # slot_at(h + u)
    <2>1. h + i \in Int /\ h + u \in Int /\ h + i < h + u /\ (h + u) - (h + i) < Capacity
        BY <1>1, Sizes
    <2>. QED  BY <2>1, SlotFacts
<1>. QED  BY <1>3, <1>5, <1>6 DEF HeldBy

\* The store of head_ in pop removes the slot at head from [head_, tail_).
LEMMA HeldShrinks ==
    ASSUME NEW h \in Counter, NEW t \in Counter, Diff(t, h) > 0, Diff(t, h) <= Capacity
    PROVE  /\ HeldBy(Inc(h), t) = HeldBy(h, t) \ {slot_at(h)}
           /\ slot_at(h) \in HeldBy(h, t)
<1>. DEFINE u == Diff(t, h)
<1>1. u \in Nat /\ u > 0 /\ u <= Capacity /\ h \in Int
    BY CounterFacts
<1>2. Diff(t, Inc(h)) = u - 1
    BY <1>1, CounterFacts
<1>3. \A i \in Int : slot_at(Inc(h) + i) = slot_at((h + 1) + i)
    BY SlotOfInc
<1>4. ASSUME NEW i \in 1..(u - 1) PROVE slot_at(h + i) # slot_at(h)
    <2>1. h + i \in Int /\ h < h + i /\ (h + i) - h < Capacity
        BY <1>1, Sizes
    <2>. QED  BY <1>1, <2>1, SlotFacts
<1>5. slot_at(h) \in HeldBy(h, t)
    <2>1. 0 \in 0..(u - 1) /\ h + 0 = h
        BY <1>1
    <2>. QED  BY <2>1 DEF HeldBy
<1>6. ASSUME NEW s \in HeldBy(Inc(h), t) PROVE s \in HeldBy(h, t) \ {slot_at(h)}
    <2>1. PICK i \in 0..((u - 1) - 1) : s = slot_at(Inc(h) + i)
        BY <1>2, <1>6 DEF HeldBy
    <2>2. i + 1 \in 1..(u - 1) /\ h + 1 + i = h + (i + 1) /\ i + 1 \in 0..(u - 1)
        BY <1>1
    <2>3. s = slot_at(h + (i + 1))
        BY <1>3, <2>1, <2>2
    <2>. QED  BY <1>4, <2>2, <2>3 DEF HeldBy
<1>7. ASSUME NEW s \in HeldBy(h, t), s # slot_at(h) PROVE s \in HeldBy(Inc(h), t)
    <2>1. PICK i \in 0..(u - 1) : s = slot_at(h + i)
        BY DEF HeldBy
    <2>2. i # 0
        BY <1>1, <1>7, <2>1
    <2>3. i - 1 \in 0..((u - 1) - 1) /\ h + 1 + (i - 1) = h + i
        BY <1>1, <2>2
    <2>4. s = slot_at(Inc(h) + (i - 1))
        BY <1>3, <2>1, <2>3
    <2>. QED  BY <1>2, <2>3, <2>4 DEF HeldBy
<1>. QED  BY <1>5, <1>6, <1>7

\* Held as a function of the two counters.
LEMMA HeldIsHeldBy == Held = HeldBy(head, tail) /\ Held' = HeldBy(head', tail')
BY DEF Held, HeldBy

-----------------------------------------------------------------------------
(***************************************************************************)
(* The inductive invariant.                                                *)
(***************************************************************************)

\* The element pop would deliver.
Front == IF cpc = "destroyed" THEN citem ELSE slots[slot_at(head)]

ProducerInv ==
    /\ ppc \in {"idle", "room", "written"}
    /\ ppc # "idle" => Diff(tail, pview) < Capacity /\ pitem \in Value
    /\ ppc = "written" => slots[slot_at(tail)] = pitem
    /\ pres = "room" => Diff(tail, pview) < Capacity

ConsumerInv ==
    /\ cpc # "idle" => chead = head /\ cview # head
    /\ cpc = "taken" => citem = slots[slot_at(head)]
    /\ cpc = "destroyed" => citem \in Value
    /\ cres = "some" => cview # head
    /\ peeked # Empty => cview # head /\ peeked = Front

Inv == TypeOK /\ SizeBounded /\ ProducerInv /\ ConsumerInv /\ ElementLifetime

\* What Inv says of the three counters, in one place.
LEMMA InvCounters ==
    ASSUME Inv
    PROVE  /\ head \in Counter /\ tail \in Counter /\ pview \in Counter /\ cview \in Counter
           /\ Diff(tail, head) \in Nat /\ Diff(tail, pview) \in Nat /\ Diff(cview, head) \in Nat
           /\ Diff(tail, head) <= Capacity
           /\ ppc # "idle" => Diff(tail, head) < Capacity
           /\ cview # head => Diff(tail, head) > 0
           /\ cpc # "idle" => chead = head /\ Diff(tail, head) > 0
<1>1. head \in Counter /\ tail \in Counter /\ pview \in Counter /\ cview \in Counter
    BY DEF Inv, TypeOK
<1>2. /\ Diff(tail, head) \in Nat /\ Diff(tail, pview) \in Nat /\ Diff(cview, head) \in Nat
      /\ Diff(cview, head) = 0 <=> cview = head
    BY <1>1, CounterFacts
<1>. QED  BY <1>1, <1>2, Sizes DEF Inv, SizeBounded, ProducerInv, ConsumerInv

\* The front slot holds an element until pop destroys it.
LEMMA FrontIsLive ==
    ASSUME Inv, Diff(tail, head) > 0, cpc # "destroyed"
    PROVE  slots[slot_at(head)] \in Value
<1>1. slot_at(head) \in Held
    BY InvCounters, HeldShrinks, HeldIsHeldBy
<1>2. slot_at(head) \in Slot
    BY InvCounters, SlotOfCounter
<1>3. slots[slot_at(head)] # Empty
    BY <1>1, <1>2 DEF Inv, ElementLifetime, ProducerInv
<1>. QED  BY <1>2, <1>3 DEF Inv, TypeOK, Item

\* The freshly initialised queue satisfies the invariant.
LEMMA InitInv == Init => Inv
<1>1. SUFFICES ASSUME Init PROVE Inv
    OBVIOUS
<1>2. 0 \in Counter /\ Diff(0, 0) = 0
    <2>1. 0 \in Counter
        BY Sizes DEF Counter
    <2>. QED  BY <2>1, CounterFacts
<1>3. TypeOK
    BY <1>1, <1>2 DEF Init, TypeOK, Item
<1>4. SizeBounded
    BY <1>1, <1>2, Sizes DEF Init, SizeBounded
<1>5. ProducerInv /\ ConsumerInv
    BY <1>1, <1>2, Sizes DEF Init, ProducerInv, ConsumerInv
<1>6. ElementLifetime
    <2>1. Held = {}
        <3>1. 0..(0 - 1) = {}
            OBVIOUS
        <3>. QED  BY <1>1, <1>2, <3>1 DEF Init, Held
    <2>. QED  BY <1>1, <2>1 DEF Init, ElementLifetime
<1>. QED  BY <1>3, <1>4, <1>5, <1>6 DEF Inv

-----------------------------------------------------------------------------
(***************************************************************************)
(* Every step preserves the invariant.                                     *)
(***************************************************************************)

\* Without the policy overwrite_on_full no queue evicts.
LEMMA NeverOverwrites == ASSUME Inv, Policies = {FALSE} PROVE overwrite = FALSE
BY DEF Inv, TypeOK

\* Then every step is one of the two contexts, or clear.
LEMMA QueueStep ==
    ASSUME Inv, Policies = {FALSE}, [Next]_vars
    PROVE  Producer \/ Consumer \/ Clear \/ UNCHANGED vars
BY NeverOverwrites DEF Next

\* A producer call that only loads head_.
LEMMA ProducerLoadInv ==
    ASSUME Inv, Policies = {FALSE},
           \/ \E v \in Value : PushRoom(v) \/ PushEvict(v)
           \/ PushFull
           \/ QueryFull
    PROVE  Inv'
<1>1. PICK h \in Visible(pview, head) :
        /\ pview' = h
        /\ ppc = "idle" /\ ppc' \in {"idle", "room"} /\ pitem' \in Item
        /\ ppc' = "room" => Diff(tail, h) < Capacity /\ pitem' \in Value
        /\ pres' \in {pres, "full", "room"}
        /\ pres' = "room" => pres = "room" \/ Diff(tail, h) < Capacity
        /\ UNCHANGED <<overwrite, head, tail, slots, consumerVars>>
    <2>1. CASE \E v \in Value : PushRoom(v)
        BY <2>1 DEF PushRoom, Item
    <2>2. CASE PushFull
        BY <2>2 DEF PushFull, Inv, TypeOK
    <2>3. CASE QueryFull
        <3>1. PICK h \in Visible(pview, head) :
                /\ pview' = h
                /\ pres' = IF Diff(tail, h) >= Capacity THEN "full" ELSE "room"
            BY <2>3 DEF QueryFull
        <3>2. h \in Counter /\ Diff(tail, h) \in Nat
            BY InvCounters, CounterFacts DEF Visible
        <3>. QED  BY <2>3, <3>1, <3>2, Sizes DEF QueryFull, Inv, TypeOK
    <2>. QED  BY <2>1, <2>2, <2>3, NeverOverwrites DEF PushEvict
<1>2. /\ h \in Counter /\ Diff(tail, h) \in Nat
      /\ Diff(tail, head) <= Diff(tail, h) /\ Diff(tail, h) <= Diff(tail, pview)
    <2>1. Diff(tail, head) <= Diff(tail, pview)
        BY DEF Inv, SizeBounded
    <2>2. h \in Counter
        BY DEF Visible
    <2>. QED  BY <2>1, <2>2, InvCounters, ViewOfHead, CounterFacts
<1>3. TypeOK'
    BY <1>1, <1>2 DEF Inv, TypeOK, consumerVars
<1>4. SizeBounded'
    BY <1>1, <1>2, InvCounters, Sizes DEF Inv, SizeBounded, consumerVars
<1>5. ProducerInv'
    BY <1>1, <1>2, InvCounters, Sizes DEF Inv, ProducerInv
<1>6. ConsumerInv'
    BY <1>1 DEF Inv, ConsumerInv, Front, consumerVars
<1>7. ElementLifetime'
    BY <1>1 DEF Inv, ElementLifetime, Held, consumerVars
<1>. QED  BY <1>3, <1>4, <1>5, <1>6, <1>7 DEF Inv

\* push's construction of the element preserves the invariant.
LEMMA PushWriteInv == ASSUME Inv, PushWrite PROVE Inv'
<1>. USE DEF PushWrite, consumerVars
<1>1. tail \in Int /\ slot_at(tail) \in Slot
    BY InvCounters, SlotOfCounter
<1>2. slot_at(tail) \notin Held
    BY InvCounters, HeldGrows, HeldIsHeldBy
<1>3. TypeOK'
    BY DEF Inv, TypeOK
<1>4. SizeBounded'
    BY DEF Inv, SizeBounded
<1>5. slots'[slot_at(tail)] = pitem /\ \A s \in Slot : s # slot_at(tail) => slots'[s] = slots[s]
    BY <1>1 DEF Inv, TypeOK
<1>6. ProducerInv'
    BY <1>5 DEF Inv, ProducerInv
<1>7. cview # head => slots'[slot_at(head)] = slots[slot_at(head)]
    <2>1. cview # head => slot_at(head) \in Held
        BY InvCounters, HeldShrinks, HeldIsHeldBy
    <2>2. slot_at(head) \in Slot
        BY InvCounters, SlotOfCounter
    <2>. QED  BY <1>2, <1>5, <2>1, <2>2
<1>8. ConsumerInv'
    BY <1>7 DEF Inv, ConsumerInv, Front
<1>9. ElementLifetime'
    <2>1. pitem # Empty
        BY SpscAssumption DEF Inv, ProducerInv
    <2>2. {s \in Slot : slots'[s] # Empty} = {s \in Slot : slots[s] # Empty} \cup {slot_at(tail)}
        BY <1>1, <1>5, <2>1
    <2>3. cpc = "destroyed" => slot_at(chead) # slot_at(tail)
        BY <1>2, InvCounters, HeldShrinks, HeldIsHeldBy
    <2>4. Held' = Held
        BY DEF Held
    <2>. QED  BY <2>2, <2>3, <2>4 DEF Inv, ElementLifetime
<1>. QED  BY <1>3, <1>4, <1>6, <1>8, <1>9 DEF Inv

\* push's release store of tail_ preserves the invariant.
LEMMA PushStoreInv == ASSUME Inv, PushStore PROVE Inv'
<1>. USE DEF PushStore, consumerVars
<1>1. ppc = "written"
    BY DEF Inv, ProducerInv
<1>2. /\ Diff(tail, head) < Capacity /\ Diff(tail, pview) < Capacity
      /\ Inc(tail) \in Counter
      /\ Diff(Inc(tail), head) = Diff(tail, head) + 1
      /\ Diff(Inc(tail), pview) = Diff(tail, pview) + 1
    BY <1>1, InvCounters, CounterFacts, Sizes DEF Inv, ProducerInv
<1>3. TypeOK'
    BY <1>2 DEF Inv, TypeOK
<1>4. SizeBounded'
    BY <1>2, InvCounters, Sizes DEF Inv, SizeBounded
<1>5. ProducerInv'
    BY DEF Inv, ProducerInv
<1>6. ConsumerInv'
    BY DEF Inv, ConsumerInv, Front
<1>7. ElementLifetime'
    <2>1. Held' = Held \cup {slot_at(tail)}
        BY <1>2, InvCounters, HeldGrows, HeldIsHeldBy
    <2>. QED  BY <1>1, <2>1 DEF Inv, ElementLifetime
<1>. QED  BY <1>3, <1>4, <1>5, <1>6, <1>7 DEF Inv

\* A consumer call that only loads tail_.
LEMMA ConsumerLoadInv ==
    ASSUME Inv, PopFound \/ PopEmpty \/ PeekFound \/ QueryNotEmpty
    PROVE  Inv'
<1>1. PICK t \in Visible(cview, tail) :
        /\ cview' = t
        /\ cpc = "idle" /\ cpc' \in {"idle", "found", "peeking"}
        /\ cpc' # "idle" => chead' = head /\ t # head
        /\ chead' \in {chead, head}
        /\ cres' \in {cres, "empty", "some"}
        /\ cres' = "some" => cres = "some" \/ t # head
        /\ UNCHANGED <<overwrite, head, tail, slots, citem, out, peeked, producerVars>>
    <2>1. CASE PopFound
        BY <2>1 DEF PopFound
    <2>2. CASE PopEmpty
        BY <2>2 DEF PopEmpty
    <2>3. CASE PeekFound
        BY <2>3 DEF PeekFound
    <2>4. CASE QueryNotEmpty
        BY <2>4 DEF QueryNotEmpty
    <2>. QED  BY <2>1, <2>2, <2>3, <2>4
<1>2. /\ t \in Counter /\ Diff(t, head) \in Nat
      /\ Diff(cview, head) <= Diff(t, head) /\ Diff(t, head) <= Diff(tail, head)
    <2>1. Diff(cview, head) <= Diff(tail, head)
        BY DEF Inv, SizeBounded
    <2>2. t \in Counter
        BY DEF Visible
    <2>. QED  BY <2>1, <2>2, InvCounters, ViewOfTail, CounterFacts
<1>3. cview # head => t # head
    <2>1. (Diff(cview, head) = 0 <=> cview = head) /\ (Diff(t, head) = 0 <=> t = head)
        BY <1>2, InvCounters, CounterFacts
    <2>. QED  BY <1>2, <2>1, InvCounters
<1>4. TypeOK'
    BY <1>1, <1>2 DEF Inv, TypeOK, producerVars
<1>5. SizeBounded'
    BY <1>1, <1>2 DEF Inv, SizeBounded, producerVars
<1>6. ProducerInv'
    BY <1>1 DEF Inv, ProducerInv, producerVars
<1>7. ConsumerInv'
    BY <1>1, <1>3 DEF Inv, ConsumerInv, Front
<1>8. ElementLifetime'
    BY <1>1 DEF Inv, ElementLifetime, Held, producerVars
<1>. QED  BY <1>4, <1>5, <1>6, <1>7, <1>8 DEF Inv

\* A consumer step that only reads the slot.
LEMMA ConsumerReadInv == ASSUME Inv, PopMove \/ PeekCopy PROVE Inv'
<1>. USE DEF PopMove, PeekCopy, producerVars
<1>1. chead = head /\ cview # head /\ slots[slot_at(head)] \in Value
    BY InvCounters, FrontIsLive DEF Inv, ConsumerInv
<1>2. TypeOK'
    BY <1>1 DEF Inv, TypeOK, Item
<1>3. SizeBounded'
    BY DEF Inv, SizeBounded
<1>4. ProducerInv'
    BY DEF Inv, ProducerInv
<1>5. ConsumerInv'
    BY <1>1 DEF Inv, ConsumerInv, Front
<1>6. ElementLifetime'
    BY DEF Inv, ElementLifetime, Held
<1>. QED  BY <1>2, <1>3, <1>4, <1>5, <1>6 DEF Inv

\* pop's destruction of the element preserves the invariant.
LEMMA PopDestroyInv == ASSUME Inv, PopDestroy PROVE Inv'
<1>. USE DEF PopDestroy, producerVars
<1>1. /\ chead = head /\ cview # head /\ slot_at(head) \in Slot
      /\ citem = slots[slot_at(head)] /\ citem \in Value
    BY InvCounters, SlotOfCounter, FrontIsLive DEF Inv, ConsumerInv
<1>2. slots'[slot_at(head)] = Empty /\ \A s \in Slot : s # slot_at(head) => slots'[s] = slots[s]
    BY <1>1 DEF Inv, TypeOK
<1>3. ppc = "written" => slot_at(tail) # slot_at(head) /\ slot_at(tail) \in Slot
    BY InvCounters, HeldGrows, HeldShrinks, SlotOfCounter
<1>4. TypeOK'
    BY <1>1 DEF Inv, TypeOK, Item
<1>5. SizeBounded'
    BY DEF Inv, SizeBounded
<1>6. ProducerInv'
    BY <1>2, <1>3 DEF Inv, ProducerInv
<1>7. ConsumerInv'
    BY <1>1 DEF Inv, ConsumerInv, Front
<1>8. ElementLifetime'
    <2>1. {s \in Slot : slots'[s] # Empty} = {s \in Slot : slots[s] # Empty} \ {slot_at(head)}
        BY <1>1, <1>2
    <2>2. Held' = Held
        BY DEF Held
    <2>. QED  BY <1>1, <2>1, <2>2 DEF Inv, ElementLifetime, ProducerInv
<1>. QED  BY <1>4, <1>5, <1>6, <1>7, <1>8 DEF Inv

\* pop's release store of head_ preserves the invariant.
LEMMA PopStoreInv == ASSUME Inv, PopStore PROVE Inv'
<1>. USE DEF PopStore, producerVars
<1>1. chead = head /\ cview # head /\ Diff(tail, head) > 0
    BY InvCounters DEF Inv, ConsumerInv
<1>2. /\ Inc(head) \in Counter
      /\ Diff(tail, Inc(head)) = Diff(tail, head) - 1
      /\ Diff(cview, Inc(head)) = Diff(cview, head) - 1
    <2>1. Diff(cview, head) > 0
        BY <1>1, InvCounters, CounterFacts
    <2>. QED  BY <1>1, <2>1, InvCounters, CounterFacts
<1>3. TypeOK'
    BY <1>1, <1>2 DEF Inv, TypeOK, Item
<1>4. SizeBounded'
    BY <1>1, <1>2, InvCounters, Sizes DEF Inv, SizeBounded
<1>5. ProducerInv'
    BY DEF Inv, ProducerInv
<1>6. ConsumerInv'
    BY DEF Inv, ConsumerInv
<1>7. ElementLifetime'
    <2>1. Held' = Held \ {slot_at(head)}
        BY <1>1, InvCounters, HeldShrinks, HeldIsHeldBy
    <2>2. ppc = "written" => slot_at(tail) # slot_at(head)
        BY <1>1, InvCounters, HeldGrows, HeldShrinks
    <2>. QED  BY <1>1, <2>1, <2>2 DEF Inv, ElementLifetime, ProducerInv
<1>. QED  BY <1>3, <1>4, <1>5, <1>6, <1>7 DEF Inv

\* clear preserves the invariant.
LEMMA ClearInv == ASSUME Inv, Clear PROVE Inv'
<1>. USE DEF Clear
<1>1. 0 \in Counter /\ Diff(0, 0) = 0
    <2>1. 0 \in Counter
        BY Sizes DEF Counter
    <2>. QED  BY <2>1, CounterFacts
<1>2. TypeOK'
    BY <1>1 DEF Inv, TypeOK, Item
<1>3. SizeBounded'
    BY <1>1, Sizes DEF SizeBounded
<1>4. ProducerInv' /\ ConsumerInv'
    BY DEF ProducerInv, ConsumerInv
<1>5. ElementLifetime'
    <2>1. Held' = {}
        <3>1. 0..(0 - 1) = {}
            OBVIOUS
        <3>. QED  BY <1>1, <3>1 DEF Held
    <2>2. \A s \in Slot : slots'[s] = Empty
        BY DEF Inv, ElementLifetime
    <2>. QED  BY <2>1, <2>2 DEF ElementLifetime
<1>. QED  BY <1>2, <1>3, <1>4, <1>5 DEF Inv

\* A step outside the queue preserves the invariant.
LEMMA StutterInv == ASSUME Inv, UNCHANGED vars PROVE Inv'
BY DEF vars, producerVars, consumerVars, Inv, TypeOK, SizeBounded, ProducerInv,
       ConsumerInv, Front, ElementLifetime, Held

\* Every step of either context preserves the invariant.
LEMMA NextInv == ASSUME Inv, Policies = {FALSE}, [Next]_vars PROVE Inv'
<1>1. CASE \/ \E v \in Value : PushRoom(v) \/ PushEvict(v)
           \/ PushFull
           \/ QueryFull
    BY <1>1, ProducerLoadInv
<1>2. CASE PushWrite
    BY <1>2, PushWriteInv
<1>3. CASE PushStore
    BY <1>3, PushStoreInv
<1>4. CASE EvictDestroy \/ EvictConstruct \/ EvictStoreHead
    BY <1>4 DEF Inv, ProducerInv, EvictDestroy, EvictConstruct, EvictStoreHead
<1>5. CASE PopFound \/ PopEmpty \/ PeekFound \/ QueryNotEmpty
    BY <1>5, ConsumerLoadInv
<1>6. CASE PopMove \/ PeekCopy
    BY <1>6, ConsumerReadInv
<1>7. CASE PopDestroy
    BY <1>7, PopDestroyInv
<1>8. CASE PopStore
    BY <1>8, PopStoreInv
<1>9. CASE Clear
    BY <1>9, ClearInv
<1>10. CASE UNCHANGED vars
    BY <1>10, StutterInv
<1>. QED
    BY <1>1, <1>2, <1>3, <1>4, <1>5, <1>6, <1>7, <1>8, <1>9, <1>10, QueueStep
    DEF Producer, ProducerStep, Consumer, ConsumerStep

-----------------------------------------------------------------------------
(***************************************************************************)
(* The theorems.                                                           *)
(***************************************************************************)

\* The invariant holds in every reachable state.
THEOREM SpscInv == ASSUME Policies = {FALSE} PROVE Spec => []Inv
BY InitInv, NextInv, PTL DEF Spec

\* The variables keep their types: in particular head_ and tail_ stay words.
THEOREM SpscTypeCorrect == ASSUME Policies = {FALSE} PROVE Spec => []TypeOK
<1>1. Inv => TypeOK
    BY DEF Inv
<1>. QED  BY <1>1, SpscInv, PTL

\* size() as either side computes it stays within the capacity across wrap-around.
THEOREM SpscSizeBounded == ASSUME Policies = {FALSE} PROVE Spec => []SizeBounded
<1>1. Inv => SizeBounded
    BY DEF Inv
<1>. QED  BY <1>1, SpscInv, PTL

\* push constructs only into dead slots, pop reads and destroys only live ones,
\* and no object is leaked.
THEOREM SpscElementLifetime == ASSUME Policies = {FALSE} PROVE Spec => []ElementLifetime
<1>1. Inv => ElementLifetime
    BY DEF Inv
<1>. QED  BY <1>1, SpscInv, PTL

\* push and pop (or peek) never touch one slot concurrently.
THEOREM SpscNoDataRace == ASSUME Policies = {FALSE} PROVE Spec => []NoDataRace
<1>1. ASSUME Inv PROVE NoDataRace
    <2>1. SUFFICES ASSUME ppc = "room", cpc \in {"found", "taken", "peeking"}
                   PROVE  slot_at(tail) # slot_at(chead)
        BY <1>1 DEF NoDataRace, ProducerSlot, ConsumerSlot, Inv, ProducerInv
    <2>2. slot_at(tail) \notin HeldBy(head, tail)
        BY <1>1, <2>1, InvCounters, HeldGrows
    <2>3. slot_at(chead) \in HeldBy(head, tail)
        BY <1>1, <2>1, InvCounters, HeldShrinks
    <2>. QED  BY <2>2, <2>3
<1>. QED  BY <1>1, SpscInv, PTL

\* A producer whose full() said FALSE is not refused by its next push.
THEOREM SpscRoomIsStable == ASSUME Policies = {FALSE} PROVE Spec => RoomIsStable
<1>1. ASSUME Inv, Inv', [Next]_vars PROVE pres = "room" => pres' # "full"
    <2>1. SUFFICES ASSUME pres = "room", pres' = "full" PROVE FALSE
        OBVIOUS
    <2>2. Diff(tail, pview) < Capacity
        BY <1>1, <2>1 DEF Inv, ProducerInv
    <2>3. PushFull \/ QueryFull
        BY <1>1, <2>1, QueueStep
        DEF Producer, ProducerStep, Consumer, ConsumerStep, PushRoom, PushEvict,
            PushWrite, PushStore, EvictDestroy, EvictConstruct, EvictStoreHead, PopFound,
            PopEmpty, PeekFound, QueryNotEmpty, PopMove, PopDestroy, PopStore, PeekCopy,
            Clear, vars, producerVars, consumerVars
    <2>4. PICK h \in Visible(pview, head) : Diff(tail, h) >= Capacity
        BY <2>1, <2>3 DEF PushFull, QueryFull
    <2>5. h \in Counter /\ Diff(tail, h) <= Diff(tail, pview)
        BY <1>1, InvCounters, ViewOfHead DEF Inv, SizeBounded
    <2>6. Diff(tail, h) \in Nat
        BY <1>1, <2>5, InvCounters, CounterFacts
    <2>. QED  BY <1>1, <2>2, <2>4, <2>5, <2>6, InvCounters, Sizes
<1>2. Spec => []Inv
    BY SpscInv
<1>3. [][pres = "room" => pres' # "full"]_vars <=> RoomIsStable
    BY DEF RoomIsStable
<1>. QED  BY <1>1, <1>2, <1>3, PTL DEF Spec

\* A consumer whose empty() said FALSE finds an element in its next pop.
THEOREM SpscSomeIsStable == ASSUME Policies = {FALSE} PROVE Spec => SomeIsStable
<1>1. ASSUME Inv, [Next]_vars PROVE cres = "some" => cres' # "empty"
    <2>1. SUFFICES ASSUME cres = "some", cres' = "empty" PROVE FALSE
        OBVIOUS
    <2>2. cview # head
        BY <1>1, <2>1 DEF Inv, ConsumerInv
    <2>3. PopEmpty
        BY <1>1, <2>1, QueueStep
        DEF Producer, ProducerStep, Consumer, ConsumerStep, PushRoom, PushEvict,
            PushWrite, PushStore, EvictDestroy, EvictConstruct, EvictStoreHead, PopFound,
            PushFull, QueryFull, PeekFound, QueryNotEmpty, PopMove, PopDestroy, PopStore,
            PeekCopy, Clear, vars, producerVars, consumerVars
    <2>4. Diff(cview, head) <= Diff(head, head)
        BY <1>1, <2>3, InvCounters, ViewOfTail DEF PopEmpty, Inv, SizeBounded
    <2>5. Diff(head, head) = 0 /\ (Diff(cview, head) = 0 <=> cview = head)
        BY <1>1, InvCounters, CounterFacts
    <2>. QED  BY <1>1, <2>2, <2>4, <2>5, InvCounters
<1>2. Spec => []Inv
    BY SpscInv
<1>3. [][cres = "some" => cres' # "empty"]_vars <=> SomeIsStable
    BY DEF SomeIsStable
<1>. QED  BY <1>1, <1>2, <1>3, PTL DEF Spec

\* pop delivers what the preceding peek showed.
THEOREM SpscPeekMatchesPop == ASSUME Policies = {FALSE} PROVE Spec => PeekMatchesPop
<1>1. ASSUME Inv, PopStore PROVE peeked \in {Empty, out'}
    BY <1>1 DEF Inv, ConsumerInv, Front, PopStore
<1>2. Spec => []Inv
    BY SpscInv
<1>3. [][PopStore => peeked \in {Empty, out'}]_vars <=> PeekMatchesPop
    BY DEF PeekMatchesPop
<1>. QED  BY <1>1, <1>2, <1>3, PTL DEF Spec

-----------------------------------------------------------------------------
(***************************************************************************)
(* SpscQueue implements Fifo under the mapping queue <- Contents.          *)
(***************************************************************************)

ElementAt(i) ==
    IF i = 1 /\ cpc = "destroyed" THEN citem ELSE slots[slot_at(head + (i - 1))]

\* The refinement mapping of [head_, tail_) is a sequence of values.
LEMMA ContentsSeq ==
    ASSUME Inv
    PROVE  /\ Contents = [i \in 1..Diff(tail, head) |-> ElementAt(i)]
           /\ Contents \in Seq(Item)
           /\ Len(Contents) = Diff(tail, head)
<1>1. First = head
    BY DEF First, Inv, ProducerInv
<1>2. Contents = [i \in 1..Diff(tail, head) |-> ElementAt(i)]
    BY <1>1 DEF Contents, ElementAt
<1>3. ASSUME NEW i \in 1..Diff(tail, head) PROVE ElementAt(i) \in Item
    <2>1. head + (i - 1) \in Int
        BY InvCounters, SlotOfCounter
    <2>2. slot_at(head + (i - 1)) \in Slot
        BY <2>1, SlotFacts
    <2>. QED  BY <2>2 DEF ElementAt, Inv, TypeOK
<1>4. Diff(tail, head) \in Nat
    BY InvCounters
<1>. QED  BY <1>2, <1>3, <1>4

\* A step that changes neither a counter nor an element in the queue.
LEMMA SameContents ==
    ASSUME Inv, Inv', UNCHANGED <<head, tail>>,
           \A i \in 1..Diff(tail, head) : ElementAt(i)' = ElementAt(i)
    PROVE  Contents' = Contents
<1>1. Contents = [i \in 1..Diff(tail, head) |-> ElementAt(i)]
    BY ContentsSeq
<1>2. Contents' = [i \in 1..Diff(tail', head') |-> ElementAt(i)']
    <2>1. First' = head'
        BY DEF First, Inv, ProducerInv
    <2>. QED  BY <2>1 DEF Contents, ElementAt
<1>. QED  BY <1>1, <1>2

\* Positions in the queue and the position at tail_ have different slots.
LEMMA PositionSlots ==
    ASSUME Inv, NEW i \in 1..Diff(tail, head)
    PROVE  /\ head + (i - 1) \in Int /\ slot_at(head + (i - 1)) \in Slot
           /\ i # 1 => slot_at(head + (i - 1)) # slot_at(head)
           /\ ppc # "idle" => slot_at(head + (i - 1)) # slot_at(tail)
<1>1. head \in Int /\ Diff(tail, head) \in Nat /\ Diff(tail, head) <= Capacity
    BY InvCounters, SlotOfCounter
<1>2. head + (i - 1) \in Int /\ head + Diff(tail, head) \in Int
    BY <1>1
<1>3. slot_at(head + (i - 1)) \in Slot
    BY <1>2, SlotFacts
<1>4. i # 1 => head < head + (i - 1) /\ (head + (i - 1)) - head < Capacity
    BY <1>1, Sizes
<1>5. i # 1 => slot_at(head + (i - 1)) # slot_at(head)
    BY <1>1, <1>2, <1>4, SlotFacts
<1>6. ASSUME ppc # "idle" PROVE slot_at(head + (i - 1)) # slot_at(tail)
    <2>1. Diff(tail, head) < Capacity
        BY <1>6, InvCounters
    <2>2. /\ head + (i - 1) < head + Diff(tail, head)
          /\ (head + Diff(tail, head)) - (head + (i - 1)) < Capacity
        BY <1>1, <1>2, <2>1, Sizes
    <2>3. slot_at(head + Diff(tail, head)) = slot_at(tail)
        BY InvCounters, SlotOfTail
    <2>. QED  BY <1>2, <2>2, <2>3, SlotFacts
<1>. QED  BY <1>2, <1>3, <1>5, <1>6

\* push's store of tail_ appends the pushed element to the abstract queue.
LEMMA PushStoreAccepts ==
    ASSUME Inv, Inv', PushStore PROVE \E v \in Value : F!Accept(v)
<1>. DEFINE u == Diff(tail, head)
<1>1. /\ ppc = "written" /\ pitem \in Value /\ slots[slot_at(tail)] = pitem
      /\ u \in Nat /\ u < Capacity
    BY InvCounters DEF Inv, ProducerInv, PushStore
<1>2. Diff(tail', head') = u + 1
    BY <1>1, InvCounters, CounterFacts, Sizes DEF PushStore
<1>3. Contents = [i \in 1..u |-> ElementAt(i)] /\ Contents \in Seq(Item) /\ Len(Contents) = u
    BY ContentsSeq
<1>4. Contents' = [i \in 1..(u + 1) |-> ElementAt(i)]
    <2>1. First' = head
        BY DEF First, PushStore
    <2>. QED  BY <1>2, <2>1 DEF Contents, ElementAt, PushStore, consumerVars
<1>5. ElementAt(u + 1) = pitem
    <2>1. head + ((u + 1) - 1) = head + u
        BY <1>1, InvCounters, SlotOfCounter
    <2>2. slot_at(head + u) = slot_at(tail)
        BY InvCounters, SlotOfTail
    <2>3. cpc = "destroyed" => u + 1 # 1
        BY <1>1, InvCounters
    <2>. QED  BY <1>1, <2>1, <2>2, <2>3 DEF ElementAt
<1>6. Append(Contents, pitem) = [i \in 1..(u + 1) |-> IF i = u + 1 THEN pitem ELSE ElementAt(i)]
    BY <1>1, <1>3
<1>7. Contents' = Append(Contents, pitem)
    BY <1>4, <1>5, <1>6
<1>8. F!Accept(pitem)
    BY <1>1, <1>3, <1>7 DEF F!Accept, PushStore, consumerVars
<1>. QED  BY <1>1, <1>8

\* pop's store of head_ delivers the first element of the abstract queue.
LEMMA PopStoreDelivers == ASSUME Inv, Inv', PopStore PROVE F!Deliver
<1>. DEFINE u == Diff(tail, head)
<1>1. chead = head /\ u \in Nat /\ u > 0 /\ cpc = "destroyed" /\ head \in Int
    BY InvCounters, SlotOfCounter DEF PopStore
<1>2. Diff(tail', head') = u - 1
    BY <1>1, InvCounters, CounterFacts DEF PopStore
<1>3. Contents = [i \in 1..u |-> ElementAt(i)] /\ Contents \in Seq(Item) /\ Len(Contents) = u
    BY ContentsSeq
<1>4. Contents' = [i \in 1..(u - 1) |-> slots[slot_at(Inc(head) + (i - 1))]]
    <2>1. First' = Inc(head)
        BY <1>1 DEF First, PopStore, producerVars, Inv, ProducerInv
    <2>2. ~(cpc' = "destroyed") /\ slots' = slots
        BY DEF PopStore
    <2>3. Contents' = [i \in 1..Diff(tail', First') |->
                          IF i = 1 /\ cpc' = "destroyed" THEN citem'
                          ELSE slots'[slot_at(First' + (i - 1))]]
        BY DEF Contents
    <2>4. Diff(tail', First') = u - 1
        BY <1>1, <1>2, <2>1 DEF PopStore
    <2>. QED  BY <2>1, <2>2, <2>3, <2>4
<1>5. ASSUME NEW i \in 1..(u - 1)
      PROVE  slots[slot_at(Inc(head) + (i - 1))] = ElementAt(i + 1)
    <2>1. Inc(head) \in Int /\ i - 1 \in Int
        BY <1>1, InvCounters, CounterFacts, SlotOfCounter
    <2>2. (head + 1) + (i - 1) = head + ((i + 1) - 1)
        BY <1>1
    <2>3. slot_at(Inc(head) + (i - 1)) = slot_at((head + 1) + (i - 1))
        BY <2>1, InvCounters, SlotOfInc
    <2>4. i + 1 # 1
        BY <1>1
    <2>. QED  BY <2>2, <2>3, <2>4 DEF ElementAt
<1>6. Contents' = [i \in 1..(u - 1) |-> ElementAt(i + 1)]
    BY <1>4, <1>5
<1>7. Tail(Contents) = [i \in 1..(u - 1) |-> ElementAt(i + 1)]
    <2>1. Tail(Contents) = [i \in 1..(Len(Contents) - 1) |-> Contents[i + 1]]
        BY <1>1, <1>3
    <2>2. \A i \in 1..(u - 1) : Contents[i + 1] = ElementAt(i + 1)
        BY <1>1, <1>3
    <2>. QED  BY <1>3, <2>1, <2>2
<1>8. Head(Contents) = citem /\ Contents # <<>>
    BY <1>1, <1>3 DEF ElementAt
<1>. QED  BY <1>6, <1>7, <1>8 DEF F!Deliver, PopStore

\* clear empties the abstract queue.
LEMMA ClearDiscards == ASSUME Clear PROVE F!Discard
<1>1. First' = 0 /\ tail' = 0
    BY DEF First, Clear
<1>2. Diff(0, 0) = 0
    <2>1. 0 \in Counter
        BY Sizes DEF Counter
    <2>. QED  BY <2>1, CounterFacts
<1>3. Contents' = <<>>
    BY <1>1, <1>2 DEF Contents
<1>. QED  BY <1>3 DEF F!Discard, Clear

\* Every other step leaves the abstract queue alone.
LEMMA OtherStepsStutter ==
    ASSUME Inv, Inv', Policies = {FALSE},
           \/ Producer /\ ~PushStore
           \/ Consumer /\ ~PopStore
           \/ UNCHANGED vars
    PROVE  UNCHANGED <<overwrite, Contents, out>>
<1>. USE DEF producerVars, consumerVars
<1>1. CASE PushWrite
    <2>1. ASSUME NEW i \in 1..Diff(tail, head) PROVE ElementAt(i)' = ElementAt(i)
        <3>1. /\ slot_at(head + (i - 1)) \in Slot
              /\ slot_at(head + (i - 1)) # slot_at(tail)
            BY <1>1, PositionSlots DEF PushWrite
        <3>2. slots'[slot_at(head + (i - 1))] = slots[slot_at(head + (i - 1))]
            BY <1>1, <3>1 DEF PushWrite, Inv, TypeOK
        <3>. QED  BY <1>1, <3>2 DEF ElementAt, PushWrite
    <2>2. UNCHANGED <<overwrite, head, tail, out>>
        BY <1>1 DEF PushWrite
    <2>. QED  BY <2>1, <2>2, SameContents
<1>2. CASE PopDestroy
    <2>1. chead = head /\ cpc = "taken" /\ citem = slots[slot_at(head)] /\ head \in Int
        BY <1>2, InvCounters, SlotOfCounter DEF PopDestroy, Inv, ConsumerInv
    <2>2. ASSUME NEW i \in 1..Diff(tail, head) PROVE ElementAt(i)' = ElementAt(i)
        <3>1. CASE i = 1
            <4>1. head + (1 - 1) = head
                BY <2>1
            <4>2. ElementAt(1) = slots[slot_at(head)]
                BY <2>1, <4>1 DEF ElementAt
            <4>3. ElementAt(1)' = citem
                BY <1>2 DEF ElementAt, PopDestroy
            <4>. QED  BY <2>1, <3>1, <4>2, <4>3
        <3>2. CASE i # 1
            <4>1. /\ slot_at(head + (i - 1)) \in Slot
                  /\ slot_at(head + (i - 1)) # slot_at(head)
                BY <3>2, PositionSlots
            <4>2. slots'[slot_at(head + (i - 1))] = slots[slot_at(head + (i - 1))]
                BY <1>2, <2>1, <4>1 DEF PopDestroy, Inv, TypeOK
            <4>. QED  BY <1>2, <3>2, <4>2 DEF ElementAt, PopDestroy
        <3>. QED  BY <3>1, <3>2
    <2>3. UNCHANGED <<overwrite, head, tail, out>>
        BY <1>2 DEF PopDestroy
    <2>. QED  BY <2>2, <2>3, SameContents
<1>3. CASE /\ UNCHANGED <<overwrite, head, tail, slots, out>>
           /\ cpc' = "destroyed" <=> cpc = "destroyed"
           /\ cpc = "destroyed" => citem' = citem
    <2>1. ASSUME NEW i \in 1..Diff(tail, head) PROVE ElementAt(i)' = ElementAt(i)
        BY <1>3 DEF ElementAt
    <2>. QED  BY <1>3, <2>1, SameContents
<1>4. CASE EvictDestroy \/ EvictConstruct \/ EvictStoreHead
    BY <1>4 DEF Inv, ProducerInv, EvictDestroy, EvictConstruct, EvictStoreHead
<1>5. CASE Producer /\ ~PushStore /\ ~PushWrite
    BY <1>3, <1>4, <1>5 DEF Producer, ProducerStep, PushRoom, PushEvict, PushFull, QueryFull
<1>6. CASE Consumer /\ ~PopStore /\ ~PopDestroy
    BY <1>3, <1>6
    DEF Consumer, ConsumerStep, PopFound, PopEmpty, PeekFound, QueryNotEmpty, PopMove, PeekCopy
<1>7. CASE UNCHANGED vars
    BY <1>3, <1>7 DEF vars
<1>. QED  BY <1>1, <1>2, <1>5, <1>6, <1>7

\* push, pop, peek and clear implement the bounded FIFO queue: elements are
\* delivered once, in the order of their pushes, and never more than Capacity
\* are held, for every interleaving of the two sides' loads, stores and slot
\* accesses.
THEOREM SpscImplementsFifo == ASSUME Policies = {FALSE} PROVE Spec => ImplementsFifo
<1>1. Init => F!FifoInit
    <2>1. SUFFICES ASSUME Init PROVE Contents = <<>>
        BY DEF Init, F!FifoInit
    <2>2. Diff(tail, First) = 0
        <3>1. 0 \in Counter
            BY Sizes DEF Counter
        <3>. QED  BY <2>1, <3>1, CounterFacts DEF Init, First
    <2>. QED  BY <2>2 DEF Contents
<1>2. ASSUME Inv, Inv', [Next]_vars PROVE [F!FifoNext]_(F!fifoVars)
    <2>1. CASE PushStore
        BY <1>2, <2>1, PushStoreAccepts DEF F!FifoNext
    <2>2. CASE PopStore
        BY <1>2, <2>2, PopStoreDelivers DEF F!FifoNext
    <2>3. CASE Clear
        BY <2>3, ClearDiscards DEF F!FifoNext
    <2>4. CASE \/ Producer /\ ~PushStore
               \/ Consumer /\ ~PopStore
               \/ UNCHANGED vars
        BY <1>2, <2>4, OtherStepsStutter DEF F!fifoVars
    <2>. QED  BY <1>2, <2>1, <2>2, <2>3, <2>4, QueueStep
<1>3. Spec => []Inv
    BY SpscInv
<1>. QED  BY <1>1, <1>2, <1>3, PTL DEF Spec, ImplementsFifo, F!FifoSpec
=============================================================================
