--------------------------- MODULE RingBufferProofs ---------------------------
(***************************************************************************)
(* Proofs about the ring buffer core, for every capacity, every element    *)
(* type and every client.  What the operators do to a ring is proved for   *)
(* an arbitrary ring r first; the actions then only combine them.          *)
(***************************************************************************)
EXTENDS RingBuffer, ModArith, SequenceTheorems

\* The slot of the i-th element, counted from 0.
At(r, i) == (r.tail + i) % r.capacity

\* The invariant of a ring: head_ is where tail_ and count_ put it, and the
\* element slots hold live objects.
RingInv(r) ==
    /\ RingType(r)
    /\ r.head = At(r, r.count)
    /\ \A i \in 0..(r.count - 1) : r.slots[At(r, i)] \in Value

\* What the type of a ring says of its fields.
LEMMA Fields ==
    ASSUME NEW r, RingType(r)
    PROVE  /\ r.capacity \in Nat \ {0} /\ r.capacity \in 1..MaxCapacity
           /\ r.head \in Nat /\ r.tail \in Nat /\ r.count \in Nat
           /\ r.head < r.capacity /\ r.tail < r.capacity /\ r.count <= r.capacity
           /\ r.slots \in [Slot -> Item]
BY RingAssumption DEF RingType

\* Slots computed modulo the capacity are slots of the storage.
LEMMA AtSlot ==
    ASSUME NEW r, RingType(r), NEW i \in Int
    PROVE  At(r, i) \in 0..(r.capacity - 1) /\ At(r, i) \in Slot
<1>1. r.capacity \in Nat \ {0} /\ r.tail + i \in Int /\ r.capacity \in 1..MaxCapacity
    BY Fields
<1>2. At(r, i) \in 0..(r.capacity - 1)
    BY <1>1, ModDef DEF At
<1>. QED  BY <1>1, <1>2, RingAssumption DEF Slot

\* Elements less than a capacity apart are in different slots.
LEMMA AtDistinct ==
    ASSUME NEW r, RingType(r), NEW i \in Int, NEW j \in Int, i < j, j - i < r.capacity
    PROVE  At(r, i) # At(r, j)
<1>1. r.capacity \in Nat \ {0} /\ r.tail \in Int
    BY Fields
<1>2. PICK a \in Int, b \in Int : a = r.tail + i /\ b = r.tail + j
    BY <1>1
<1>3. a < b /\ b - a < r.capacity
    BY <1>1, <1>2
<1>4. a % r.capacity # b % r.capacity
    BY <1>1, <1>3, ModNear
<1>. QED  BY <1>2, <1>4 DEF At

\* The index arithmetic of the code in terms of At.
LEMMA Indices ==
    ASSUME NEW r, RingInv(r), NEW n \in Nat
    PROVE  /\ advance(r, r.head, n) = At(r, r.count + n)
           /\ advance(r, r.tail, n) = At(r, n)
           /\ retreat(r, r.head) = At(r, r.count - 1)
           /\ retreat(r, r.tail) = At(r, -1)
           /\ logical_index(r, n) = At(r, n)
<1>1. /\ r.capacity \in Nat \ {0} /\ r.capacity \in Int
      /\ r.tail \in Int /\ r.count \in Int /\ r.head = (r.tail + r.count) % r.capacity
    BY Fields DEF RingInv, At
<1>2. advance(r, r.head, n) = At(r, r.count + n)
    <2>1. (((r.tail + r.count) % r.capacity) + n) % r.capacity = ((r.tail + r.count) + n) % r.capacity
        BY <1>1, ModAddMod, r.tail + r.count \in Int
    <2>2. (r.tail + r.count) + n = r.tail + (r.count + n)
        BY <1>1
    <2>. QED  BY <1>1, <2>1, <2>2 DEF advance, At
<1>3. advance(r, r.tail, n) = At(r, n) /\ logical_index(r, n) = At(r, n)
    BY DEF advance, logical_index, At
<1>4. retreat(r, r.head) = At(r, r.count - 1)
    <2>1. PICK c \in Int : c = r.capacity - 1
        BY <1>1
    <2>2. (((r.tail + r.count) % r.capacity) + c) % r.capacity = ((r.tail + r.count) + c) % r.capacity
        BY <1>1, ModAddMod, r.tail + r.count \in Int
    <2>3. PICK a \in Int : a = r.tail + (r.count - 1)
        BY <1>1
    <2>4. (a + r.capacity) % r.capacity = a % r.capacity
        BY <1>1, ModShift
    <2>5. (r.tail + r.count) + c = a + r.capacity
        BY <1>1, <2>1, <2>3
    <2>6. r.head \in Int
        BY Fields DEF RingInv
    <2>7. (r.head + r.capacity) - 1 = r.head + c
        BY <1>1, <2>1, <2>6
    <2>. QED  BY <1>1, <2>2, <2>3, <2>4, <2>5, <2>7 DEF retreat, At
<1>5. retreat(r, r.tail) = At(r, -1)
    <2>1. PICK a \in Int : a = r.tail + (-1)
        BY <1>1
    <2>2. (a + r.capacity) % r.capacity = a % r.capacity
        BY <1>1, ModShift
    <2>3. (r.tail + r.capacity) - 1 = a + r.capacity
        BY <1>1, <2>1
    <2>. QED  BY <2>1, <2>2, <2>3 DEF retreat, At
<1>. QED  BY <1>2, <1>3, <1>4, <1>5

\* Slots counted from another element.
LEMMA AtShift ==
    ASSUME NEW r, RingType(r), NEW k \in Int, NEW i \in Int
    PROVE  (At(r, k) + i) % r.capacity = At(r, k + i)
<1>1. r.capacity \in Nat \ {0} /\ r.tail \in Int
    BY Fields
<1>2. (((r.tail + k) % r.capacity) + i) % r.capacity = ((r.tail + k) + i) % r.capacity
    BY <1>1, ModAddMod, r.tail + k \in Int
<1>3. (r.tail + k) + i = r.tail + (k + i)
    BY <1>1
<1>. QED  BY <1>2, <1>3 DEF At

\* Slots repeat after a capacity.
LEMMA AtPeriod ==
    ASSUME NEW r, RingType(r), NEW i \in Int
    PROVE  At(r, i + r.capacity) = At(r, i) /\ At(r, i - r.capacity) = At(r, i)
<1>1. r.capacity \in Nat \ {0} /\ r.tail \in Int /\ r.capacity \in Int
    BY Fields
<1>2. PICK a \in Int : a = r.tail + i
    BY <1>1
<1>3. (a + r.capacity) % r.capacity = a % r.capacity /\ (a - r.capacity) % r.capacity = a % r.capacity
    BY <1>1, ModShift
<1>4. a + r.capacity = r.tail + (i + r.capacity) /\ a - r.capacity = r.tail + (i - r.capacity)
    BY <1>1, <1>2
<1>. QED  BY <1>2, <1>3, <1>4 DEF At

\* tail_ is the slot of element 0.
LEMMA AtZero ==
    ASSUME NEW r, RingType(r)
    PROVE  At(r, 0) = r.tail
<1>1. r.capacity \in Nat \ {0} /\ r.tail \in 0..(r.capacity - 1)
    BY Fields
<1>2. r.tail + 0 = r.tail
    BY <1>1
<1>. QED  BY <1>1, <1>2, ModSmall DEF At

\* The elements by their slots.
LEMMA ElementAt ==
    ASSUME NEW r, RingInv(r)
    PROVE  /\ Elements(r) = [i \in 1..r.count |-> r.slots[At(r, i - 1)]]
           /\ Elements(r) \in Seq(Value)
           /\ Len(Elements(r)) = r.count /\ DOMAIN Elements(r) = 1..r.count
<1>1. r.count \in Nat
    BY Fields DEF RingInv
<1>2. Elements(r) = [i \in 1..r.count |-> r.slots[At(r, i - 1)]]
    BY DEF Elements, logical_index, advance, At
<1>3. \A i \in 1..r.count : i - 1 \in 0..(r.count - 1)
    BY <1>1
<1>4. \A i \in 1..r.count : r.slots[At(r, i - 1)] \in Value
    BY <1>3 DEF RingInv
<1>5. Elements(r) \in [1..r.count -> Value]
    BY <1>2, <1>4
<1>6. Elements(r) \in Seq(Value)
    BY <1>1, <1>5
<1>. QED  BY <1>1, <1>2, <1>5, <1>6
-----------------------------------------------------------------------------
(***************************************************************************)
(* What the operators do to a ring                                         *)
(***************************************************************************)

\* The slots of c elements from the k-th on hold live objects in the storage q.
Filled(r, q, k, c) == \A i \in 0..(c - 1) : q[At(r, k + i)] \in Value

\* Every operator moves the window of element slots: it starts k slots after
\* tail_ and has c of them.
LEMMA Window ==
    ASSUME NEW r, RingInv(r), NEW k \in Int, NEW c \in 0..r.capacity, NEW q \in [Slot -> Item],
           NEW s, s = moved(r, q, At(r, k + c), At(r, k), c),
           Filled(r, q, k, c)
    PROVE  /\ RingInv(s) /\ Elements(s) \in Seq(Value) /\ Len(Elements(s)) = c
           /\ \A i \in 1..c : Elements(s)[i] = q[At(r, k + (i - 1))]
<1>1. PICK h, t : h = At(r, k + c) /\ t = At(r, k)
    OBVIOUS
<1>2. RingType(r) /\ c \in Nat /\ c \in Int /\ k + c \in Int
    BY Fields DEF RingInv
<1>3. /\ s.capacity = r.capacity /\ s.head = h /\ s.tail = t
      /\ s.count = c /\ s.slots = q
    BY <1>1 DEF moved
<1>4. t \in 0..(r.capacity - 1) /\ h \in 0..(r.capacity - 1)
    BY <1>1, <1>2, AtSlot
<1>5. RingType(s)
    BY <1>1, <1>2, <1>4, Fields DEF moved, RingType
<1>6. \A i \in Int : At(s, i) = At(r, k + i)
    <2>1. TAKE i \in Int
    <2>2. At(s, i) = (At(r, k) + i) % r.capacity
        BY <1>1, <1>3 DEF At
    <2>. QED  BY <1>2, <2>2, AtShift
<1>7. RingInv(s)
    BY <1>1, <1>2, <1>3, <1>5, <1>6 DEF RingInv, Filled
<1>8. /\ Elements(s) \in Seq(Value) /\ Len(Elements(s)) = c
      /\ Elements(s) = [i \in 1..c |-> q[At(s, i - 1)]]
    BY <1>3, <1>7, ElementAt
<1>9. ASSUME NEW i \in 1..c
      PROVE  Elements(s)[i] = q[At(r, k + (i - 1))]
    <2>1. i - 1 \in Int
        BY <1>2
    <2>2. At(s, i - 1) = At(r, k + (i - 1))
        BY <1>6, <2>1
    <2>. QED  BY <1>8, <2>2
<1>. QED  BY <1>1, <1>7, <1>8, <1>9

\* The slots a destroy leaves alone.
LEMMA DestroyedKeeps ==
    ASSUME NEW r, RingType(r), NEW S
    PROVE  /\ Destroyed(r, S) \in [Slot -> Item]
           /\ \A s \in Slot \ S : Destroyed(r, S)[s] = r.slots[s]
BY Fields DEF Destroyed, Item

\* The elements, one by one.
LEMMA ElementsOf ==
    ASSUME NEW r, RingInv(r)
    PROVE  /\ Elements(r) \in Seq(Value) /\ Len(Elements(r)) = r.count /\ r.count \in Nat
           /\ \A i \in 1..r.count : Elements(r)[i] = r.slots[At(r, i - 1)]
           /\ \A i \in 0..(r.count - 1) : Elements(r)[i + 1] = r.slots[At(r, i)]
<1>1. r.count \in Nat
    BY Fields DEF RingInv
<1>2. \A i \in 1..r.count : Elements(r)[i] = r.slots[At(r, i - 1)]
    BY ElementAt
<1>3. \A i \in 0..(r.count - 1) : Elements(r)[i + 1] = r.slots[At(r, i)]
    <2>1. TAKE i \in 0..(r.count - 1)
    <2>2. i + 1 \in 1..r.count /\ (i + 1) - 1 = i
        BY <1>1
    <2>. QED  BY <1>2, <2>2
<1>. QED  BY <1>1, <1>2, <1>3, ElementAt

\* put_back adds an element at the back.
LEMMA PutBack ==
    ASSUME NEW r, RingInv(r), r.count < r.capacity, NEW v \in Value
    PROVE  /\ RingInv(put_back(r, v))
           /\ Elements(put_back(r, v)) = Append(Elements(r), v)
<1>1. PICK c \in Nat : c = r.count
    BY Fields DEF RingInv
<1>2. RingType(r) /\ c + 1 \in 0..r.capacity /\ r.capacity \in Nat \ {0} /\ c < r.capacity
    BY <1>1, Fields DEF RingInv
<1>3. PICK q : q = [r.slots EXCEPT ![At(r, c)] = v]
    OBVIOUS
<1>4. At(r, c) \in Slot /\ r.slots \in [Slot -> Item]
    BY <1>2, AtSlot, Fields
<1>5. q \in [Slot -> Item] /\ q[At(r, c)] = v
    BY <1>3, <1>4 DEF Item
<1>6. \A i \in 0..(c - 1) : q[At(r, i)] = r.slots[At(r, i)]
    <2>1. TAKE i \in 0..(c - 1)
    <2>2. At(r, i) # At(r, c) /\ At(r, i) \in Slot
        BY <1>2, AtDistinct, AtSlot
    <2>. QED  BY <1>3, <1>4, <2>2
<1>7. Filled(r, q, 0, c + 1)
    <2>. USE DEF Filled
    <2>1. TAKE i \in 0..((c + 1) - 1)
    <2>2. 0 + i = i /\ (i = c \/ i \in 0..(c - 1))
        OBVIOUS
    <2>. QED  BY <1>1, <1>5, <1>6, <2>2 DEF RingInv
<1>8. PICK s : s = put_back(r, v)
    OBVIOUS
<1>9. s = moved(r, q, advance(r, r.head, 1), r.tail, c + 1)
    BY <1>1, <1>3, <1>8 DEF put_back, RingInv
<1>10. advance(r, r.head, 1) = At(r, 0 + (c + 1)) /\ r.tail = At(r, 0)
    BY <1>1, <1>2, Indices, AtZero
<1>11. /\ RingInv(s) /\ Elements(s) \in Seq(Value) /\ Len(Elements(s)) = c + 1
       /\ \A i \in 1..(c + 1) : Elements(s)[i] = q[At(r, 0 + (i - 1))]
    BY <1>2, <1>5, <1>7, <1>9, <1>10, Window
<1>12. Elements(s) = Append(Elements(r), v)
    <2>1. PICK e \in Seq(Value) : e = Elements(r)
        BY ElementsOf
    <2>2. Len(e) = c /\ \A i \in 1..c : e[i] = r.slots[At(r, i - 1)]
        BY <1>1, <2>1, ElementsOf
    <2>3. /\ Append(e, v) \in Seq(Value) /\ Len(Append(e, v)) = c + 1
          /\ \A i \in 1..c : Append(e, v)[i] = e[i]
          /\ Append(e, v)[c + 1] = v
        BY <2>1, <2>2, AppendProperties
    <2>4. ASSUME NEW i \in 1..(c + 1)
          PROVE  Elements(s)[i] = Append(e, v)[i]
        <3>1. i - 1 \in 0..c /\ 0 + (i - 1) = i - 1
            OBVIOUS
        <3>2. CASE i = c + 1
            BY <1>5, <1>11, <2>3, <3>1, <3>2
        <3>3. CASE i # c + 1
            <4>1. i \in 1..c /\ i - 1 \in 0..(c - 1)
                BY <3>3
            <4>. QED  BY <1>6, <1>11, <2>2, <2>3, <3>1, <4>1
        <3>. QED  BY <3>2, <3>3
    <2>. QED  BY <1>11, <2>1, <2>3, <2>4, SeqEqual
<1>. QED  BY <1>8, <1>11, <1>12

\* put_front adds an element at the front.
LEMMA PutFront ==
    ASSUME NEW r, RingInv(r), r.count < r.capacity, NEW v \in Value
    PROVE  /\ RingInv(put_front(r, v))
           /\ Elements(put_front(r, v)) = <<v>> \o Elements(r)
<1>1. PICK c \in Nat : c = r.count
    BY Fields DEF RingInv
<1>2. RingType(r) /\ c + 1 \in 0..r.capacity /\ r.capacity \in Nat \ {0} /\ c < r.capacity
    BY <1>1, Fields DEF RingInv
<1>3. PICK q : q = [r.slots EXCEPT ![At(r, -1)] = v]
    OBVIOUS
<1>4. At(r, -1) \in Slot /\ r.slots \in [Slot -> Item]
    BY <1>2, AtSlot, Fields
<1>5. q \in [Slot -> Item] /\ q[At(r, -1)] = v
    BY <1>3, <1>4 DEF Item
<1>6. \A i \in 0..(c - 1) : q[At(r, i)] = r.slots[At(r, i)]
    <2>1. TAKE i \in 0..(c - 1)
    <2>2. -1 < i /\ i - (-1) < r.capacity /\ -1 \in Int /\ i \in Int
        BY <1>2
    <2>3. At(r, -1) # At(r, i) /\ At(r, i) \in Slot
        BY <1>2, <2>2, AtDistinct, AtSlot
    <2>. QED  BY <1>3, <1>4, <2>3
<1>7. \A i \in 0..c : q[At(r, -1 + i)] = IF i = 0 THEN v ELSE r.slots[At(r, i - 1)]
    <2>1. TAKE i \in 0..c
    <2>2. CASE i = 0
        BY <1>5, <2>2, -1 + 0 = -1
    <2>3. CASE i # 0
        <3>1. -1 + i = i - 1 /\ i - 1 \in 0..(c - 1)
            BY <2>3
        <3>. QED  BY <1>6, <2>3, <3>1
    <2>. QED  BY <2>2, <2>3
<1>8. \A i \in 0..((c + 1) - 1) : q[At(r, -1 + i)] \in Value
    <2>1. TAKE i \in 0..((c + 1) - 1)
    <2>2. i \in 0..c /\ (i = 0 \/ i - 1 \in 0..(c - 1))
        OBVIOUS
    <2>. QED  BY <1>1, <1>7, <2>2 DEF RingInv
<1>9. PICK s : s = put_front(r, v)
    OBVIOUS
<1>10. retreat(r, r.tail) = At(r, -1) /\ r.head = At(r, -1 + (c + 1))
    <2>1. -1 + (c + 1) = c
        OBVIOUS
    <2>. QED  BY <1>1, <2>1, Indices DEF RingInv
<1>11. s = moved(r, q, r.head, At(r, -1), c + 1)
    BY <1>1, <1>3, <1>9, <1>10 DEF put_front
<1>12. /\ RingInv(s) /\ Elements(s) \in Seq(Value) /\ Len(Elements(s)) = c + 1
       /\ \A i \in 1..(c + 1) : Elements(s)[i] = q[At(r, -1 + (i - 1))]
    <2>1. PICK k \in Int, d \in 0..r.capacity : k = -1 /\ d = c + 1
        BY <1>2
    <2>2. Filled(r, q, k, d)
        BY <1>8, <2>1 DEF Filled
    <2>3. s = moved(r, q, At(r, k + d), At(r, k), d)
        BY <1>10, <1>11, <2>1
    <2>4. /\ RingInv(s) /\ Elements(s) \in Seq(Value) /\ Len(Elements(s)) = d
          /\ \A i \in 1..d : Elements(s)[i] = q[At(r, k + (i - 1))]
        BY <1>5, <2>2, <2>3, Window
    <2>. QED  BY <2>1, <2>4
<1>13. Elements(s) = <<v>> \o Elements(r)
    <2>1. PICK e \in Seq(Value) : e = Elements(r)
        BY ElementsOf
    <2>2. Len(e) = c /\ \A i \in 1..c : e[i] = r.slots[At(r, i - 1)]
        BY <1>1, <2>1, ElementsOf
    <2>3. <<v>> \in Seq(Value) /\ Len(<<v>>) = 1 /\ <<v>>[1] = v
        OBVIOUS
    <2>4. /\ <<v>> \o e \in Seq(Value) /\ Len(<<v>> \o e) = 1 + c
          /\ \A i \in 1..(1 + c) : (<<v>> \o e)[i] = IF i <= 1 THEN <<v>>[i] ELSE e[i - 1]
        BY <2>1, <2>2, <2>3, ConcatProperties
    <2>5. ASSUME NEW i \in 1..(c + 1)
          PROVE  Elements(s)[i] = (<<v>> \o e)[i]
        <3>1. i - 1 \in 0..c /\ i \in 1..(1 + c)
            OBVIOUS
        <3>2. CASE i = 1
            <4>1. i - 1 = 0
                BY <3>2
            <4>2. Elements(s)[i] = v
                BY <1>7, <1>12, <3>1, <4>1
            <4>. QED  BY <2>3, <2>4, <3>1, <3>2, <4>2
        <3>3. CASE i # 1
            <4>1. i - 1 \in 1..c /\ i - 1 # 0 /\ ~(i <= 1)
                BY <3>3
            <4>2. Elements(s)[i] = r.slots[At(r, (i - 1) - 1)]
                BY <1>7, <1>12, <3>1, <4>1
            <4>. QED  BY <2>2, <2>4, <3>1, <4>1, <4>2
        <3>. QED  BY <3>2, <3>3
    <2>. QED  BY <1>12, <2>1, <2>4, <2>5, SeqEqual
<1>. QED  BY <1>9, <1>12, <1>13

\* Elements leave at the front; the slots of the others keep their objects.
LEMMA DropFront ==
    ASSUME NEW r, RingInv(r), NEW n \in 1..r.count, NEW q \in [Slot -> Item],
           \A i \in n..(r.count - 1) : q[At(r, i)] = r.slots[At(r, i)]
    PROVE  /\ RingInv(moved(r, q, r.head, advance(r, r.tail, n), r.count - n))
           /\ Elements(moved(r, q, r.head, advance(r, r.tail, n), r.count - n))
                  = SubSeq(Elements(r), n + 1, r.count)
<1>1. PICK c \in Nat : c = r.count
    BY Fields DEF RingInv
<1>2. RingType(r) /\ c - n \in 0..r.capacity /\ r.capacity \in Nat /\ n \in Nat /\ n \in Int /\ n <= c /\ 1 <= n
    BY <1>1, Fields DEF RingInv
<1>3. \A i \in 0..((c - n) - 1) : q[At(r, n + i)] = r.slots[At(r, n + i)] /\ q[At(r, n + i)] \in Value
    <2>1. TAKE i \in 0..((c - n) - 1)
    <2>2. n + i \in n..(c - 1) /\ n + i \in 0..(c - 1)
        BY <1>2
    <2>. QED  BY <1>1, <2>2 DEF RingInv
<1>4. PICK s : s = moved(r, q, r.head, advance(r, r.tail, n), r.count - n)
    OBVIOUS
<1>5. advance(r, r.tail, n) = At(r, n) /\ r.head = At(r, n + (c - n))
    <2>1. n + (c - n) = c
        BY <1>2
    <2>. QED  BY <1>1, <1>2, <2>1, Indices DEF RingInv
<1>6. /\ RingInv(s) /\ Elements(s) \in Seq(Value) /\ Len(Elements(s)) = c - n
      /\ \A i \in 1..(c - n) : Elements(s)[i] = q[At(r, n + (i - 1))]
    <2>1. PICK d \in 0..r.capacity : d = c - n
        BY <1>2
    <2>2. Filled(r, q, n, d)
        BY <1>3, <2>1 DEF Filled
    <2>3. s = moved(r, q, At(r, n + d), At(r, n), d)
        BY <1>1, <1>4, <1>5, <2>1
    <2>4. /\ RingInv(s) /\ Elements(s) \in Seq(Value) /\ Len(Elements(s)) = d
          /\ \A i \in 1..d : Elements(s)[i] = q[At(r, n + (i - 1))]
        BY <1>2, <2>2, <2>3, Window
    <2>. QED  BY <2>1, <2>4
<1>7. PICK e \in Seq(Value) : e = Elements(r)
    BY ElementsOf
<1>8. Len(e) = c /\ \A i \in 0..(c - 1) : e[i + 1] = r.slots[At(r, i)]
    BY <1>1, <1>7, ElementsOf
<1>9. /\ SubSeq(e, n + 1, c) \in Seq(Value) /\ Len(SubSeq(e, n + 1, c)) = c - n
      /\ \A i \in 1..(c - n) : SubSeq(e, n + 1, c)[i] = e[n + i]
    BY <1>2, <1>7, <1>8
<1>10. ASSUME NEW i \in 1..(c - n)
       PROVE  Elements(s)[i] = SubSeq(e, n + 1, c)[i]
    <2>1. i - 1 \in 0..((c - n) - 1) /\ n + (i - 1) \in 0..(c - 1) /\ (n + (i - 1)) + 1 = n + i
        BY <1>2
    <2>2. Elements(s)[i] = r.slots[At(r, n + (i - 1))]
        BY <1>3, <1>6, <2>1
    <2>3. e[n + i] = r.slots[At(r, n + (i - 1))]
        BY <1>8, <2>1
    <2>. QED  BY <1>9, <2>2, <2>3
<1>11. Elements(s) = SubSeq(e, n + 1, c)
    BY <1>6, <1>9, <1>10, SeqEqual
<1>. QED  BY <1>1, <1>4, <1>6, <1>7, <1>11

\* The newest element leaves.
LEMMA DropBack ==
    ASSUME NEW r, RingInv(r), r.count > 0, NEW q \in [Slot -> Item],
           \A i \in 0..(r.count - 2) : q[At(r, i)] = r.slots[At(r, i)]
    PROVE  /\ RingInv(moved(r, q, retreat(r, r.head), r.tail, r.count - 1))
           /\ Elements(moved(r, q, retreat(r, r.head), r.tail, r.count - 1))
                  = SubSeq(Elements(r), 1, r.count - 1)
<1>1. PICK c \in Nat : c = r.count
    BY Fields DEF RingInv
<1>2. RingType(r) /\ c - 1 \in 0..r.capacity /\ r.capacity \in Nat /\ c > 0
    BY <1>1, Fields DEF RingInv
<1>3. \A i \in 0..((c - 1) - 1) : q[At(r, 0 + i)] = r.slots[At(r, i)] /\ q[At(r, 0 + i)] \in Value
    <2>1. TAKE i \in 0..((c - 1) - 1)
    <2>2. i \in 0..(c - 2) /\ i \in 0..(c - 1) /\ 0 + i = i
        BY <1>2
    <2>. QED  BY <1>1, <2>2 DEF RingInv
<1>4. PICK s : s = moved(r, q, retreat(r, r.head), r.tail, r.count - 1)
    OBVIOUS
<1>5. retreat(r, r.head) = At(r, 0 + (c - 1)) /\ r.tail = At(r, 0)
    BY <1>1, <1>2, Indices, AtZero, 0 + (c - 1) = c - 1
<1>6. /\ RingInv(s) /\ Elements(s) \in Seq(Value) /\ Len(Elements(s)) = c - 1
      /\ \A i \in 1..(c - 1) : Elements(s)[i] = q[At(r, 0 + (i - 1))]
    <2>1. PICK d \in 0..r.capacity : d = c - 1
        BY <1>2
    <2>2. Filled(r, q, 0, d)
        BY <1>3, <2>1 DEF Filled
    <2>3. s = moved(r, q, At(r, 0 + d), At(r, 0), d)
        BY <1>1, <1>4, <1>5, <2>1
    <2>4. /\ RingInv(s) /\ Elements(s) \in Seq(Value) /\ Len(Elements(s)) = d
          /\ \A i \in 1..d : Elements(s)[i] = q[At(r, 0 + (i - 1))]
        BY <2>2, <2>3, Window
    <2>. QED  BY <2>1, <2>4
<1>7. PICK e \in Seq(Value) : e = Elements(r)
    BY ElementsOf
<1>8. Len(e) = c /\ \A i \in 1..c : e[i] = r.slots[At(r, i - 1)]
    BY <1>1, <1>7, ElementsOf
<1>9. /\ SubSeq(e, 1, c - 1) \in Seq(Value) /\ Len(SubSeq(e, 1, c - 1)) = c - 1
      /\ \A i \in 1..(c - 1) : SubSeq(e, 1, c - 1)[i] = e[i]
    BY <1>2, <1>7, <1>8
<1>10. ASSUME NEW i \in 1..(c - 1)
       PROVE  Elements(s)[i] = SubSeq(e, 1, c - 1)[i]
    <2>1. i - 1 \in 0..((c - 1) - 1) /\ i \in 1..c
        BY <1>2
    <2>. QED  BY <1>3, <1>6, <1>8, <1>9, <2>1
<1>11. Elements(s) = SubSeq(e, 1, c - 1)
    BY <1>6, <1>9, <1>10, SeqEqual
<1>. QED  BY <1>1, <1>4, <1>6, <1>7, <1>11

\* What a failed copy puts back is what was there.
LEMMA Restored ==
    ASSUME NEW r, RingInv(r)
    PROVE  /\ moved(r, r.slots, r.head, advance(r, retreat(r, r.tail), 1), r.count) = r
           /\ moved(r, r.slots, advance(r, retreat(r, r.head), 1), r.tail, r.count) = r
<1>1. RingType(r) /\ r.count \in Int
    BY Fields DEF RingInv
<1>2. advance(r, retreat(r, r.tail), 1) = r.tail
    <2>1. PICK k \in Int : k = -1
        OBVIOUS
    <2>2. (At(r, k) + 1) % r.capacity = At(r, k + 1)
        BY <1>1, AtShift
    <2>. QED  BY <1>1, <2>1, <2>2, Indices, AtZero DEF advance
<1>3. advance(r, retreat(r, r.head), 1) = r.head
    <2>1. PICK k \in Int : k = r.count - 1
        BY <1>1
    <2>2. (At(r, k) + 1) % r.capacity = At(r, k + 1)
        BY <1>1, AtShift
    <2>3. k + 1 = r.count
        BY <1>1, <2>1
    <2>. QED  BY <2>1, <2>2, <2>3, Indices DEF advance, RingInv
<1>4. moved(r, r.slots, r.head, r.tail, r.count) = r
    BY <1>1 DEF moved, RingType
<1>. QED  BY <1>2, <1>3, <1>4

\* set_at replaces one element.
LEMMA Replaced ==
    ASSUME NEW r, RingInv(r), NEW j \in 0..(r.count - 1), NEW v \in Value,
           NEW s, s = moved(r, [r.slots EXCEPT ![logical_index(r, j)] = v], r.head, r.tail, r.count)
    PROVE  RingInv(s) /\ Elements(s) = [Elements(r) EXCEPT ![j + 1] = v]
<1>1. PICK c \in 0..r.capacity : c = r.count
    BY Fields DEF RingInv
<1>2. RingType(r) /\ r.capacity \in Nat \ {0} /\ c \in Nat /\ j \in Nat /\ c <= r.capacity
    BY <1>1, Fields DEF RingInv
<1>3. PICK q : q = [r.slots EXCEPT ![At(r, j)] = v]
    OBVIOUS
<1>4. At(r, j) \in Slot /\ r.slots \in [Slot -> Item]
    BY <1>2, AtSlot, Fields
<1>5. q \in [Slot -> Item] /\ q[At(r, j)] = v
    BY <1>3, <1>4 DEF Item
<1>6. \A i \in 0..(c - 1) : q[At(r, i)] = IF i = j THEN v ELSE r.slots[At(r, i)]
    <2>1. TAKE i \in 0..(c - 1)
    <2>2. i # j => At(r, i) # At(r, j)
        BY <1>1, <1>2, AtDistinct
    <2>3. At(r, i) \in Slot
        BY <1>2, AtSlot
    <2>. QED  BY <1>3, <1>4, <1>5, <2>2, <2>3
<1>7. Filled(r, q, 0, c)
    <2>1. ASSUME NEW i \in 0..(c - 1) PROVE q[At(r, 0 + i)] \in Value
        BY <1>1, <1>6, 0 + i = i DEF RingInv
    <2>. QED  BY <2>1 DEF Filled
<1>8. s = moved(r, q, At(r, 0 + c), At(r, 0), c)
    <2>1. 0 + c = c /\ logical_index(r, j) = At(r, j)
        BY <1>2, Indices
    <2>. QED  BY <1>1, <1>2, <1>3, <2>1, AtZero DEF RingInv
<1>9. /\ RingInv(s) /\ Elements(s) \in Seq(Value) /\ Len(Elements(s)) = c
      /\ \A i \in 1..c : Elements(s)[i] = q[At(r, 0 + (i - 1))]
    <2>1. PICK k \in Int : k = 0
        OBVIOUS
    <2>2. PICK u : u = moved(r, q, At(r, k + c), At(r, k), c)
        OBVIOUS
    <2>3. Filled(r, q, k, c) /\ u = s
        BY <1>7, <1>8, <2>1, <2>2
    <2>4. /\ RingInv(u) /\ Elements(u) \in Seq(Value) /\ Len(Elements(u)) = c
          /\ \A i \in 1..c : Elements(u)[i] = q[At(r, k + (i - 1))]
        BY <1>5, <2>2, <2>3, Window
    <2>. QED  BY <2>1, <2>3, <2>4
<1>10. PICK e \in Seq(Value) : e = Elements(r)
    BY ElementsOf
<1>11. Len(e) = c /\ \A i \in 1..c : e[i] = r.slots[At(r, i - 1)]
    BY <1>1, <1>10, ElementsOf
<1>12. j + 1 \in 1..Len(e)
    BY <1>1, <1>2, <1>11
<1>13. /\ [e EXCEPT ![j + 1] = v] \in Seq(Value) /\ Len([e EXCEPT ![j + 1] = v]) = c
       /\ \A i \in 1..c : [e EXCEPT ![j + 1] = v][i] = IF i = j + 1 THEN v ELSE e[i]
    BY <1>11, <1>12, ExceptSeq
<1>14. ASSUME NEW i \in 1..c
       PROVE  Elements(s)[i] = [e EXCEPT ![j + 1] = v][i]
    <2>1. i - 1 \in 0..(c - 1) /\ 0 + (i - 1) = i - 1 /\ (i - 1 = j <=> i = j + 1)
        BY <1>2
    <2>. QED  BY <1>6, <1>9, <1>11, <1>13, <2>1
<1>15. Elements(s) = [e EXCEPT ![j + 1] = v]
    BY <1>9, <1>13, <1>14, SeqEqual
<1>. QED  BY <1>9, <1>10, <1>15

\* Growth keeps the elements and their order.
LEMMA Relinearized ==
    ASSUME NEW r, RingInv(r), NEW new \in 1..MaxCapacity, r.count < new,
           NEW s, s = relinearize(r, new)
    PROVE  RingInv(s) /\ s.count = r.count /\ Elements(s) = Elements(r)
<1>1. PICK c \in Nat : c = r.count
    BY Fields DEF RingInv
<1>2. PICK e \in Seq(Value) : e = Elements(r)
    BY ElementsOf
<1>3. Len(e) = c /\ \A i \in 1..c : e[i] \in Value
    BY <1>1, <1>2, ElementsOf
<1>4. new \in Nat \ {0} /\ c < new /\ c \in 0..(new - 1)
    BY <1>1, RingAssumption
<1>5. PICK q : q = [t \in Slot |-> IF t < c THEN e[t + 1] ELSE Empty]
    OBVIOUS
<1>6. q \in [Slot -> Item]
    <2>1. ASSUME NEW t \in Slot PROVE (IF t < c THEN e[t + 1] ELSE Empty) \in Item
        <3>1. t < c => t + 1 \in 1..c
            BY RingAssumption DEF Slot
        <3>. QED  BY <1>3, <3>1 DEF Item
    <2>. QED  BY <1>5, <2>1
<1>7. /\ s.capacity = new /\ s.head = c /\ s.tail = 0 /\ s.count = c /\ s.slots = q
    BY <1>1, <1>2, <1>5 DEF relinearize
<1>8. RingType(s)
    <2>1. PICK k, o : /\ k \in {"external", "arena", "heap"} /\ o \in {"caller", "arena", "heap"}
                      /\ k = s.kind /\ o = s.owner
        BY DEF relinearize, RingInv, RingType
    <2>2. PICK m \in Int : m = s.heap
        BY DEF relinearize, RingInv, RingType
    <2>3. s = [capacity |-> new, head |-> c, tail |-> 0, count |-> c, slots |-> q,
               kind |-> k, owner |-> o, heap |-> m]
        BY <1>7, <2>1, <2>2 DEF relinearize
    <2>. QED  BY <1>4, <1>6, <2>1, <2>2, <2>3 DEF RingType
<1>9. \A i \in 0..(new - 1) : At(s, i) = i
    BY <1>4, <1>7, ModSmall DEF At
<1>10. \A i \in 0..(c - 1) : q[i] = e[i + 1] /\ i + 1 \in 1..c /\ i \in 0..(new - 1)
    BY <1>4, <1>5, RingAssumption DEF Slot
<1>11. RingInv(s)
    BY <1>3, <1>4, <1>7, <1>8, <1>9, <1>10 DEF RingInv
<1>12. Elements(s) = e
    <2>1. /\ Elements(s) \in Seq(Value) /\ Len(Elements(s)) = c
          /\ \A i \in 1..c : Elements(s)[i] = q[At(s, i - 1)]
        <3>1. /\ Elements(s) \in Seq(Value) /\ Len(Elements(s)) = s.count
              /\ \A i \in 1..s.count : Elements(s)[i] = s.slots[At(s, i - 1)]
            BY <1>11, ElementsOf
        <3>. QED  BY <1>7, <3>1
    <2>2. ASSUME NEW i \in 1..c PROVE Elements(s)[i] = e[i]
        <3>1. i - 1 \in 0..(c - 1) /\ (i - 1) + 1 = i
            OBVIOUS
        <3>. QED  BY <1>9, <1>10, <2>1, <3>1
    <2>. QED  BY <1>3, <2>1, <2>2, SeqEqual
<1>. QED  BY <1>1, <1>2, <1>7, <1>11, <1>12

\* Elements filled in place join at the back.
LEMMA Committed ==
    ASSUME NEW r, RingInv(r), NEW n \in 0..(r.capacity - r.count), NEW q \in [Slot -> Item],
           \A i \in 0..(r.count - 1) : q[At(r, i)] = r.slots[At(r, i)],
           \A i \in r.count..((r.count + n) - 1) : q[At(r, i)] \in Value
    PROVE  /\ RingInv(moved(r, q, advance(r, r.head, n), r.tail, r.count + n))
           /\ Elements(moved(r, q, advance(r, r.head, n), r.tail, r.count + n)) \in Seq(Value)
           /\ Len(Elements(moved(r, q, advance(r, r.head, n), r.tail, r.count + n))) = r.count + n
           /\ SubSeq(Elements(moved(r, q, advance(r, r.head, n), r.tail, r.count + n)), 1, r.count)
                  = Elements(r)
<1>1. PICK c \in Nat : c = r.count
    BY Fields DEF RingInv
<1>2. PICK d \in 0..r.capacity : d = c + n
    BY <1>1, Fields DEF RingInv
<1>3. RingType(r) /\ r.capacity \in Nat \ {0} /\ n \in Nat /\ c <= d /\ d \in Nat
    BY <1>1, <1>2, Fields DEF RingInv
<1>4. PICK k \in Int : k = 0
    OBVIOUS
<1>5. Filled(r, q, k, d)
    <2>1. ASSUME NEW i \in 0..(d - 1) PROVE q[At(r, k + i)] \in Value
        <3>1. k + i = i
            BY <1>4
        <3>2. CASE i \in 0..(c - 1)
            BY <1>1, <3>1, <3>2 DEF RingInv
        <3>3. CASE i \in c..((c + n) - 1)
            BY <1>1, <3>1, <3>3
        <3>. QED  BY <1>2, <3>2, <3>3
    <2>. QED  BY <2>1 DEF Filled
<1>6. PICK s : s = moved(r, q, At(r, k + d), At(r, k), d)
    OBVIOUS
<1>7. s = moved(r, q, advance(r, r.head, n), r.tail, r.count + n)
    <2>1. k + d = r.count + n
        BY <1>1, <1>2, <1>4
    <2>. QED  BY <1>1, <1>2, <1>3, <1>4, <1>6, <2>1, Indices, AtZero
<1>8. /\ RingInv(s) /\ Elements(s) \in Seq(Value) /\ Len(Elements(s)) = d
      /\ \A i \in 1..d : Elements(s)[i] = q[At(r, k + (i - 1))]
    BY <1>5, <1>6, Window
<1>9. PICK e \in Seq(Value), f \in Seq(Value) : e = Elements(r) /\ f = Elements(s)
    BY <1>8, ElementsOf
<1>10. Len(e) = c /\ \A i \in 1..c : e[i] = r.slots[At(r, i - 1)]
    BY <1>1, <1>9, ElementsOf
<1>11. SubSeq(f, 1, c) \in Seq(Value) /\ Len(SubSeq(f, 1, c)) = c /\ \A i \in 1..c : SubSeq(f, 1, c)[i] = f[i]
    BY <1>3, <1>8, <1>9
<1>12. ASSUME NEW i \in 1..c
       PROVE  SubSeq(f, 1, c)[i] = e[i]
    <2>1. i - 1 \in 0..(c - 1) /\ k + (i - 1) = i - 1 /\ i \in 1..d
        BY <1>3, <1>4
    <2>. QED  BY <1>1, <1>8, <1>9, <1>10, <1>11, <2>1
<1>13. SubSeq(f, 1, c) = e
    BY <1>10, <1>11, <1>12, SeqEqual
<1>. QED  BY <1>1, <1>2, <1>7, <1>8, <1>9, <1>13

\* clear leaves an empty ring in the same storage.
LEMMA ClearedRing ==
    ASSUME NEW r, RingInv(r), NEW s, s = cleared(r)
    PROVE  /\ RingInv(s) /\ s.count = 0 /\ Elements(s) = <<>>
           /\ s.kind = r.kind /\ s.owner = r.owner /\ s.heap = r.heap
<1>1. RingType(r) /\ r.count \in Nat /\ r.capacity \in Nat \ {0}
    BY Fields DEF RingInv
<1>2. RingInv(s) /\ s.count = 0 /\ s.kind = r.kind /\ s.owner = r.owner /\ s.heap = r.heap
    <2>1. CASE r.count = 0
        BY <2>1 DEF cleared
    <2>2. CASE r.count # 0
        <3>1. PICK q \in [Slot -> Item] : q = Destroyed(r, Live(r))
            BY <1>1, DestroyedKeeps
        <3>2. s = moved(r, q, 0, 0, 0)
            BY <2>2, <3>1 DEF cleared
        <3>3. RingType(s)
            BY <1>1, <3>2, Fields DEF moved, RingType
        <3>4. /\ s.count = 0 /\ s.head = 0 /\ s.tail = 0 /\ s.capacity = r.capacity
              /\ s.kind = r.kind /\ s.owner = r.owner /\ s.heap = r.heap
            BY <3>2 DEF moved
        <3>5. At(s, 0) = 0
            BY <1>1, <3>3, <3>4, AtZero
        <3>. QED  BY <3>3, <3>4, <3>5 DEF RingInv
    <2>. QED  BY <2>1, <2>2
<1>3. Elements(s) = <<>>
    <2>1. Elements(s) \in Seq(Value) /\ Len(Elements(s)) = 0
        BY <1>2, ElementsOf
    <2>. QED  BY <2>1
<1>. QED  BY <1>2, <1>3
-----------------------------------------------------------------------------
(***************************************************************************)
(* The inductive invariant                                                 *)
(***************************************************************************)

\* The storage of a ring in use is a malloc block exactly when storage_kind_
\* says so, and it then is the only one.
Owned(r) ==
    /\ r.kind = "heap" <=> r.owner = "heap"
    /\ r.heap = (IF r.owner = "heap" THEN 1 ELSE 0)

Inv ==
    /\ TypeOK
    /\ RingInv(ring)
    /\ alive => Owned(ring)
    /\ ~alive /\ client = "c_api" => ring.heap = 0

\* moved does not touch the storage.
LEMMA MovedOwned ==
    ASSUME NEW r, Owned(r), NEW q, NEW h, NEW t, NEW c
    PROVE  Owned(moved(r, q, h, t, c))
BY DEF Owned, moved

\* relinearize frees what it leaves and records what it allocates.
LEMMA RelinearizedOwned ==
    ASSUME NEW r, Owned(r), NEW new
    PROVE  Owned(relinearize(r, new))
BY DEF Owned, relinearize

\* What growth may leave behind.
LEMMA GrownRing ==
    ASSUME Inv, alive, NEW required \in Nat, required > ring.count, NEW r \in Grown(required)
    PROVE  RingInv(r) /\ Owned(r) /\ Elements(r) = Elements(ring) /\ r.count < r.capacity
<1>1. PICK n \in required..MaxCapacity : r = relinearize(ring, n)
    BY DEF Grown
<1>2. ring.count \in Nat /\ n \in 1..MaxCapacity /\ ring.count < n
    BY <1>1, Fields, RingAssumption DEF Inv, RingInv
<1>3. RingInv(r) /\ r.count = ring.count /\ Elements(r) = Elements(ring)
    BY <1>1, <1>2, Relinearized DEF Inv
<1>4. r.capacity = n
    BY <1>1 DEF relinearize
<1>. QED  BY <1>1, <1>2, <1>3, <1>4, RelinearizedOwned DEF Inv

\* An overwriting push_back gives up the oldest element.
LEMMA DroppedOldest ==
    ASSUME Inv, alive, ring.count > 0
    PROVE  /\ RingInv(drop_oldest(ring)) /\ Owned(drop_oldest(ring))
           /\ Elements(drop_oldest(ring)) = SubSeq(Elements(ring), 2, ring.count)
           /\ drop_oldest(ring).count < drop_oldest(ring).capacity
<1>1. RingInv(ring) /\ RingType(ring) /\ ring.count \in Nat /\ ring.count <= ring.capacity
      /\ ring.capacity \in Nat /\ 1 \in 1..ring.count
    BY Fields DEF Inv, RingInv
<1>2. PICK q \in [Slot -> Item] : q = Destroyed(ring, {ring.tail})
    BY <1>1, DestroyedKeeps
<1>3. \A i \in 1..(ring.count - 1) : q[At(ring, i)] = ring.slots[At(ring, i)]
    <2>1. TAKE i \in 1..(ring.count - 1)
    <2>2. At(ring, 0) # At(ring, i) /\ At(ring, i) \in Slot
        BY <1>1, AtDistinct, AtSlot
    <2>3. At(ring, i) \in Slot \ {ring.tail}
        BY <1>1, <2>2, AtZero
    <2>. QED  BY <1>1, <1>2, <2>3, DestroyedKeeps
<1>4. drop_oldest(ring) = moved(ring, q, ring.head, advance(ring, ring.tail, 1), ring.count - 1)
    BY <1>2 DEF drop_oldest
<1>5. /\ RingInv(drop_oldest(ring))
      /\ Elements(drop_oldest(ring)) = SubSeq(Elements(ring), 1 + 1, ring.count)
    BY <1>1, <1>3, <1>4, DropFront
<1>6. drop_oldest(ring).count = ring.count - 1 /\ drop_oldest(ring).capacity = ring.capacity
    BY <1>4 DEF moved
<1>. QED  BY <1>1, <1>4, <1>5, <1>6, MovedOwned DEF Inv

\* An overwriting push_front gives up the newest element.
LEMMA DroppedNewest ==
    ASSUME Inv, alive, ring.count > 0
    PROVE  /\ RingInv(drop_newest(ring)) /\ Owned(drop_newest(ring))
           /\ Elements(drop_newest(ring)) = SubSeq(Elements(ring), 1, ring.count - 1)
           /\ drop_newest(ring).count < drop_newest(ring).capacity
<1>1. RingInv(ring) /\ RingType(ring) /\ ring.count \in Nat /\ ring.count <= ring.capacity
      /\ ring.capacity \in Nat
    BY Fields DEF Inv, RingInv
<1>2. PICK q \in [Slot -> Item] : q = Destroyed(ring, {retreat(ring, ring.head)})
    BY <1>1, DestroyedKeeps
<1>3. \A i \in 0..(ring.count - 2) : q[At(ring, i)] = ring.slots[At(ring, i)]
    <2>1. TAKE i \in 0..(ring.count - 2)
    <2>2. PICK j \in Int : j = ring.count - 1
        BY <1>1
    <2>3. i < j /\ j - i < ring.capacity
        BY <1>1, <2>2
    <2>4. At(ring, i) # At(ring, j) /\ At(ring, i) \in Slot
        BY <1>1, <2>3, AtDistinct, AtSlot
    <2>5. At(ring, i) \in Slot \ {retreat(ring, ring.head)}
        BY <1>1, <2>2, <2>4, Indices
    <2>. QED  BY <1>1, <1>2, <2>5, DestroyedKeeps
<1>4. drop_newest(ring) = moved(ring, q, retreat(ring, ring.head), ring.tail, ring.count - 1)
    BY <1>2 DEF drop_newest
<1>5. /\ RingInv(drop_newest(ring))
      /\ Elements(drop_newest(ring)) = SubSeq(Elements(ring), 1, ring.count - 1)
    BY <1>1, <1>3, <1>4, DropBack
<1>6. drop_newest(ring).count = ring.count - 1 /\ drop_newest(ring).capacity = ring.capacity
    BY <1>4 DEF moved
<1>. QED  BY <1>1, <1>4, <1>5, <1>6, MovedOwned DEF Inv
-----------------------------------------------------------------------------
(***************************************************************************)
(* The actions                                                             *)
(***************************************************************************)

\* A step of the abstract deque, or none.
DequeStep == D!DequeNext \/ (Elements(ring') = Elements(ring) /\ out' = out)

\* What every step of a ring in use has to show.
GoodStep == RingInv(ring') /\ Owned(ring') /\ out' \in Item /\ DequeStep

\* A call that only returns a status.
LEMMA ReturnGood ==
    ASSUME Inv, alive, NEW status, Return(status)
    PROVE  GoodStep
BY DEF Inv, TypeOK, Return, GoodStep, DequeStep

\* The elements of a ring with some, as a sequence.
LEMMA NonEmpty ==
    ASSUME Inv, ring.count > 0
    PROVE  /\ Elements(ring) \in Seq(Value) /\ Elements(ring) # <<>>
           /\ Len(Elements(ring)) = ring.count /\ ring.count \in Nat
           /\ Tail(Elements(ring)) = SubSeq(Elements(ring), 2, ring.count)
           /\ Head(Elements(ring)) = ring.slots[ring.tail]
           /\ Elements(ring)[ring.count] = ring.slots[retreat(ring, ring.head)]
           /\ ring.slots[ring.tail] \in Value /\ ring.slots[retreat(ring, ring.head)] \in Value
<1>1. RingInv(ring) /\ RingType(ring)
    BY DEF Inv, RingInv
<1>2. PICK e \in Seq(Value) : e = Elements(ring)
    BY <1>1, ElementsOf
<1>3. /\ Len(e) = ring.count /\ ring.count \in Nat
      /\ \A i \in 1..ring.count : e[i] = ring.slots[At(ring, i - 1)]
    BY <1>1, <1>2, ElementsOf
<1>4. e # <<>>
    BY <1>3
<1>5. Tail(e) = SubSeq(e, 2, Len(e))
    BY <1>4, TailIsSubSeq
<1>6. 1 \in 1..ring.count /\ ring.count \in 1..ring.count /\ 1 - 1 = 0
    BY <1>3
<1>7. e[1] = ring.slots[ring.tail] /\ e[ring.count] = ring.slots[retreat(ring, ring.head)]
    BY <1>1, <1>3, <1>6, AtZero, Indices
<1>8. e[1] \in Value /\ e[ring.count] \in Value
    BY <1>3, <1>6
<1>9. Head(e) = e[1]
    BY <1>4
<1>. QED  BY <1>2, <1>3, <1>4, <1>5, <1>7, <1>8, <1>9

\* push_back.
LEMMA PushBackGood ==
    ASSUME Inv, NEW v \in Value, NEW allow_overwrite \in BOOLEAN, PushBack(v, allow_overwrite)
    PROVE  GoodStep
<1>. DEFINE lossy == allow_overwrite \/ overwrite_on_full
<1>1. alive /\ out \in Item /\ RingInv(ring) /\ Owned(ring)
    BY DEF PushBack, Inv, TypeOK
<1>2. ring.count \in Nat /\ ring.capacity \in Nat \ {0} /\ ring.count <= ring.capacity
    BY <1>1, Fields DEF RingInv
<1>3. CASE \E status : Return(status)
    BY <1>1, <1>3, ReturnGood
<1>4. CASE /\ \E r \in Room(drop_oldest(ring), lossy) :
                 \/ ring' = put_back(r, v) /\ res' = "ok"
                 \/ copy_may_fail /\ ring' = r /\ res' = "failed"
           /\ UNCHANGED out
    <2>1. PICK r \in Room(drop_oldest(ring), lossy) : ring' = put_back(r, v) \/ ring' = r
        BY <1>4
    <2>2. \/ r = ring /\ ring.count < ring.capacity
          \/ ring.count >= ring.capacity /\ r \in Grown(ring.count + 1)
          \/ ring.count >= ring.capacity /\ r = drop_oldest(ring)
        BY <1>2, <2>1 DEF Room
    <2>3. /\ RingInv(r) /\ Owned(r) /\ r.count < r.capacity
          /\ \/ Elements(r) = Elements(ring)
             \/ ring.count > 0 /\ Elements(r) = SubSeq(Elements(ring), 2, ring.count)
        BY <1>1, <1>2, <2>2, GrownRing, DroppedOldest
    <2>4. /\ RingInv(put_back(r, v)) /\ Owned(put_back(r, v))
          /\ Elements(put_back(r, v)) = Append(Elements(r), v)
        BY <2>3, PutBack, MovedOwned DEF put_back
    <2>5. out' = out
        BY <1>4
    <2>6. CASE ring' = put_back(r, v)
        <3>1. D!AddBack(v) \/ D!ReplaceOldest(v)
            BY <2>3, <2>4, <2>5, <2>6, NonEmpty DEF D!AddBack, D!ReplaceOldest
        <3>. QED  BY <1>1, <2>4, <2>5, <2>6, <3>1 DEF GoodStep, DequeStep, D!DequeNext
    <2>7. CASE ring' = r
        <3>1. D!TakeFront \/ Elements(ring') = Elements(ring)
            BY <2>3, <2>5, <2>7, NonEmpty DEF D!TakeFront
        <3>. QED  BY <1>1, <2>3, <2>5, <2>7, <3>1 DEF GoodStep, DequeStep, D!DequeNext
    <2>. QED  BY <2>1, <2>6, <2>7
<1>. QED  BY <1>3, <1>4 DEF PushBack

\* push_front.
LEMMA PushFrontGood ==
    ASSUME Inv, NEW v \in Value, PushFront(v)
    PROVE  GoodStep
<1>1. alive /\ out \in Item /\ RingInv(ring) /\ Owned(ring)
    BY DEF PushFront, Inv, TypeOK
<1>2. ring.count \in Nat /\ ring.capacity \in Nat \ {0} /\ ring.count <= ring.capacity
    BY <1>1, Fields DEF RingInv
<1>3. CASE \E status : Return(status)
    BY <1>1, <1>3, ReturnGood
<1>4. CASE /\ \E r \in Room(drop_newest(ring), overwrite_on_full) :
                 \/ ring' = put_front(r, v) /\ res' = "ok"
                 \/ /\ copy_may_fail /\ res' = "failed"
                    /\ ring' = moved(r, r.slots, r.head, advance(r, retreat(r, r.tail), 1), r.count)
           /\ UNCHANGED out
    <2>1. PICK r \in Room(drop_newest(ring), overwrite_on_full) :
              \/ ring' = put_front(r, v)
              \/ ring' = moved(r, r.slots, r.head, advance(r, retreat(r, r.tail), 1), r.count)
        BY <1>4
    <2>2. \/ r = ring /\ ring.count < ring.capacity
          \/ ring.count >= ring.capacity /\ r \in Grown(ring.count + 1)
          \/ ring.count >= ring.capacity /\ r = drop_newest(ring)
        BY <1>2, <2>1 DEF Room
    <2>3. /\ RingInv(r) /\ Owned(r) /\ r.count < r.capacity
          /\ \/ Elements(r) = Elements(ring)
             \/ ring.count > 0 /\ Elements(r) = SubSeq(Elements(ring), 1, ring.count - 1)
        BY <1>1, <1>2, <2>2, GrownRing, DroppedNewest
    <2>4. /\ RingInv(put_front(r, v)) /\ Owned(put_front(r, v))
          /\ Elements(put_front(r, v)) = <<v>> \o Elements(r)
        BY <2>3, PutFront, MovedOwned DEF put_front
    <2>5. out' = out
        BY <1>4
    <2>6. CASE ring' = put_front(r, v)
        <3>1. D!AddFront(v) \/ D!ReplaceNewest(v)
            BY <2>3, <2>4, <2>5, <2>6, NonEmpty DEF D!AddFront, D!ReplaceNewest, D!Front
        <3>. QED  BY <1>1, <2>4, <2>5, <2>6, <3>1 DEF GoodStep, DequeStep, D!DequeNext
    <2>7. CASE ring' = moved(r, r.slots, r.head, advance(r, retreat(r, r.tail), 1), r.count)
        <3>1. ring' = r
            BY <2>3, <2>7, Restored
        <3>2. D!TakeBack \/ Elements(ring') = Elements(ring)
            BY <2>3, <2>5, <3>1, NonEmpty DEF D!TakeBack, D!Front
        <3>. QED  BY <1>1, <2>3, <2>5, <3>1, <3>2 DEF GoodStep, DequeStep, D!DequeNext
    <2>. QED  BY <2>1, <2>6, <2>7
<1>. QED  BY <1>3, <1>4 DEF PushFront

\* pop_front.
LEMMA PopFrontGood ==
    ASSUME Inv, NEW wanted \in BOOLEAN, PopFront(wanted)
    PROVE  GoodStep
<1>1. alive /\ out \in Item /\ RingInv(ring) /\ Owned(ring) /\ RingType(ring)
    BY DEF PopFront, Inv, TypeOK, RingInv
<1>2. ring.count \in Nat /\ ring.capacity \in Nat /\ ring.count <= ring.capacity
    BY <1>1, Fields
<1>3. CASE \E status : Return(status)
    BY <1>1, <1>3, ReturnGood
<1>4. CASE /\ ring.count > 0 /\ res' = "ok"
           /\ ring' = moved(ring, extract_slot(ring.tail, wanted), ring.head,
                            advance(ring, ring.tail, 1), ring.count - 1)
           /\ out' = IF wanted THEN ring.slots[ring.tail] ELSE out
    <2>1. PICK q : q = extract_slot(ring.tail, wanted)
        OBVIOUS
    <2>2. q \in [Slot -> Item] /\ \A s \in Slot \ {ring.tail} : q[s] = ring.slots[s]
        BY <1>1, <2>1, DestroyedKeeps, Fields DEF extract_slot
    <2>3. \A i \in 1..(ring.count - 1) : q[At(ring, i)] = ring.slots[At(ring, i)]
        <3>1. TAKE i \in 1..(ring.count - 1)
        <3>2. At(ring, 0) # At(ring, i) /\ At(ring, i) \in Slot
            BY <1>1, <1>2, AtDistinct, AtSlot
        <3>. QED  BY <1>1, <2>2, <3>2, AtZero
    <2>4. 1 \in 1..ring.count
        BY <1>2, <1>4
    <2>5. /\ RingInv(ring') /\ Owned(ring')
          /\ Elements(ring') = SubSeq(Elements(ring), 1 + 1, ring.count)
        <3>1. RingInv(ring') /\ Elements(ring') = SubSeq(Elements(ring), 1 + 1, ring.count)
            BY <1>1, <1>4, <2>1, <2>2, <2>3, <2>4, DropFront
        <3>2. Owned(ring')
            BY <1>1, <1>4, <2>1, MovedOwned
        <3>. QED  BY <3>1, <3>2
    <2>6. D!TakeFront
        BY <1>4, <2>5, NonEmpty DEF D!TakeFront
    <2>7. out' \in Item
        BY <1>1, <1>4, NonEmpty DEF Item
    <2>. QED  BY <2>5, <2>6, <2>7 DEF GoodStep, DequeStep, D!DequeNext
<1>. QED  BY <1>3, <1>4 DEF PopFront

\* pop_back.
LEMMA PopBackGood ==
    ASSUME Inv, NEW wanted \in BOOLEAN, PopBack(wanted)
    PROVE  GoodStep
<1>1. alive /\ out \in Item /\ RingInv(ring) /\ Owned(ring) /\ RingType(ring)
    BY DEF PopBack, Inv, TypeOK, RingInv
<1>2. ring.count \in Nat /\ ring.capacity \in Nat /\ ring.count <= ring.capacity
    BY <1>1, Fields
<1>3. PICK back : back = retreat(ring, ring.head)
    OBVIOUS
<1>4. CASE \E status : Return(status)
    BY <1>1, <1>4, ReturnGood
<1>5. CASE /\ ring' = moved(ring, ring.slots, advance(ring, back, 1), ring.tail, ring.count)
           /\ UNCHANGED out
    <2>1. ring' = ring
        BY <1>1, <1>3, <1>5, Restored
    <2>. QED  BY <1>1, <1>5, <2>1 DEF GoodStep, DequeStep
<1>6. CASE /\ ring.count > 0 /\ res' = "ok"
           /\ ring' = moved(ring, extract_slot(back, wanted), back, ring.tail, ring.count - 1)
           /\ out' = IF wanted THEN ring.slots[back] ELSE out
    <2>1. PICK q : q = extract_slot(back, wanted)
        OBVIOUS
    <2>2. q \in [Slot -> Item] /\ \A s \in Slot \ {back} : q[s] = ring.slots[s]
        BY <1>1, <2>1, DestroyedKeeps, Fields DEF extract_slot
    <2>3. \A i \in 0..(ring.count - 2) : q[At(ring, i)] = ring.slots[At(ring, i)]
        <3>1. TAKE i \in 0..(ring.count - 2)
        <3>2. PICK j \in Int : j = ring.count - 1
            BY <1>2
        <3>3. i < j /\ j - i < ring.capacity
            BY <1>2, <3>2
        <3>4. At(ring, i) # At(ring, j) /\ At(ring, i) \in Slot
            BY <1>1, <3>3, AtDistinct, AtSlot
        <3>5. back = At(ring, j)
            BY <1>1, <1>3, <3>2, Indices
        <3>. QED  BY <2>2, <3>4, <3>5
    <2>4. /\ RingInv(ring') /\ Owned(ring')
          /\ Elements(ring') = SubSeq(Elements(ring), 1, ring.count - 1)
        BY <1>1, <1>3, <1>6, <2>1, <2>2, <2>3, DropBack, MovedOwned
    <2>5. D!TakeBack
        BY <1>3, <1>6, <2>4, NonEmpty DEF D!TakeBack, D!Front
    <2>6. out' \in Item
        BY <1>1, <1>3, <1>6, NonEmpty DEF Item
    <2>. QED  BY <2>4, <2>5, <2>6 DEF GoodStep, DequeStep, D!DequeNext
<1>. QED  BY <1>3, <1>4, <1>5, <1>6 DEF PopBack

\* set_at.
LEMMA SetAtGood ==
    ASSUME Inv, NEW index \in 0..(MaxCapacity - 1), NEW v \in Value, SetAt(index, v)
    PROVE  GoodStep
<1>1. alive /\ out \in Item /\ RingInv(ring) /\ Owned(ring) /\ ring.count \in Nat
    BY Fields DEF SetAt, Inv, TypeOK, RingInv
<1>2. CASE \E status : Return(status)
    BY <1>1, <1>2, ReturnGood
<1>3. CASE /\ index < ring.count /\ res' = "ok" /\ UNCHANGED out
           /\ ring' = moved(ring, [ring.slots EXCEPT ![logical_index(ring, index)] = v],
                            ring.head, ring.tail, ring.count)
    <2>1. index \in 0..(ring.count - 1)
        BY <1>1, <1>3, RingAssumption
    <2>2. RingInv(ring') /\ Elements(ring') = [Elements(ring) EXCEPT ![index + 1] = v]
        BY <1>1, <1>3, <2>1, Replaced
    <2>3. Owned(ring')
        BY <1>1, <1>3, MovedOwned
    <2>4. index + 1 \in 1..Len(Elements(ring))
        BY <1>1, <2>1, ElementsOf
    <2>5. D!Replace(v)
        BY <1>3, <2>2, <2>4 DEF D!Replace
    <2>. QED  BY <1>1, <1>3, <2>2, <2>3, <2>5 DEF GoodStep, DequeStep, D!DequeNext
<1>. QED  BY <1>2, <1>3 DEF SetAt

\* Emptying the ring is a step of the deque.
LEMMA Emptied ==
    ASSUME Inv, Elements(ring') = <<>>, out' = out
    PROVE  DequeStep
<1>1. PICK e \in Seq(Value) : e = Elements(ring)
    BY ElementsOf DEF Inv
<1>2. CASE Len(e) = 0
    <2>1. e = <<>>
        BY <1>2
    <2>. QED  BY <1>1, <2>1 DEF DequeStep
<1>3. CASE Len(e) # 0
    <2>1. Len(e) \in 1..Len(e) /\ SubSeq(e, Len(e) + 1, Len(e)) = <<>>
        BY <1>3, SubSeqEmpty
    <2>2. D!Skip
        BY <1>1, <2>1 DEF D!Skip
    <2>. QED  BY <2>2 DEF DequeStep, D!DequeNext
<1>. QED  BY <1>2, <1>3

\* clear.
LEMMA ClearGood ==
    ASSUME Inv, Clear
    PROVE  GoodStep
<1>1. /\ alive /\ out \in Item /\ RingInv(ring) /\ Owned(ring)
      /\ ring' = cleared(ring) /\ out' = out
    BY DEF Clear, Inv, TypeOK
<1>2. /\ RingInv(ring') /\ Elements(ring') = <<>>
      /\ ring'.kind = ring.kind /\ ring'.owner = ring.owner /\ ring'.heap = ring.heap
    BY <1>1, ClearedRing
<1>. QED  BY <1>1, <1>2, Emptied DEF GoodStep, Owned

\* reserve, and the growth of writable_contiguous.
LEMMA GrowGood ==
    ASSUME Inv, WritableContiguous \/ \E n \in 1..MaxCapacity : Reserve(n)
    PROVE  GoodStep
<1>1. alive /\ out \in Item /\ RingInv(ring) /\ Owned(ring)
    BY DEF WritableContiguous, Reserve, Inv, TypeOK
<1>2. ring.count \in Nat /\ ring.capacity \in Nat /\ ring.count <= ring.capacity
    BY <1>1, Fields DEF RingInv
<1>3. CASE \E status : Return(status)
    BY <1>1, <1>3, ReturnGood
<1>4. CASE \E n \in Nat : n > ring.count /\ ring' \in Grown(n) /\ UNCHANGED out
    BY <1>1, <1>4, GrownRing DEF GoodStep, DequeStep
<1>5. CASE WritableContiguous
    BY <1>2, <1>3, <1>4, <1>5 DEF WritableContiguous
<1>6. CASE \E n \in 1..MaxCapacity : Reserve(n)
    <2>1. PICK n \in 1..MaxCapacity : Reserve(n)
        BY <1>6
    <2>2. n \in Nat
        BY RingAssumption
    <2>. QED  BY <1>2, <1>3, <1>4, <2>1, <2>2 DEF Reserve
<1>. QED  BY <1>5, <1>6

\* commit_read.
LEMMA CommitReadGood ==
    ASSUME Inv, NEW elem_count \in 1..MaxCapacity, CommitRead(elem_count)
    PROVE  GoodStep
<1>1. alive /\ out \in Item /\ RingInv(ring) /\ Owned(ring) /\ RingType(ring) /\ ring.count > 0
    BY DEF CommitRead, Inv, TypeOK, RingInv
<1>2. ring.count \in Nat /\ ring.capacity \in Nat /\ ring.count <= ring.capacity /\ elem_count \in Nat
    BY <1>1, Fields, RingAssumption
<1>3. PICK n \in 1..ring.count : n = IF elem_count > ring.count THEN ring.count ELSE elem_count
    BY <1>1, <1>2
<1>4. PICK q : q = Destroyed(ring, {logical_index(ring, i) : i \in 0..(n - 1)})
    OBVIOUS
<1>5. /\ ring' = moved(ring, q, ring.head, advance(ring, ring.tail, n), ring.count - n)
      /\ out' = out
    BY <1>3, <1>4 DEF CommitRead
<1>6. q \in [Slot -> Item]
    BY <1>1, <1>4, DestroyedKeeps
<1>7. \A i \in n..(ring.count - 1) : q[At(ring, i)] = ring.slots[At(ring, i)]
    <2>1. TAKE i \in n..(ring.count - 1)
    <2>2. At(ring, i) \in Slot
        BY <1>1, <1>2, AtSlot
    <2>3. ASSUME NEW j \in 0..(n - 1) PROVE At(ring, i) # logical_index(ring, j)
        <3>1. j < i /\ i - j < ring.capacity /\ i \in Int /\ j \in Nat
            BY <1>2
        <3>2. At(ring, j) # At(ring, i) /\ logical_index(ring, j) = At(ring, j)
            BY <1>1, <3>1, AtDistinct, Indices
        <3>. QED  BY <3>2
    <2>. QED  BY <1>1, <1>4, <2>2, <2>3, DestroyedKeeps
<1>8. RingInv(ring') /\ Elements(ring') = SubSeq(Elements(ring), n + 1, ring.count)
    BY <1>1, <1>5, <1>6, <1>7, DropFront
<1>9. D!Skip
    BY <1>1, <1>5, <1>8, NonEmpty DEF D!Skip
<1>. QED  BY <1>1, <1>5, <1>8, <1>9, MovedOwned DEF GoodStep, DequeStep, D!DequeNext

\* What commit_write leaves in the storage: n more elements after the ones it had,
\* and every other slot as it was.
LEMMA CommitSlots ==
    ASSUME Inv, NEW elem_count \in 1..MaxCapacity, CommitWrite(elem_count)
    PROVE  /\ res' = "ok" /\ out' = out
           /\ \E n \in 0..(ring.capacity - ring.count), q \in [Slot -> Item] :
                  /\ ring' = moved(ring, q, advance(ring, ring.head, n), ring.tail, ring.count + n)
                  /\ \A i \in 0..(ring.count - 1) : q[At(ring, i)] = ring.slots[At(ring, i)]
                  /\ \A i \in ring.count..((ring.count + n) - 1) : q[At(ring, i)] \in Value
                  /\ \A s \in Slot : \/ q[s] = ring.slots[s]
                                     \/ \E i \in ring.count..((ring.count + n) - 1) : s = At(ring, i)
<1>1. RingInv(ring) /\ RingType(ring)
    BY DEF CommitWrite, Inv, RingInv
<1>2. PICK c \in Nat, cap \in Nat \ {0}, h \in Nat :
          /\ c = ring.count /\ cap = ring.capacity /\ h = ring.head
          /\ c <= cap /\ h < cap
    BY <1>1, Fields
<1>3. PICK n \in 0..(cap - c) :
          n = IF elem_count > ring.capacity - ring.count THEN ring.capacity - ring.count ELSE elem_count
    BY <1>2, RingAssumption
<1>4. /\ n \in Nat /\ n <= cap - c /\ n <= cap - h
      /\ c \in Nat /\ cap \in Nat /\ h \in Nat /\ c <= cap /\ h < cap
    BY <1>2, <1>3 DEF CommitWrite
<1>5. PICK f \in [ring.head..((ring.head + n) - 1) -> Value] :
          /\ ring' = moved(ring, [s \in Slot |-> IF s \in DOMAIN f THEN f[s] ELSE ring.slots[s]],
                           advance(ring, ring.head, n), ring.tail, ring.count + n)
          /\ res' = "ok" /\ out' = out
    BY <1>3 DEF CommitWrite
<1>6. PICK q : q = [s \in Slot |-> IF s \in DOMAIN f THEN f[s] ELSE ring.slots[s]]
    OBVIOUS
<1>7. q \in [Slot -> Item]
    BY <1>1, <1>6, Fields DEF Item
<1>8. \A i \in 0..(n - 1) : At(ring, c + i) = h + i
    <2>1. TAKE i \in 0..(n - 1)
    <2>2. (At(ring, c) + i) % cap = At(ring, c + i)
        BY <1>1, <1>2, AtShift
    <2>3. At(ring, c) = h
        BY <1>1, <1>2 DEF RingInv
    <2>4. h + i \in 0..(cap - 1)
        BY <1>4
    <2>5. (h + i) % cap = h + i
        BY <1>2, <2>4, ModSmall
    <2>. QED  BY <2>2, <2>3, <2>5
<1>9. \A i \in c..((c + n) - 1) : q[At(ring, i)] \in Value
    <2>1. TAKE i \in c..((c + n) - 1)
    <2>2. PICK j \in 0..(n - 1) : i = c + j
        <3>1. i - c \in 0..(n - 1) /\ i = c + (i - c)
            BY <1>4
        <3>. QED  BY <3>1
    <2>3. At(ring, i) = h + j /\ At(ring, i) \in Slot
        BY <1>1, <1>2, <1>8, <2>2, AtSlot
    <2>4. h + j \in h..((h + n) - 1)
        BY <1>4
    <2>5. f \in [h..((h + n) - 1) -> Value]
        BY <1>2, <1>5
    <2>. QED  BY <1>6, <2>3, <2>4, <2>5
<1>10. ASSUME NEW s \in Slot
       PROVE  q[s] = ring.slots[s] \/ \E i \in c..((c + n) - 1) : s = At(ring, i)
    <2>1. SUFFICES ASSUME s \in DOMAIN f PROVE \E i \in c..((c + n) - 1) : s = At(ring, i)
        BY <1>6
    <2>2. s \in Int /\ s \in h..((h + n) - 1)
        BY <1>2, <1>5, <2>1
    <2>3. s - h \in 0..(n - 1) /\ c + (s - h) \in c..((c + n) - 1) /\ h + (s - h) = s
        BY <1>4, <2>2
    <2>. QED  BY <1>8, <2>3
<1>11. \A i \in 0..(c - 1) : q[At(ring, i)] = ring.slots[At(ring, i)]
    <2>1. TAKE i \in 0..(c - 1)
    <2>2. At(ring, i) \in Slot
        BY <1>1, AtSlot
    <2>3. ASSUME NEW j \in c..((c + n) - 1) PROVE At(ring, i) # At(ring, j)
        <3>1. i \in Int /\ j \in Int /\ i < j /\ j - i < cap
            BY <1>4
        <3>. QED  BY <1>1, <1>2, <3>1, AtDistinct
    <2>. QED  BY <1>10, <2>2, <2>3
<1>. QED  BY <1>2, <1>5, <1>6, <1>7, <1>9, <1>10, <1>11

\* commit_write.
LEMMA CommitWriteGood ==
    ASSUME Inv, NEW elem_count \in 1..MaxCapacity, CommitWrite(elem_count)
    PROVE  /\ GoodStep /\ res' = "ok" /\ ring'.count >= ring.count
           /\ SubSeq(Elements(ring'), 1, ring.count) = Elements(ring)
<1>1. alive /\ out \in Item /\ RingInv(ring) /\ Owned(ring) /\ RingType(ring)
    BY DEF CommitWrite, Inv, TypeOK, RingInv
<1>2. PICK n \in 0..(ring.capacity - ring.count), q \in [Slot -> Item] :
          /\ ring' = moved(ring, q, advance(ring, ring.head, n), ring.tail, ring.count + n)
          /\ \A i \in 0..(ring.count - 1) : q[At(ring, i)] = ring.slots[At(ring, i)]
          /\ \A i \in ring.count..((ring.count + n) - 1) : q[At(ring, i)] \in Value
    BY CommitSlots
<1>3. res' = "ok" /\ out' = out
    BY CommitSlots
<1>4. PICK c \in Nat : c = ring.count /\ n \in Nat
    BY <1>1, <1>2, Fields
<1>5. /\ RingInv(ring') /\ Owned(ring') /\ Elements(ring') \in Seq(Value)
      /\ Len(Elements(ring')) = c + n /\ SubSeq(Elements(ring'), 1, c) = Elements(ring)
    BY <1>1, <1>2, <1>4, Committed, MovedOwned
<1>6. Elements(ring) \in Seq(Value) /\ Len(Elements(ring)) = c /\ ring'.count = c + n
    BY <1>1, <1>4, <1>5, ElementsOf
<1>7. DequeStep
    <2>1. CASE n = 0
        <3>1. Len(Elements(ring')) = c
            BY <1>4, <1>5, <2>1
        <3>2. Elements(ring') = Elements(ring)
            BY <1>5, <3>1, SubSeqFull
        <3>. QED  BY <1>3, <3>2 DEF DequeStep
    <2>2. CASE n > 0
        <3>1. PICK f1 \in Seq(Value) : f1 = Elements(ring')
            BY <1>5
        <3>2. \A i \in 1..Len(f1) : f1[i] \in Value
            OBVIOUS
        <3>3. PICK e \in Seq(Value) : e = Elements(ring)
            BY <1>6
        <3>4. Len(f1) > Len(e) /\ SubSeq(f1, 1, Len(e)) = e
            BY <1>4, <1>5, <1>6, <2>2, <3>1, <3>3
        <3>5. D!Extend
            BY <1>3, <3>1, <3>2, <3>3, <3>4 DEF D!Extend
        <3>. QED  BY <3>5 DEF DequeStep, D!DequeNext
    <2>. QED  BY <1>4, <2>1, <2>2
<1>. QED  BY <1>1, <1>3, <1>4, <1>5, <1>6, <1>7 DEF GoodStep

\* The end of the ring.
LEMMA DeinitGood ==
    ASSUME Inv, Deinit
    PROVE  Inv' /\ DequeStep
<1>1. /\ alive /\ RingInv(ring) /\ Owned(ring) /\ alive' = FALSE /\ res' = "ok"
      /\ UNCHANGED <<client, flags, grow, out>> /\ TypeOK
    BY DEF Deinit, Inv
<1>2. PICK r : r = cleared(ring)
    OBVIOUS
<1>3. /\ RingInv(r) /\ Elements(r) = <<>> /\ RingType(r)
      /\ r.kind = ring.kind /\ r.owner = ring.owner /\ r.heap = ring.heap
    BY <1>1, <1>2, ClearedRing DEF RingInv
<1>4. PICK m \in Int : m = ring.heap - (IF client = "c_api" /\ ring.kind = "heap" THEN 1 ELSE 0)
    BY <1>1 DEF Owned
<1>5. ring' = [r EXCEPT !.heap = m]
    BY <1>2, <1>4 DEF Deinit
<1>6. RingType(ring') /\ ring'.heap = m
    BY <1>3, <1>5 DEF RingType
<1>7. /\ ring'.capacity = r.capacity /\ ring'.head = r.head /\ ring'.tail = r.tail
      /\ ring'.count = r.count /\ ring'.slots = r.slots
    BY <1>3, <1>5 DEF RingType
<1>8. RingInv(ring') /\ Elements(ring') = Elements(r)
    BY <1>3, <1>6, <1>7 DEF RingInv, At, Elements, logical_index, advance
<1>9. client = "c_api" => ring'.heap = 0
    BY <1>1, <1>4, <1>6 DEF Owned
<1>10. TypeOK'
    BY <1>1, <1>6 DEF TypeOK
<1>11. DequeStep
    BY <1>1, <1>3, <1>8, Emptied
<1>. QED  BY <1>1, <1>8, <1>9, <1>10, <1>11 DEF Inv
-----------------------------------------------------------------------------
(***************************************************************************)
(* The theorems                                                            *)
(***************************************************************************)

\* A ring fresh from init satisfies the invariant.
LEMMA InitInv == Init => Inv /\ D!DequeInit
<1>1. SUFFICES ASSUME Init PROVE Inv /\ D!DequeInit
    OBVIOUS
<1>2. /\ RingType(ring) /\ ring.head = 0 /\ ring.tail = 0 /\ ring.count = 0
      /\ Owned(ring) /\ out = Empty /\ alive = TRUE
    BY <1>1, RingAssumption DEF Init, RingType, Owned, Item, Slot
<1>3. At(ring, 0) = 0
    BY <1>2, AtZero
<1>4. RingInv(ring)
    BY <1>2, <1>3 DEF RingInv
<1>5. TypeOK
    BY <1>1, <1>2 DEF Init, TypeOK, Item
<1>6. Elements(ring) \in Seq(Value) /\ Len(Elements(ring)) = 0
    BY <1>2, <1>4, ElementsOf
<1>7. Elements(ring) = <<>>
    BY <1>6
<1>. QED  BY <1>2, <1>4, <1>5, <1>7 DEF Inv, D!DequeInit

\* Every step keeps the invariant and is a step of the deque or none.
LEMMA NextInv ==
    ASSUME Inv, [Next]_vars
    PROVE  Inv' /\ (D!DequeNext \/ UNCHANGED D!dequeVars)
<1>1. CASE UNCHANGED vars
    <2>1. Inv'
        BY <1>1 DEF Inv, TypeOK, vars
    <2>. QED  BY <1>1, <2>1 DEF D!dequeVars, vars
<1>2. CASE Deinit
    BY <1>2, DeinitGood DEF DequeStep, D!dequeVars
<1>3. CASE Next /\ ~Deinit
    <2>1. /\ alive /\ UNCHANGED <<client, flags, grow, alive>>
          /\ res' \in {"ok", "full", "empty", "invalid", "failed"}
        BY <1>3 DEF Next, QueueNext, PushBack, PushFront, PopFront, PopBack, SetAt, Clear, Reserve,
                    WritableContiguous, CommitRead, CommitWrite, Return
    <2>2. GoodStep
        BY <1>3, PushBackGood, PushFrontGood, PopFrontGood, PopBackGood, SetAtGood, ClearGood,
           GrowGood, CommitReadGood, CommitWriteGood DEF Next, QueueNext
    <2>3. TypeOK'
        BY <2>1, <2>2 DEF GoodStep, RingInv, Inv, TypeOK
    <2>. QED  BY <2>1, <2>2, <2>3 DEF GoodStep, DequeStep, D!dequeVars, Inv
<1>. QED  BY <1>1, <1>2, <1>3

\* The inductive invariant holds throughout.
THEOREM RingInvariant == Spec => []Inv
<1>1. Init => Inv
    BY InitInv
<1>2. Inv /\ [Next]_vars => Inv'
    BY NextInv
<1>. QED  BY <1>1, <1>2, PTL DEF Spec

\* The indices of the core stay in range and its slots hold elements or nothing,
\* for every capacity and every sequence of calls.
THEOREM RingTypeCorrect == Spec => []TypeOK
<1>1. Inv => TypeOK
    BY DEF Inv
<1>. QED  BY <1>1, RingInvariant, PTL

\* head_ always is count_ slots after tail_, for every capacity.
THEOREM RingIndexConsistent == Spec => []IndexConsistent
<1>1. Inv => IndexConsistent
    BY DEF Inv, RingInv, At, IndexConsistent
<1>. QED  BY <1>1, RingInvariant, PTL

\* storage_kind_ always tells a malloc block from storage that must not be freed.
THEOREM RingStorageOwned == Spec => []StorageOwned
<1>1. Inv => StorageOwned
    BY DEF Inv, Owned, StorageOwned
<1>. QED  BY <1>1, RingInvariant, PTL

\* *_deinit of the C API leaves no malloc block behind.
THEOREM RingStorageReleased == Spec => []StorageReleased
<1>1. Inv => StorageReleased
    BY DEF Inv, StorageReleased
<1>. QED  BY <1>1, RingInvariant, PTL

\* The ring implements the abstract deque: whatever the capacity, the client
\* and the order of calls, growths and failed copies.
THEOREM RingImplementsDeque == Spec => ImplementsDeque
<1>1. Init => D!DequeInit
    BY InitInv
<1>2. Inv /\ [Next]_vars => [D!DequeNext]_(D!dequeVars)
    BY NextInv
<1>. QED  BY <1>1, <1>2, RingInvariant, PTL DEF Spec, ImplementsDeque, D!DequeSpec
-----------------------------------------------------------------------------
(***************************************************************************)
(* The windows of zero-copy access                                         *)
(***************************************************************************)

\* The contiguous windows are exact until the ring wraps, for every capacity.
THEOREM RingWindowsExact == Spec => []WindowsExact
<1>1. Inv => WindowsExact
    <2>1. SUFFICES ASSUME Inv PROVE WindowsExact
        OBVIOUS
    <2>2. RingType(ring) /\ ring.head = (ring.tail + ring.count) % ring.capacity
        BY <2>1 DEF Inv, RingInv, At
    <2>3. PICK h \in Nat, t \in Nat, c \in Nat, cap \in Nat \ {0} :
              /\ h = ring.head /\ t = ring.tail /\ c = ring.count /\ cap = ring.capacity
              /\ h < cap /\ t < cap /\ c <= cap
        BY <2>2, Fields
    <2>4. h = IF t + c < cap THEN t + c ELSE (t + c) - cap
        <3>1. CASE t + c < cap
            BY <2>2, <2>3, <3>1, ModSmall
        <3>2. CASE t + c >= cap
            <4>1. (t + c) - cap \in 0..(cap - 1) /\ t + c \in Int
                BY <2>3, <3>2
            <4>2. ((t + c) - cap) % cap = (t + c) % cap
                BY <4>1, ModShift
            <4>3. ((t + c) - cap) % cap = (t + c) - cap
                BY <4>1, ModSmall
            <4>. QED  BY <2>2, <2>3, <3>2, <4>2, <4>3
        <3>. QED  BY <3>1, <3>2
    <2>5. PICK rd \in Int, wr \in Int :
              /\ rd = (IF t < h THEN h - t ELSE c) /\ rd = readable_contiguous(ring)
              /\ wr = (IF h >= t THEN cap - c ELSE h - t) /\ wr = writable_contiguous(ring)
        BY <2>3 DEF readable_contiguous, writable_contiguous
    <2>6. c > 0 => (rd <= cap - t <=> t + c <= cap)
        BY <2>3, <2>4, <2>5
    <2>7. c < cap => (wr \in 0..(cap - h) <=> t = 0)
        BY <2>3, <2>4, <2>5
    <2>. QED  BY <2>3, <2>5, <2>6, <2>7 DEF WindowsExact
<1>. QED  BY <1>1, RingInvariant, PTL
-----------------------------------------------------------------------------
(***************************************************************************)
(* No call drops an element it was not asked to take out                   *)
(***************************************************************************)

Keeps == FailureKeeps /\ GrowthKeeps

\* A step that leaves the elements alone.
LEMMA SameKeeps ==
    ASSUME Inv, RingInv(ring'), Elements(ring') = Elements(ring)
    PROVE  Keeps
<1>1. ring'.count = ring.count /\ ring.count \in Nat
    BY ElementsOf DEF Inv
<1>2. 0 \in 0..(ring'.count - ring.count) /\ \A i \in 1..ring.count : 0 + i = i
    BY <1>1
<1>. QED  BY <1>2 DEF Keeps, FailureKeeps, GrowthKeeps

\* A successful step that takes elements out.
LEMMA FewerKeeps ==
    ASSUME res' = "ok", ~(ring'.count >= ring.count)
    PROVE  Keeps
BY DEF Keeps, FailureKeeps, GrowthKeeps

\* A call that only returns a status.
LEMMA ReturnKeeps ==
    ASSUME Inv, NEW status, Return(status)
    PROVE  Keeps
BY SameKeeps DEF Return, Inv

\* push_back: only an overwriting push of a full ring loses the front element.
LEMMA PushBackKeeps ==
    ASSUME Inv, NEW v \in Value, NEW allow_overwrite \in BOOLEAN, PushBack(v, allow_overwrite)
    PROVE  Keeps
<1>. DEFINE lossy == allow_overwrite \/ overwrite_on_full
<1>1. alive /\ RingInv(ring)
    BY DEF PushBack, Inv
<1>2. ring.count \in Nat /\ ring.capacity \in Nat \ {0} /\ ring.count <= ring.capacity
    BY <1>1, Fields DEF RingInv
<1>3. CASE \E status : Return(status)
    BY <1>3, ReturnKeeps
<1>4. CASE \E r \in Room(drop_oldest(ring), lossy) :
                 \/ ring' = put_back(r, v) /\ res' = "ok"
                 \/ copy_may_fail /\ ring' = r /\ res' = "failed"
    <2>1. PICK r \in Room(drop_oldest(ring), lossy) :
                 \/ ring' = put_back(r, v) /\ res' = "ok"
                 \/ ring' = r /\ res' = "failed"
        BY <1>4
    <2>2. \/ r = ring /\ ring.count < ring.capacity
          \/ ring.count = ring.capacity /\ r \in Grown(ring.count + 1)
          \/ ring.count = ring.capacity /\ r = drop_oldest(ring) /\ ~growable
        BY <1>2, <2>1 DEF Room
    <2>3. /\ RingInv(r) /\ r.count < r.capacity
          /\ \/ Elements(r) = Elements(ring)
             \/ /\ ~growable /\ ring.count = ring.capacity
                /\ Elements(r) = SubSeq(Elements(ring), 2, ring.count)
        BY <1>1, <1>2, <2>2, GrownRing, DroppedOldest
    <2>4. CASE ring' = r /\ res' = "failed"
        <3>1. CASE Elements(r) = Elements(ring)
            BY <2>3, <2>4, <3>1, SameKeeps
        <3>2. CASE /\ ~growable /\ ring.count = ring.capacity
                   /\ Elements(r) = SubSeq(Elements(ring), 2, ring.count)
            BY <2>4, <3>2 DEF Keeps, FailureKeeps, GrowthKeeps
        <3>. QED  BY <2>3, <3>1, <3>2
    <2>5. CASE ring' = put_back(r, v) /\ res' = "ok"
        <3>1. SUFFICES ASSUME growable PROVE GrowthKeeps
            BY <2>5 DEF Keeps, FailureKeeps, GrowthKeeps
        <3>2. Elements(r) = Elements(ring)
            BY <2>3, <3>1
        <3>3. PICK e \in Seq(Value) : e = Elements(ring) /\ Len(e) = ring.count
            BY <1>1, ElementsOf
        <3>4. RingInv(ring') /\ Elements(ring') = Append(e, v)
            BY <2>3, <2>5, <3>2, <3>3, PutBack
        <3>5. ring'.count = ring.count + 1
            BY <3>3, <3>4, ElementsOf
        <3>6. 0 \in 0..(ring'.count - ring.count)
              /\ \A i \in 1..ring.count : Append(e, v)[0 + i] = e[i]
            BY <1>2, <3>3, <3>5
        <3>. QED  BY <3>3, <3>4, <3>6 DEF GrowthKeeps
    <2>. QED  BY <2>1, <2>4, <2>5
<1>. QED  BY <1>3, <1>4 DEF PushBack

\* push_front refuses a full ring and otherwise shifts no element.
LEMMA PushFrontKeeps ==
    ASSUME Inv, NEW v \in Value, PushFront(v)
    PROVE  Keeps
<1>1. alive /\ RingInv(ring)
    BY DEF PushFront, Inv
<1>2. ring.count \in Nat /\ ring.capacity \in Nat \ {0} /\ ring.count <= ring.capacity
    BY <1>1, Fields DEF RingInv
<1>3. CASE \E status : Return(status)
    BY <1>3, ReturnKeeps
<1>4. CASE \E r \in Room(drop_newest(ring), overwrite_on_full) :
                 \/ ring' = put_front(r, v) /\ res' = "ok"
                 \/ /\ copy_may_fail /\ res' = "failed"
                    /\ ring' = moved(r, r.slots, r.head, advance(r, retreat(r, r.tail), 1), r.count)
    <2>1. PICK r \in Room(drop_newest(ring), overwrite_on_full) :
                 \/ ring' = put_front(r, v) /\ res' = "ok"
                 \/ /\ ring' = moved(r, r.slots, r.head, advance(r, retreat(r, r.tail), 1), r.count)
                    /\ res' = "failed"
        BY <1>4
    <2>2. \/ r = ring /\ ring.count < ring.capacity
          \/ ring.count = ring.capacity /\ r \in Grown(ring.count + 1)
          \/ ring.count = ring.capacity /\ r = drop_newest(ring) /\ ~growable
        BY <1>2, <2>1 DEF Room
    <2>3. /\ RingInv(r) /\ r.count < r.capacity
          /\ \/ Elements(r) = Elements(ring)
             \/ /\ ~growable /\ ring.count = ring.capacity
                /\ Elements(r) = SubSeq(Elements(ring), 1, ring.count - 1)
        BY <1>1, <1>2, <2>2, GrownRing, DroppedNewest
    <2>4. CASE /\ ring' = moved(r, r.slots, r.head, advance(r, retreat(r, r.tail), 1), r.count)
               /\ res' = "failed"
        <3>1. ring' = r
            BY <2>3, <2>4, Restored
        <3>2. CASE Elements(r) = Elements(ring)
            BY <2>3, <3>1, <3>2, SameKeeps
        <3>3. CASE /\ ~growable /\ ring.count = ring.capacity
                   /\ Elements(r) = SubSeq(Elements(ring), 1, ring.count - 1)
            BY <2>4, <3>1, <3>3 DEF Keeps, FailureKeeps, GrowthKeeps
        <3>. QED  BY <2>3, <3>2, <3>3
    <2>5. CASE ring' = put_front(r, v) /\ res' = "ok"
        <3>1. SUFFICES ASSUME growable PROVE GrowthKeeps
            BY <2>5 DEF Keeps, FailureKeeps, GrowthKeeps
        <3>2. Elements(r) = Elements(ring)
            BY <2>3, <3>1
        <3>3. PICK e \in Seq(Value) : e = Elements(ring) /\ Len(e) = ring.count
            BY <1>1, ElementsOf
        <3>4. RingInv(ring') /\ Elements(ring') = <<v>> \o e
            BY <2>3, <2>5, <3>2, <3>3, PutFront
        <3>5. /\ <<v>> \in Seq(Value) /\ Len(<<v>>) = 1
              /\ Len(<<v>> \o e) = 1 + Len(e)
              /\ \A i \in 1..Len(e) : (<<v>> \o e)[1 + i] = e[i]
            OBVIOUS
        <3>6. ring'.count = ring.count + 1
            BY <1>2, <3>3, <3>4, <3>5, ElementsOf
        <3>7. 1 \in 0..(ring'.count - ring.count)
            BY <1>2, <3>6
        <3>. QED  BY <3>3, <3>4, <3>5, <3>7 DEF GrowthKeeps
    <2>. QED  BY <2>1, <2>4, <2>5
<1>. QED  BY <1>3, <1>4 DEF PushFront

\* pop_front and pop_back lose the element they answer and no other.
LEMMA PopKeeps ==
    ASSUME Inv, NEW wanted \in BOOLEAN, PopFront(wanted) \/ PopBack(wanted)
    PROVE  Keeps
<1>1. alive /\ RingInv(ring) /\ ring.count \in Nat
    BY Fields DEF PopFront, PopBack, Inv, RingInv
<1>2. CASE \E status : Return(status)
    BY <1>2, ReturnKeeps
<1>3. CASE \E q, h, t : res' = "ok" /\ ring' = moved(ring, q, h, t, ring.count - 1)
    <2>1. ring'.count = ring.count - 1
        BY <1>3 DEF moved
    <2>. QED  BY <1>1, <1>3, <2>1, FewerKeeps
<1>4. CASE ring' = moved(ring, ring.slots, advance(ring, retreat(ring, ring.head), 1), ring.tail, ring.count)
    <2>1. ring' = ring
        BY <1>1, <1>4, Restored
    <2>. QED  BY <1>1, <2>1, SameKeeps
<1>. QED  BY <1>2, <1>3, <1>4 DEF PopFront, PopBack

\* set_at changes one element.
LEMMA SetAtKeeps ==
    ASSUME Inv, NEW index \in 0..(MaxCapacity - 1), NEW v \in Value, SetAt(index, v)
    PROVE  Keeps
<1>1. alive /\ RingInv(ring) /\ ring.count \in Nat
    BY Fields DEF SetAt, Inv, RingInv
<1>2. CASE \E status : Return(status)
    BY <1>2, ReturnKeeps
<1>3. CASE /\ index < ring.count /\ res' = "ok"
           /\ ring' = moved(ring, [ring.slots EXCEPT ![logical_index(ring, index)] = v],
                            ring.head, ring.tail, ring.count)
    <2>1. index \in 0..(ring.count - 1)
        BY <1>1, <1>3, RingAssumption
    <2>2. Elements(ring') = [Elements(ring) EXCEPT ![index + 1] = v]
        BY <1>1, <1>3, <2>1, Replaced
    <2>3. PICK e \in Seq(Value), n \in 1..ring.count : e = Elements(ring) /\ Len(e) = ring.count /\ n = index + 1
        BY <1>1, <2>1, ElementsOf
    <2>4. Elements(ring') = [e EXCEPT ![n] = v] /\ [e EXCEPT ![n] = v][n] = v
        BY <2>2, <2>3
    <2>. QED  BY <1>3, <2>3, <2>4 DEF Keeps, FailureKeeps, GrowthKeeps
<1>. QED  BY <1>2, <1>3 DEF SetAt

\* clear and deinit drop every element, and report success.
LEMMA ClearKeeps ==
    ASSUME Inv, Clear \/ Deinit
    PROVE  Keeps
<1>1. alive /\ RingInv(ring) /\ ring.count \in Nat /\ res' = "ok"
    BY Fields DEF Clear, Deinit, Inv, RingInv
<1>2. ring'.count = 0
    <2>1. PICK r : r = cleared(ring)
        OBVIOUS
    <2>2. r.count = 0 /\ RingType(r)
        BY <1>1, <2>1, ClearedRing DEF RingInv
    <2>3. r \in [capacity : 1..MaxCapacity, head : Nat, tail : Nat, count : Nat,
                 slots : [Slot -> Item], kind : {"external", "arena", "heap"},
                 owner : {"caller", "arena", "heap"}, heap : Int]
        BY <2>2 DEF RingType
    <2>4. \A m : [r EXCEPT !.heap = m].count = 0
        BY <2>2, <2>3
    <2>. QED  BY <2>1, <2>2, <2>4 DEF Clear, Deinit
<1>3. CASE ring.count = 0
    <2>1. 0 \in 0..(ring'.count - ring.count) /\ 1..ring.count = {}
        BY <1>2, <1>3
    <2>. QED  BY <1>1, <2>1 DEF Keeps, FailureKeeps, GrowthKeeps
<1>4. CASE ring.count # 0
    BY <1>1, <1>2, <1>4, FewerKeeps
<1>. QED  BY <1>3, <1>4

\* reserve, and the growth that writable_contiguous asks for, move the elements in order.
LEMMA GrowKeeps ==
    ASSUME Inv, WritableContiguous \/ \E n \in 1..MaxCapacity : Reserve(n)
    PROVE  Keeps
<1>1. alive /\ RingInv(ring)
    BY DEF WritableContiguous, Reserve, Inv
<1>2. ring.count \in Nat /\ ring.capacity \in Nat /\ ring.count <= ring.capacity
    BY <1>1, Fields DEF RingInv
<1>3. CASE \E status : Return(status)
    BY <1>3, ReturnKeeps
<1>4. CASE \E n \in Nat : n > ring.count /\ ring' \in Grown(n)
    BY <1>1, <1>4, GrownRing, SameKeeps
<1>5. CASE WritableContiguous
    BY <1>2, <1>3, <1>4, <1>5 DEF WritableContiguous
<1>6. CASE \E n \in 1..MaxCapacity : Reserve(n)
    <2>1. PICK n \in 1..MaxCapacity : Reserve(n)
        BY <1>6
    <2>2. n \in Nat
        BY RingAssumption
    <2>. QED  BY <1>2, <1>3, <1>4, <2>1, <2>2 DEF Reserve
<1>. QED  BY <1>5, <1>6

\* commit_read drops elements of the front only.
LEMMA CommitReadKeeps ==
    ASSUME Inv, NEW elem_count \in 1..MaxCapacity, CommitRead(elem_count)
    PROVE  Keeps
<1>1. RingInv(ring) /\ ring.count > 0 /\ ring.count \in Nat /\ elem_count \in Nat /\ elem_count > 0
    BY Fields, RingAssumption DEF CommitRead, Inv, RingInv
<1>2. PICK n \in 1..ring.count : n = IF elem_count > ring.count THEN ring.count ELSE elem_count
    BY <1>1
<1>3. ring'.count = ring.count - n /\ res' = "ok"
    BY <1>2 DEF CommitRead, moved
<1>. QED  BY <1>1, <1>2, <1>3, FewerKeeps

\* commit_write only adds elements at the back.
LEMMA CommitWriteKeeps ==
    ASSUME Inv, NEW elem_count \in 1..MaxCapacity, CommitWrite(elem_count)
    PROVE  Keeps
<1>1. /\ RingInv(ring) /\ RingInv(ring') /\ res' = "ok" /\ ring'.count >= ring.count
      /\ SubSeq(Elements(ring'), 1, ring.count) = Elements(ring)
    BY CommitWriteGood DEF GoodStep, Inv
<1>2. PICK e \in Seq(Value), f \in Seq(Value) :
          /\ e = Elements(ring) /\ f = Elements(ring')
          /\ Len(e) = ring.count /\ Len(f) = ring'.count /\ ring.count \in Nat /\ ring'.count \in Nat
    BY <1>1, ElementsOf
<1>3. \A i \in 1..ring.count : SubSeq(f, 1, ring.count)[i] = f[i]
    BY <1>1, <1>2
<1>4. 0 \in 0..(ring'.count - ring.count) /\ \A i \in 1..ring.count : f[0 + i] = e[i]
    BY <1>1, <1>2, <1>3
<1>. QED  BY <1>1, <1>2, <1>4 DEF Keeps, FailureKeeps, GrowthKeeps

\* A call that fails keeps the elements, and so does a call that makes the ring grow:
\* for every capacity, client and order of calls.
THEOREM RingKeepsElements == Spec => KeepsElements
<1>1. Inv /\ [Next]_vars => [FailureKeeps /\ GrowthKeeps]_vars
    <2>1. SUFFICES ASSUME Inv, Next PROVE Keeps
        BY DEF Keeps
    <2>. QED  BY <2>1, PushBackKeeps, PushFrontKeeps, PopKeeps, SetAtKeeps, ClearKeeps, GrowKeeps,
                 CommitReadKeeps, CommitWriteKeeps DEF Next, QueueNext
<1>. QED  BY <1>1, RingInvariant, PTL DEF Spec, KeepsElements
-----------------------------------------------------------------------------
(***************************************************************************)
(* The lifetime of the elements of Queue and Deque                         *)
(***************************************************************************)

\* Exactly the element slots hold live objects.
Lives(r) == \A s \in Slot : r.slots[s] # Empty <=> \E i \in 0..(r.count - 1) : s = At(r, i)

\* The same in the words of the model.
LEMMA LivesLive ==
    ASSUME NEW r, RingInv(r), Lives(r)
    PROVE  \A s \in Slot : r.slots[s] # Empty <=> s \in Live(r)
<1>1. \A i \in 0..(r.count - 1) : logical_index(r, i) = At(r, i)
    BY Indices, Fields DEF RingInv
<1>. QED  BY <1>1 DEF Lives, Live

\* The window of element slots of a ring that was moved.
LEMMA LivesWindow ==
    ASSUME NEW r, RingType(r), NEW k \in Int, NEW c \in Int, NEW q, NEW h, NEW t, t = At(r, k),
           \A s \in Slot : q[s] # Empty <=> \E i \in 0..(c - 1) : s = At(r, k + i)
    PROVE  Lives(moved(r, q, h, t, c))
<1>1. PICK m : m = moved(r, q, h, t, c)
    OBVIOUS
<1>2. m.slots = q /\ m.count = c /\ m.capacity = r.capacity /\ m.tail = t
    BY <1>1 DEF moved
<1>3. \A i \in Int : At(m, i) = At(r, k + i)
    <2>1. TAKE i \in Int
    <2>2. At(m, i) = (At(r, k) + i) % r.capacity
        BY <1>2 DEF At
    <2>. QED  BY <2>2, AtShift
<1>. QED  BY <1>1, <1>2, <1>3 DEF Lives

\* Elements that leave are destroyed.
LEMMA LivesFewer ==
    ASSUME NEW r, RingInv(r), Lives(r), NEW k \in Nat, NEW c \in Nat, k + c <= r.count,
           NEW q, NEW h, NEW t, t = At(r, k),
           \A s \in Slot : q[s] = IF \E j \in 0..(r.count - 1) : (j < k \/ j >= k + c) /\ s = At(r, j)
                                  THEN Empty ELSE r.slots[s]
    PROVE  Lives(moved(r, q, h, t, c))
<1>1. RingType(r) /\ r.count \in Nat /\ r.capacity \in Nat /\ r.count <= r.capacity
    BY Fields DEF RingInv
<1>2. ASSUME NEW s \in Slot, q[s] # Empty PROVE \E i \in 0..(c - 1) : s = At(r, k + i)
    <2>1. PICK j \in 0..(r.count - 1) : s = At(r, j)
        BY <1>2 DEF Lives
    <2>2. ~(j < k \/ j >= k + c)
        BY <1>2, <2>1
    <2>3. j - k \in 0..(c - 1) /\ k + (j - k) = j
        BY <1>1, <2>2
    <2>. QED  BY <2>1, <2>3
<1>3. ASSUME NEW s \in Slot, NEW i \in 0..(c - 1), s = At(r, k + i) PROVE q[s] # Empty
    <2>1. k + i \in 0..(r.count - 1) /\ k + i \in Int
        BY <1>1
    <2>2. r.slots[s] # Empty
        BY <1>3, <2>1 DEF Lives
    <2>3. ASSUME NEW j \in 0..(r.count - 1), j < k \/ j >= k + c PROVE s # At(r, j)
        <3>1. j \in Int /\ \/ j < k + i /\ (k + i) - j < r.capacity
                           \/ k + i < j /\ j - (k + i) < r.capacity
            BY <1>1, <2>3
        <3>. QED  BY <1>1, <1>3, <2>1, <3>1, AtDistinct
    <2>. QED  BY <2>2, <2>3
<1>. QED  BY <1>1, <1>2, <1>3, LivesWindow

\* Elements that join are constructed.
LEMMA LivesMore ==
    ASSUME NEW r, RingInv(r), Lives(r), NEW k \in Int, NEW c \in Int, k <= 0, k + c >= r.count,
           NEW q, NEW h, NEW t, t = At(r, k),
           \A s \in Slot : q[s] # Empty <=> \/ r.slots[s] # Empty
                                            \/ \E j \in k..((k + c) - 1) : s = At(r, j)
    PROVE  Lives(moved(r, q, h, t, c))
<1>1. RingType(r) /\ r.count \in Nat
    BY Fields DEF RingInv
<1>2. ASSUME NEW s \in Slot, q[s] # Empty PROVE \E i \in 0..(c - 1) : s = At(r, k + i)
    <2>1. PICK j \in k..((k + c) - 1) : s = At(r, j)
        <3>1. CASE r.slots[s] # Empty
            <4>1. PICK j \in 0..(r.count - 1) : s = At(r, j)
                BY <3>1 DEF Lives
            <4>2. j \in k..((k + c) - 1)
                BY <1>1
            <4>. QED  BY <4>1, <4>2
        <3>. QED  BY <1>2, <3>1
    <2>2. j - k \in 0..(c - 1) /\ k + (j - k) = j
        OBVIOUS
    <2>. QED  BY <2>1, <2>2
<1>3. ASSUME NEW s \in Slot, NEW i \in 0..(c - 1), s = At(r, k + i) PROVE q[s] # Empty
    <2>1. k + i \in k..((k + c) - 1)
        OBVIOUS
    <2>. QED  BY <1>3, <2>1
<1>. QED  BY <1>1, <1>2, <1>3, LivesWindow

\* put_back and put_front construct the new element.
LEMMA LivesPut ==
    ASSUME NEW r, RingInv(r), Lives(r), NEW v \in Value
    PROVE  Lives(put_back(r, v)) /\ Lives(put_front(r, v))
<1>1. RingType(r) /\ r.slots \in [Slot -> Item] /\ v # Empty
    BY Fields, RingAssumption DEF RingInv
<1>2. PICK c \in Nat : c = r.count
    BY <1>1, Fields
<1>3. Lives(put_back(r, v))
    <2>1. PICK q : q = [r.slots EXCEPT ![r.head] = v]
        OBVIOUS
    <2>2. r.head = At(r, c) /\ r.tail = At(r, 0) /\ At(r, c) \in Slot
        BY <1>1, <1>2, AtZero, AtSlot DEF RingInv
    <2>3. ASSUME NEW s \in Slot
          PROVE  q[s] # Empty <=> r.slots[s] # Empty \/ \E j \in 0..((0 + (c + 1)) - 1) : s = At(r, j)
        <3>1. c \in 0..((0 + (c + 1)) - 1)
            OBVIOUS
        <3>2. CASE s = At(r, c)
            BY <1>1, <2>1, <2>2, <3>1, <3>2
        <3>3. CASE s # At(r, c)
            <4>1. q[s] = r.slots[s]
                BY <1>1, <2>1, <2>2, <3>3
            <4>2. ASSUME NEW j \in 0..((0 + (c + 1)) - 1), s = At(r, j) PROVE r.slots[s] # Empty
                <5>1. j \in 0..(c - 1)
                    BY <3>3, <4>2
                <5>. QED  BY <1>2, <4>2, <5>1 DEF Lives
            <4>. QED  BY <4>1, <4>2
        <3>. QED  BY <3>2, <3>3
    <2>4. put_back(r, v) = moved(r, q, advance(r, r.head, 1), r.tail, c + 1)
        BY <1>2, <2>1 DEF put_back
    <2>5. 0 + (c + 1) >= r.count /\ c + 1 \in Int
        BY <1>2
    <2>. QED  BY <2>2, <2>3, <2>4, <2>5, LivesMore
<1>4. Lives(put_front(r, v))
    <2>1. PICK k \in Int : k = -1
        OBVIOUS
    <2>2. PICK q : q = [r.slots EXCEPT ![retreat(r, r.tail)] = v]
        OBVIOUS
    <2>3. retreat(r, r.tail) = At(r, k) /\ At(r, k) \in Slot
        BY <1>1, <2>1, Indices, AtSlot
    <2>4. ASSUME NEW s \in Slot
          PROVE  q[s] # Empty <=> r.slots[s] # Empty \/ \E j \in k..((k + (c + 1)) - 1) : s = At(r, j)
        <3>1. k \in k..((k + (c + 1)) - 1)
            BY <2>1
        <3>2. CASE s = At(r, k)
            BY <1>1, <2>2, <2>3, <3>1, <3>2
        <3>3. CASE s # At(r, k)
            <4>1. q[s] = r.slots[s]
                BY <1>1, <2>2, <2>3, <3>3
            <4>2. ASSUME NEW j \in k..((k + (c + 1)) - 1), s = At(r, j) PROVE r.slots[s] # Empty
                <5>1. j # k
                    BY <3>3, <4>2
                <5>2. j \in 0..(c - 1)
                    BY <2>1, <5>1
                <5>. QED  BY <1>2, <4>2, <5>2 DEF Lives
            <4>. QED  BY <4>1, <4>2
        <3>. QED  BY <3>2, <3>3
    <2>5. put_front(r, v) = moved(r, q, r.head, retreat(r, r.tail), c + 1)
        BY <1>2, <2>2 DEF put_front
    <2>6. k + (c + 1) >= r.count /\ c + 1 \in Int /\ k <= 0
        BY <1>2, <2>1
    <2>. QED  BY <2>3, <2>4, <2>5, <2>6, LivesMore
<1>. QED  BY <1>3, <1>4

\* One element leaves at either end and is destroyed.
LEMMA LivesDrop ==
    ASSUME NEW r, RingInv(r), Lives(r), r.count > 0
    PROVE  /\ Lives(moved(r, Destroyed(r, {r.tail}), r.head, advance(r, r.tail, 1), r.count - 1))
           /\ Lives(moved(r, Destroyed(r, {retreat(r, r.head)}), retreat(r, r.head), r.tail, r.count - 1))
<1>1. RingType(r) /\ r.slots \in [Slot -> Item]
    BY Fields DEF RingInv
<1>2. PICK c \in Nat : c = r.count /\ c > 0
    BY <1>1, Fields
<1>3. /\ r.tail = At(r, 0) /\ advance(r, r.tail, 1) = At(r, 1) /\ retreat(r, r.head) = At(r, c - 1)
    BY <1>1, <1>2, AtZero, Indices
<1>4. PICK d \in Nat : d = c - 1 /\ 1 + d <= r.count /\ 0 + d <= r.count
    BY <1>2
<1>5. Lives(moved(r, Destroyed(r, {r.tail}), r.head, advance(r, r.tail, 1), r.count - 1))
    <2>1. ASSUME NEW s \in Slot
          PROVE  Destroyed(r, {r.tail})[s] =
                     IF \E j \in 0..(r.count - 1) : (j < 1 \/ j >= 1 + d) /\ s = At(r, j)
                     THEN Empty ELSE r.slots[s]
        <3>1. (\E j \in 0..(r.count - 1) : (j < 1 \/ j >= 1 + d) /\ s = At(r, j)) <=> s = At(r, 0)
            <4>1. 0 \in 0..(r.count - 1) /\ \A j \in 0..(r.count - 1) : j < 1 \/ j >= 1 + d => j = 0
                BY <1>2, <1>4
            <4>. QED  BY <4>1
        <3>. QED  BY <1>3, <3>1 DEF Destroyed
    <2>2. PICK q, t : q = Destroyed(r, {r.tail}) /\ t = advance(r, r.tail, 1)
        OBVIOUS
    <2>3. PICK k \in Nat : k = 1
        OBVIOUS
    <2>4. \A s \in Slot : q[s] = IF \E j \in 0..(r.count - 1) : (j < k \/ j >= k + d) /\ s = At(r, j)
                                 THEN Empty ELSE r.slots[s]
        BY <2>1, <2>2, <2>3
    <2>5. k + d <= r.count /\ t = At(r, k)
        BY <1>3, <1>4, <2>2, <2>3
    <2>6. Lives(moved(r, q, r.head, t, d))
        BY <2>4, <2>5, LivesFewer
    <2>. QED  BY <1>2, <1>4, <2>2, <2>6
<1>6. Lives(moved(r, Destroyed(r, {retreat(r, r.head)}), retreat(r, r.head), r.tail, r.count - 1))
    <2>1. ASSUME NEW s \in Slot
          PROVE  Destroyed(r, {retreat(r, r.head)})[s] =
                     IF \E j \in 0..(r.count - 1) : (j < 0 \/ j >= 0 + d) /\ s = At(r, j)
                     THEN Empty ELSE r.slots[s]
        <3>1. (\E j \in 0..(r.count - 1) : (j < 0 \/ j >= 0 + d) /\ s = At(r, j)) <=> s = At(r, c - 1)
            <4>1. /\ c - 1 \in 0..(r.count - 1) /\ c - 1 >= 0 + d
                  /\ \A j \in 0..(r.count - 1) : j < 0 \/ j >= 0 + d => j = c - 1
                BY <1>2, <1>4
            <4>. QED  BY <4>1
        <3>. QED  BY <1>3, <3>1 DEF Destroyed
    <2>2. PICK q, t : q = Destroyed(r, {retreat(r, r.head)}) /\ t = r.tail
        OBVIOUS
    <2>3. PICK k \in Nat : k = 0
        OBVIOUS
    <2>4. \A s \in Slot : q[s] = IF \E j \in 0..(r.count - 1) : (j < k \/ j >= k + d) /\ s = At(r, j)
                                 THEN Empty ELSE r.slots[s]
        BY <2>1, <2>2, <2>3
    <2>5. k + d <= r.count /\ t = At(r, k)
        BY <1>3, <1>4, <2>2, <2>3
    <2>6. Lives(moved(r, q, retreat(r, r.head), t, d))
        BY <2>4, <2>5, LivesFewer
    <2>. QED  BY <1>2, <1>4, <2>2, <2>6
<1>. QED  BY <1>5, <1>6

\* Growth moves every element and leaves none behind.
LEMMA LivesGrown ==
    ASSUME NEW r, RingInv(r), NEW new \in 1..MaxCapacity, r.count < new
    PROVE  Lives(relinearize(r, new))
<1>1. PICK m : m = relinearize(r, new)
    OBVIOUS
<1>2. PICK c \in Nat : c = r.count /\ new \in Nat /\ c < new
    BY Fields, RingAssumption DEF RingInv
<1>3. /\ m.slots = [s \in Slot |-> IF s < r.count THEN Elements(r)[s + 1] ELSE Empty]
      /\ m.count = c /\ m.tail = 0 /\ m.capacity = new
    BY <1>1, <1>2 DEF relinearize
<1>4. \A i \in 0..(c - 1) : At(m, i) = i
    <2>1. TAKE i \in 0..(c - 1)
    <2>2. i \in 0..(new - 1) /\ 0 + i = i /\ new \in Nat \ {0}
        BY <1>2
    <2>3. i % new = i
        BY <2>2, ModSmall
    <2>. QED  BY <1>3, <2>2, <2>3 DEF At
<1>5. \A i \in 0..(c - 1) : Elements(r)[i + 1] \in Value
    BY <1>2, ElementsOf DEF RingInv
<1>6. ASSUME NEW s \in Slot PROVE m.slots[s] # Empty <=> \E i \in 0..(c - 1) : s = At(m, i)
    <2>1. s \in Nat
        BY RingAssumption DEF Slot
    <2>2. CASE s < c
        <3>1. s \in 0..(c - 1)
            BY <2>1, <2>2
        <3>2. m.slots[s] # Empty
            BY <1>2, <1>3, <1>5, <2>2, <3>1, RingAssumption
        <3>. QED  BY <1>4, <3>1, <3>2
    <2>3. CASE ~(s < c)
        <3>1. m.slots[s] = Empty
            BY <1>2, <1>3, <2>3
        <3>2. \A i \in 0..(c - 1) : s # i
            BY <2>1, <2>3
        <3>. QED  BY <1>4, <3>1, <3>2
    <2>. QED  BY <2>2, <2>3
<1>. QED  BY <1>1, <1>3, <1>6 DEF Lives

\* clear destroys every element.
LEMMA LivesCleared ==
    ASSUME NEW r, RingInv(r), Lives(r)
    PROVE  Lives(cleared(r))
<1>1. CASE r.count = 0
    BY <1>1 DEF cleared
<1>2. CASE r.count # 0
    <2>1. PICK m : m = moved(r, Destroyed(r, Live(r)), 0, 0, 0)
        OBVIOUS
    <2>2. m.count = 0 /\ m.slots = Destroyed(r, Live(r)) /\ cleared(r) = m
        BY <1>2, <2>1 DEF moved, cleared
    <2>3. \A s \in Slot : m.slots[s] = Empty
        BY <2>2, LivesLive DEF Destroyed
    <2>4. 0..(m.count - 1) = {}
        BY <2>2
    <2>. QED  BY <2>2, <2>3, <2>4 DEF Lives
<1>. QED  BY <1>1, <1>2

\* Lifetime is inductive for Queue and Deque, which move elements out.
LivesInv == client = "Deque" => Lives(ring)

\* A ring that made room for a push.
LEMMA LivesRoom ==
    ASSUME Inv, alive, Lives(ring), NEW lossy,
           NEW r \in Room(drop_oldest(ring), lossy) \cup Room(drop_newest(ring), lossy)
    PROVE  RingInv(r) /\ Lives(r)
<1>1. RingInv(ring) /\ ring.count \in Nat /\ ring.capacity \in Nat \ {0} /\ ring.count <= ring.capacity
    BY Fields DEF Inv, RingInv
<1>2. CASE r = ring
    BY <1>1, <1>2
<1>3. CASE r \in Grown(ring.count + 1)
    <2>1. PICK n \in (ring.count + 1)..MaxCapacity : r = relinearize(ring, n)
        BY <1>3 DEF Grown
    <2>2. n \in 1..MaxCapacity /\ ring.count < n
        BY <1>1, <2>1, RingAssumption
    <2>. QED  BY <1>1, <2>1, <2>2, Relinearized, LivesGrown
<1>4. CASE ring.count >= ring.capacity /\ r \in {drop_oldest(ring), drop_newest(ring)}
    <2>1. ring.count > 0
        BY <1>1, <1>4
    <2>. QED  BY <1>1, <1>4, <2>1, DroppedOldest, DroppedNewest, LivesDrop DEF drop_oldest, drop_newest
<1>. QED  BY <1>1, <1>2, <1>3, <1>4 DEF Room

\* commit_read destroys what it lets go of.
LEMMA LivesCommitRead ==
    ASSUME Inv, Lives(ring), NEW elem_count \in 1..MaxCapacity, CommitRead(elem_count)
    PROVE  Lives(ring')
<1>1. RingInv(ring) /\ RingType(ring) /\ ring.count > 0 /\ ring.count \in Nat /\ elem_count \in Nat
    BY Fields, RingAssumption DEF CommitRead, Inv, RingInv
<1>2. PICK n \in Nat : n <= ring.count /\ n = IF elem_count > ring.count THEN ring.count ELSE elem_count
    BY <1>1
<1>3. PICK c \in Nat : c = ring.count - n /\ n + c <= ring.count
    BY <1>1, <1>2
<1>4. PICK q : q = Destroyed(ring, {logical_index(ring, i) : i \in 0..(n - 1)})
    OBVIOUS
<1>5. PICK t : t = advance(ring, ring.tail, n)
    OBVIOUS
<1>6. ring' = moved(ring, q, ring.head, t, c) /\ t = At(ring, n)
    BY <1>1, <1>2, <1>3, <1>4, <1>5, Indices DEF CommitRead
<1>7. \A s \in Slot : q[s] = IF \E j \in 0..(ring.count - 1) : (j < n \/ j >= n + c) /\ s = At(ring, j)
                             THEN Empty ELSE ring.slots[s]
    <2>1. TAKE s \in Slot
    <2>2. \A i \in 0..(n - 1) : logical_index(ring, i) = At(ring, i)
        BY <1>1, Indices
    <2>3. \A j \in 0..(ring.count - 1) : j < n \/ j >= n + c => j \in 0..(n - 1)
        BY <1>1, <1>3
    <2>4. \A j \in 0..(n - 1) : j \in 0..(ring.count - 1) /\ j < n
        BY <1>1, <1>2
    <2>5. s \in {logical_index(ring, i) : i \in 0..(n - 1)}
              <=> \E j \in 0..(ring.count - 1) : (j < n \/ j >= n + c) /\ s = At(ring, j)
        BY <2>2, <2>3, <2>4
    <2>. QED  BY <1>4, <2>5 DEF Destroyed
<1>. QED  BY <1>1, <1>3, <1>6, <1>7, LivesFewer

\* commit_write hands over what the caller constructed.
LEMMA LivesCommitWrite ==
    ASSUME Inv, Lives(ring), NEW elem_count \in 1..MaxCapacity, CommitWrite(elem_count)
    PROVE  Lives(ring')
<1>1. RingInv(ring) /\ RingType(ring) /\ ring.count \in Nat /\ ring.capacity \in Nat
    BY Fields DEF Inv, RingInv
<1>2. PICK n \in 0..(ring.capacity - ring.count), q \in [Slot -> Item] :
          /\ ring' = moved(ring, q, advance(ring, ring.head, n), ring.tail, ring.count + n)
          /\ \A i \in 0..(ring.count - 1) : q[At(ring, i)] = ring.slots[At(ring, i)]
          /\ \A i \in ring.count..((ring.count + n) - 1) : q[At(ring, i)] \in Value
          /\ \A s \in Slot : \/ q[s] = ring.slots[s]
                             \/ \E i \in ring.count..((ring.count + n) - 1) : s = At(ring, i)
    BY CommitSlots
<1>3. PICK k \in Int, c \in Int : k = 0 /\ c = ring.count + n /\ k + c >= ring.count /\ n \in Nat
    BY <1>1, <1>2
<1>4. ring.tail = At(ring, k)
    BY <1>1, <1>3, AtZero
<1>5. \A s \in Slot : q[s] # Empty <=> ring.slots[s] # Empty
                                       \/ \E j \in k..((k + c) - 1) : s = At(ring, j)
    <2>1. TAKE s \in Slot
    <2>2. \A j \in k..((k + c) - 1) : j \in 0..(ring.count - 1) \/ j \in ring.count..((ring.count + n) - 1)
        BY <1>1, <1>3
    <2>3. \A j \in ring.count..((ring.count + n) - 1) : j \in k..((k + c) - 1)
        BY <1>1, <1>3
    <2>4. \A j \in 0..(ring.count - 1) : ring.slots[At(ring, j)] \in Value
        BY <1>1 DEF RingInv
    <2>5. ASSUME NEW j \in k..((k + c) - 1), s = At(ring, j) PROVE q[s] # Empty
        BY <1>2, <2>2, <2>4, <2>5, RingAssumption
    <2>6. CASE q[s] = ring.slots[s]
        BY <2>5, <2>6
    <2>7. CASE \E i \in ring.count..((ring.count + n) - 1) : s = At(ring, i)
        BY <2>3, <2>5, <2>7
    <2>. QED  BY <1>2, <2>6, <2>7
<1>. QED  BY <1>1, <1>2, <1>3, <1>4, <1>5, LivesMore

\* set_at replaces an object by another.
LEMMA LivesSetAt ==
    ASSUME Inv, Lives(ring), NEW index \in 0..(MaxCapacity - 1), NEW v \in Value, SetAt(index, v)
    PROVE  Lives(ring')
<1>1. RingInv(ring) /\ RingType(ring) /\ ring.count \in Nat /\ ring.slots \in [Slot -> Item] /\ index \in Nat
    BY Fields, RingAssumption DEF Inv, RingInv
<1>2. CASE \E status : Return(status)
    BY <1>2 DEF Return
<1>3. CASE /\ index < ring.count
           /\ ring' = moved(ring, [ring.slots EXCEPT ![logical_index(ring, index)] = v],
                            ring.head, ring.tail, ring.count)
    <2>1. index \in 0..(ring.count - 1) /\ logical_index(ring, index) = At(ring, index)
        BY <1>1, <1>3, Indices
    <2>2. PICK q : q = [ring.slots EXCEPT ![At(ring, index)] = v]
        OBVIOUS
    <2>3. At(ring, index) \in Slot /\ ring.slots[At(ring, index)] # Empty
        BY <1>1, <2>1, AtSlot DEF Lives
    <2>4. \A s \in Slot : q[s] # Empty <=> ring.slots[s] # Empty
        BY <1>1, <2>2, <2>3, RingAssumption
    <2>5. ring'.count = ring.count /\ ring'.slots = q /\ ring'.tail = ring.tail
          /\ ring'.capacity = ring.capacity
        BY <1>3, <2>1, <2>2 DEF moved
    <2>. QED  BY <2>4, <2>5 DEF Lives, At
<1>. QED  BY <1>2, <1>3 DEF SetAt

\* Every step keeps the lifetime exact.
LEMMA LivesNext ==
    ASSUME Inv, LivesInv, [Next]_vars
    PROVE  LivesInv'
<1>1. SUFFICES ASSUME client = "Deque", Lives(ring) PROVE Lives(ring')
    <2>1. client' = client
        BY DEF vars, Next, QueueNext, PushBack, PushFront, PopFront, PopBack, SetAt, Clear, Reserve,
               WritableContiguous, CommitRead, CommitWrite, Deinit
    <2>. QED  BY <2>1 DEF LivesInv
<1>2. RingInv(ring) /\ ~copy_may_fail /\ move_out /\ ring.count \in Nat /\ ring.capacity \in Nat
    BY <1>1, Fields DEF Inv, RingInv, copy_may_fail, move_out
<1>3. CASE \E status : Return(status)
    BY <1>1, <1>3 DEF Return
<1>4. CASE UNCHANGED vars
    BY <1>1, <1>4 DEF vars
<1>5. ASSUME NEW v \in Value, NEW allow_overwrite \in BOOLEAN, PushBack(v, allow_overwrite)
      PROVE  Lives(ring')
    BY <1>1, <1>2, <1>3, <1>5, LivesRoom, LivesPut DEF PushBack
<1>6. ASSUME NEW v \in Value, PushFront(v) PROVE Lives(ring')
    BY <1>1, <1>2, <1>3, <1>6, LivesRoom, LivesPut DEF PushFront
<1>7. ASSUME NEW wanted \in BOOLEAN, PopFront(wanted) PROVE Lives(ring')
    BY <1>1, <1>2, <1>3, <1>7, LivesDrop DEF PopFront, extract_slot
<1>8. ASSUME NEW wanted \in BOOLEAN, PopBack(wanted) PROVE Lives(ring')
    BY <1>1, <1>2, <1>3, <1>8, LivesDrop DEF PopBack, extract_slot
<1>9. CASE Clear
    BY <1>1, <1>2, <1>9, LivesCleared DEF Clear
<1>10. CASE Deinit
    <2>1. PICK r : r = cleared(ring)
        OBVIOUS
    <2>2. RingType(r) /\ Lives(r)
        BY <1>1, <1>2, <2>1, ClearedRing, LivesCleared DEF RingInv
    <2>3. PICK m : ring' = [r EXCEPT !.heap = m]
        BY <1>10, <2>1 DEF Deinit
    <2>4. /\ ring'.capacity = r.capacity /\ ring'.tail = r.tail
          /\ ring'.count = r.count /\ ring'.slots = r.slots
        BY <2>2, <2>3 DEF RingType
    <2>. QED  BY <2>2, <2>4 DEF Lives, At
<1>11. CASE \E n \in Nat : n > ring.count /\ ring' \in Grown(n)
    <2>1. PICK n \in Nat : n > ring.count /\ ring' \in Grown(n)
        BY <1>11
    <2>2. PICK m \in n..MaxCapacity : ring' = relinearize(ring, m)
        BY <2>1 DEF Grown
    <2>3. m \in 1..MaxCapacity /\ ring.count < m
        BY <1>2, <2>1, <2>2, RingAssumption
    <2>. QED  BY <1>2, <2>2, <2>3, LivesGrown
<1>12. CASE WritableContiguous
    BY <1>2, <1>3, <1>11, <1>12 DEF WritableContiguous
<1>13. ASSUME NEW n \in 1..MaxCapacity, Reserve(n) PROVE Lives(ring')
    <2>1. n \in Nat /\ ring.count <= ring.capacity
        BY <1>2, Fields, RingAssumption DEF RingInv
    <2>. QED  BY <1>2, <1>3, <1>11, <1>13, <2>1 DEF Reserve
<1>. QED  BY <1>1, <1>4, <1>5, <1>6, <1>7, <1>8, <1>9, <1>10, <1>12, <1>13,
             LivesCommitRead, LivesCommitWrite, LivesSetAt DEF Next, QueueNext

\* Queue and Deque: exactly the element slots hold live objects, whatever the capacity and
\* the order of pushes, pops, in-place commits, replacements and growths.
THEOREM RingElementLifetime == Spec => []ElementLifetime
<1>1. Init => LivesInv
    <2>1. SUFFICES ASSUME Init PROVE Lives(ring)
        BY DEF LivesInv
    <2>2. ring.count = 0 /\ \A s \in Slot : ring.slots[s] = Empty
        BY <2>1 DEF Init
    <2>3. 0..(ring.count - 1) = {}
        BY <2>2
    <2>. QED  BY <2>2, <2>3 DEF Lives
<1>2. Inv /\ LivesInv /\ [Next]_vars => LivesInv'
    BY LivesNext
<1>3. Inv /\ LivesInv => ElementLifetime
    BY LivesLive DEF Inv, LivesInv, ElementLifetime
<1>. QED  BY <1>1, <1>2, <1>3, RingInvariant, PTL DEF Spec
=============================================================================
